--------------------------- MODULE EventPipeline ---------------------------
(***************************************************************************)
(* How events travel from the services to their consumer.  Every service   *)
(* has an EmailEventProducer (src/common/rabbitmq_producer.hpp) that       *)
(* declares the one exchange, queue and binding when it is constructed and *)
(* removes queue and exchange when it is destroyed, for all the others     *)
(* too.  An EmailEventConsumer (rabbitmq_consumer.hpp) takes events from   *)
(* the queue, stores and then processes them.                              *)
(*                                                                         *)
(* The broker is modelled from that use: without the durable flag the      *)
(* exchange and the queue are gone after a broker restart, and so are      *)
(* transient messages; a fanout exchange with nothing bound confirms and   *)
(* drops; a delivery that is rejected or whose consumer dies goes back to  *)
(* its queue, if that still exists.                                        *)
(*                                                                         *)
(* No program of the repository registers the consumer yet: the model is   *)
(* of the consumer class running beside the services, as README.md (sixth  *)
(* homework) and rabbitmq_consumer.hpp describe it.  The same holds of the *)
(* test endpoint; what it lists is storage_.                               *)
(*                                                                         *)
(* Bound: MaxRestarts caps stops, crashes and broker restarts of a run.    *)
(***************************************************************************)
EXTENDS Integers, FiniteSets

CONSTANTS
  Service,     \* the services, each with a producer
  Event,       \* the events, each published once, by a handler of their service
               \* or by its test endpoint
  Producer,    \* the service that publishes an event
  Poison,      \* the events that lack a field Process reads: none that the
               \* producers of today build, but the path that handles them exists
  Consumer,    \* the deliveries that can be in progress at once (prefetch)
  NoEvent,
  MaxRestarts

ASSUME PipelineAssumption ==
  /\ Producer \in [Event -> Service] /\ Poison \subseteq Event
  /\ NoEvent \notin Event
  /\ MaxRestarts \in Nat

VARIABLES
  service,     \* service -> how far its producer is in set-up or teardown
  exchange, queue, bound,  \* what the broker has declared
  ready,       \* the events in the queue that nobody holds
  held,        \* consumer -> the event delivered to it
  stage,       \* consumer -> how far Process is
  orphan,      \* the consumers whose delivery came from a queue now gone
  storage,     \* the events in storage_
  processed,   \* the events acknowledged after processing
  outcome,     \* event -> what PublishReliable told its producer
  shaken,      \* history: the services under which something was removed since
               \* they came up
  exposed,     \* history: the events that were in a queue when it was removed, or
               \* published unbound by a service whose declarations were removed
  restarts

topology == <<exchange, queue, bound>>
delivery == <<ready, held, stage, orphan, storage, processed>>
history == <<shaken, exposed>>
vars == <<service, topology, delivery, outcome, history, restarts>>

TypeOK ==
  /\ service \in [Service -> {"down", "exchange", "queue", "bind", "up",
                              "unqueue", "unexchange"}]
  /\ exchange \in BOOLEAN /\ queue \in BOOLEAN /\ bound \in BOOLEAN
  /\ ready \subseteq Event
  /\ held \in [Consumer -> Event \cup {NoEvent}]
  /\ stage \in [Consumer -> {"idle", "taken", "stored"}]
  /\ \A c \in Consumer : stage[c] = "idle" <=> held[c] = NoEvent
  /\ orphan \subseteq {c \in Consumer : stage[c] # "idle"}
  /\ storage \subseteq Event
  /\ processed \subseteq Event
  /\ outcome \in [Event -> {"none", "confirmed", "failed"}]
  /\ shaken \subseteq Service /\ exposed \subseteq Event
  /\ restarts \in 0..MaxRestarts

Init ==
  /\ service = [s \in Service |-> "down"]
  /\ exchange = FALSE /\ queue = FALSE /\ bound = FALSE
  /\ ready = {}
  /\ held = [c \in Consumer |-> NoEvent]
  /\ stage = [c \in Consumer |-> "idle"]
  /\ orphan = {}
  /\ storage = {}
  /\ processed = {}
  /\ outcome = [e \in Event |-> "none"]
  /\ shaken = {} /\ exposed = {}
  /\ restarts = 0

Disturb ==
  /\ restarts < MaxRestarts
  /\ restarts' = restarts + 1

Become(s, phase) == service' = [service EXCEPT ![s] = phase]

---------------------------------------------------------------------------
\* The producer's constructor, one admin call at a time.

StartUp(s) ==
  /\ service[s] = "down"
  /\ Become(s, "exchange")
  /\ shaken' = shaken \ {s}
  /\ UNCHANGED <<topology, delivery, outcome, exposed, restarts>>

DeclareExchange(s) ==
  /\ service[s] = "exchange"
  /\ exchange' = TRUE
  /\ Become(s, "queue")
  /\ UNCHANGED <<queue, bound, delivery, outcome, history, restarts>>

DeclareQueue(s) ==
  /\ service[s] = "queue"
  /\ queue' = TRUE
  /\ Become(s, "bind")
  /\ UNCHANGED <<exchange, bound, delivery, outcome, history, restarts>>

\* Variant: the constructor logs what a call throws, as the destructor may.
BindQueue_Caught(s) ==
  /\ service[s] = "bind"
  /\ bound' = (exchange /\ queue)
  /\ Become(s, "up")
  /\ UNCHANGED <<exchange, queue, delivery, outcome, history, restarts>>

BindQueue(s) ==
  /\ service[s] = "bind"
  /\ exchange /\ queue
  /\ bound' = TRUE
  /\ Become(s, "up")
  /\ UNCHANGED <<exchange, queue, delivery, outcome, history, restarts>>

\* A set-up call throws, as the binding does when another service has removed
\* its ends: the component, and with it the process, does not start.
SetUpFails(s) ==
  /\ service[s] \in {"exchange", "queue", "bind"}
  /\ Disturb
  /\ Become(s, "down")
  /\ UNCHANGED <<topology, delivery, outcome, history>>

---------------------------------------------------------------------------
\* The producer's destructor.

Stop(s) ==
  /\ service[s] = "up"
  /\ Disturb
  /\ Become(s, "unqueue")
  /\ UNCHANGED <<topology, delivery, outcome, history>>

Busy == {c \in Consumer : stage[c] # "idle"}

\* The events the broker would still deliver.
InBroker == ready \cup {held[c] : c \in Busy \ orphan}

Shake == shaken' = shaken \cup {s \in Service : service[s] = "up"}

\* What the broker forgets with a queue: its messages, its binding, and where
\* the deliveries in progress came from.
DropQueue ==
  /\ queue' = FALSE
  /\ bound' = FALSE
  /\ ready' = {}
  /\ orphan' = Busy
  /\ exposed' = exposed \cup InBroker
  /\ Shake

RemoveQueue(s) ==
  /\ service[s] = "unqueue"
  /\ DropQueue
  /\ Become(s, "unexchange")
  /\ UNCHANGED <<exchange, held, stage, storage, processed, outcome, restarts>>

RemoveExchange(s) ==
  /\ service[s] = "unexchange"
  /\ exchange' = FALSE
  /\ bound' = FALSE
  /\ Shake
  /\ Become(s, "down")
  /\ UNCHANGED <<queue, delivery, outcome, exposed, restarts>>

\* A teardown call throws and the rest is skipped, or the process is killed.
Vanish(s) ==
  /\ service[s] # "down"
  /\ Disturb
  /\ Become(s, "down")
  /\ UNCHANGED <<topology, delivery, outcome, history>>

BrokerRestart ==
  /\ Disturb
  /\ DropQueue
  /\ exchange' = FALSE
  /\ UNCHANGED <<service, held, stage, storage, processed, outcome>>

---------------------------------------------------------------------------
\* PublishEvent

Publishing(e) == service[Producer[e]] = "up" /\ outcome[e] = "none"

\* What the exchange does with e.
Route(e) == ready' = IF bound THEN ready \cup {e} ELSE ready

Publish(e) ==
  /\ Publishing(e)
  /\ exchange
  /\ Route(e)
  /\ outcome' = [outcome EXCEPT ![e] = "confirmed"]
  /\ exposed' = IF Producer[e] \in shaken /\ ~ bound THEN exposed \cup {e} ELSE exposed
  /\ UNCHANGED <<service, topology, held, stage, orphan, storage, processed,
                 shaken, restarts>>

\* No exchange, no connection, or no confirmation within two seconds; in the
\* last case the broker may have the event.
PublishFails(e) ==
  /\ Publishing(e)
  /\ UNCHANGED ready \/ (exchange /\ Route(e))
  /\ outcome' = [outcome EXCEPT ![e] = "failed"]
  /\ UNCHANGED <<service, topology, held, stage, orphan, storage, processed,
                 history, restarts>>

\* POST of the test endpoint (event_handler.hpp), an event of fixed content: it is
\* told of success or of the exception, where a service's handler would fail.
HandlePublishTestEvent(e) == Publish(e) \/ PublishFails(e)

---------------------------------------------------------------------------
\* The consumer: Process stores the message, then processes it, and the
\* delivery is acknowledged only if it returns.

Take(c, e) ==
  /\ stage[c] = "idle"
  /\ e \in ready
  /\ ready' = ready \ {e}
  /\ held' = [held EXCEPT ![c] = e]
  /\ stage' = [stage EXCEPT ![c] = "taken"]
  /\ UNCHANGED <<service, topology, orphan, storage, processed, outcome,
                 history, restarts>>

\* Variant: the message is moved into storage_, and what is left of it processed.
Store_Moved(c) ==
  /\ stage[c] = "taken"
  /\ storage' = storage \cup {held[c]}
  /\ held' = [held EXCEPT ![c] = NoEvent]
  /\ stage' = [stage EXCEPT ![c] = "stored"]
  /\ UNCHANGED <<service, topology, ready, orphan, processed, outcome,
                 history, restarts>>

\* Variant: storage_ holds one message, and a push waits for room.
Store_Waiting(c) ==
  /\ stage[c] = "taken"
  /\ storage = {}
  /\ storage' = storage \cup {held[c]}
  /\ stage' = [stage EXCEPT ![c] = "stored"]
  /\ UNCHANGED <<service, topology, ready, held, orphan, processed, outcome,
                 history, restarts>>

Store(c) ==
  /\ stage[c] = "taken"
  /\ storage' = storage \cup {held[c]}
  /\ stage' = [stage EXCEPT ![c] = "stored"]
  /\ UNCHANGED <<service, topology, ready, held, orphan, processed, outcome,
                 history, restarts>>

LetGo(c) ==
  /\ held' = [held EXCEPT ![c] = NoEvent]
  /\ stage' = [stage EXCEPT ![c] = "idle"]
  /\ orphan' = orphan \ {c}

Finish(c) ==
  /\ stage[c] = "stored"
  /\ held[c] \notin Poison
  /\ processed' = processed \cup {held[c]}
  /\ LetGo(c)
  /\ UNCHANGED <<service, topology, ready, storage, outcome, history, restarts>>

\* Where a delivery goes that nobody acknowledges.
Requeue(cs) == ready' = ready \cup {held[c] : c \in cs \ orphan}

\* Variant: Process logs the exception and returns.
Fail_Swallowed(c) ==
  /\ stage[c] = "stored"
  /\ held[c] \in Poison
  /\ LetGo(c)
  /\ UNCHANGED <<service, topology, ready, storage, processed, outcome,
                 history, restarts>>

\* ProcessEvent throws, Process logs and throws again.
Fail(c) ==
  /\ stage[c] = "stored"
  /\ held[c] \in Poison
  /\ Requeue({c})
  /\ LetGo(c)
  /\ UNCHANGED <<service, topology, storage, processed, outcome, history, restarts>>

\* The consuming process dies and starts again: storage_ is in its memory.
ConsumerCrash ==
  /\ Disturb
  /\ Requeue(Busy)
  /\ held' = [c \in Consumer |-> NoEvent]
  /\ stage' = [c \in Consumer |-> "idle"]
  /\ orphan' = {}
  /\ storage' = {}
  /\ UNCHANGED <<service, topology, processed, outcome, history>>

ClearConsumedMessages ==
  /\ storage # {}
  /\ storage' = {}
  /\ UNCHANGED <<service, topology, ready, held, stage, orphan, processed,
                 outcome, history, restarts>>

\* DELETE of the test endpoint.
HandleClearConsumedEvents == ClearConsumedMessages

---------------------------------------------------------------------------
Next ==
  \/ \E s \in Service :
       \/ StartUp(s) \/ DeclareExchange(s) \/ DeclareQueue(s) \/ BindQueue(s)
       \/ SetUpFails(s) \/ Stop(s) \/ RemoveQueue(s) \/ RemoveExchange(s)
       \/ Vanish(s)
  \/ BrokerRestart
  \/ \E e \in Event : HandlePublishTestEvent(e)
  \/ \E c \in Consumer :
       \/ \E e \in Event : Take(c, e)
       \/ Store(c) \/ Finish(c) \/ Fail(c)
  \/ ConsumerCrash
  \/ HandleClearConsumedEvents

\* The consumer's coroutines run on, and as a consumer holds several
\* deliveries at once, a message that keeps coming back does not keep the
\* broker from delivering the others.  Nobody is obliged to publish or restart.
Fairness ==
  /\ \A c \in Consumer : WF_vars(Store(c)) /\ WF_vars(Finish(c)) /\ WF_vars(Fail(c))
  /\ \A e \in Event : SF_vars(\E c \in Consumer : Take(c, e))

Spec == Init /\ [][Next]_vars /\ Fairness

---------------------------------------------------------------------------
\* UpIsBound.  While one service sets up, others may remove what it declares;
\* but when its constructor has returned, exchange, queue and binding are all
\* there, and stay until somebody removes them under the running service.
UpIsBound ==
  \A s \in Service :
    (service[s] = "up" /\ s \notin shaken) => exchange /\ queue /\ bound

\* NothingElseLost.  The consumer may crash or fail and services come and go: a
\* confirmed event is in the queue, with a consumer or processed, unless it was
\* in a queue that was removed, or its service runs on although what it had
\* declared was removed.
NothingElseLost ==
  \A e \in Event :
    (outcome[e] = "confirmed" /\ e \notin exposed) => e \in InBroker \cup processed

\* HealthyProcessed.  An event in the broker that can be processed eventually
\* is, however often others come back, unless its queue goes first.
HealthyProcessed ==
  \A e \in Event \ Poison : e \in InBroker ~> (e \in processed \/ e \in exposed)

\* What event_driven_design.md says of at-least-once delivery: once the broker
\* has confirmed an event, it is delivered.
ConfirmedNotLost ==
  \A e \in Event : outcome[e] = "confirmed" => e \in InBroker \cup processed
=============================================================================
