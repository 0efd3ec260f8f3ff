------------------------ MODULE EventPipelineProofs ------------------------
(* Proofs about EventPipeline, for any services, events and consumers.      *)
EXTENDS EventPipeline, TLAPS

USE DEF topology, delivery

---------------------------------------------------------------------------
\* Types.

LEMMA TypeInit == Init => TypeOK
<1> SUFFICES ASSUME Init PROVE TypeOK
  OBVIOUS
<1>1. restarts \in 0..MaxRestarts
  BY PipelineAssumption DEF Init
<1>2. \A c \in Consumer : stage[c] = "idle" <=> held[c] = NoEvent
  BY DEF Init
<1>3. /\ service \in [Service -> {"down", "exchange", "queue", "bind", "up",
                                 "unqueue", "unexchange"}]
      /\ held \in [Consumer -> Event \cup {NoEvent}]
      /\ stage \in [Consumer -> {"idle", "taken", "stored"}]
      /\ outcome \in [Event -> {"none", "confirmed", "failed"}]
  BY DEF Init
<1>4. /\ exchange \in BOOLEAN /\ queue \in BOOLEAN /\ bound \in BOOLEAN
      /\ shaken \subseteq Service /\ exposed \subseteq Event
      /\ ready \subseteq Event /\ storage \subseteq Event /\ processed \subseteq Event
      /\ orphan \subseteq {c \in Consumer : stage[c] # "idle"}
  BY DEF Init
<1> QED BY <1>1, <1>2, <1>3, <1>4 DEF TypeOK

\* The producers' own steps move a service and what the broker has declared.
LEMMA TypeProducer ==
  ASSUME TypeOK, UNCHANGED <<delivery, outcome>>,
         service' \in [Service -> {"down", "exchange", "queue", "bind", "up",
                                   "unqueue", "unexchange"}],
         exchange' \in BOOLEAN, queue' \in BOOLEAN, bound' \in BOOLEAN,
         shaken' \subseteq Service, UNCHANGED exposed, restarts' \in 0..MaxRestarts
  PROVE  TypeOK'
BY DEF TypeOK

LEMMA TypeDrop ==
  ASSUME TypeOK, DropQueue, UNCHANGED <<held, stage, storage, processed, outcome>>,
         service' \in [Service -> {"down", "exchange", "queue", "bind", "up",
                                   "unqueue", "unexchange"}],
         exchange' \in BOOLEAN, restarts' \in 0..MaxRestarts
  PROVE  TypeOK'
<1>1. \A c \in Busy : held[c] \in Event
  BY DEF Busy, TypeOK
<1>2. exposed' \subseteq Event /\ shaken' \subseteq Service
  BY <1>1 DEF DropQueue, InBroker, Shake, TypeOK
<1> QED BY <1>2 DEF TypeOK, DropQueue, Busy

\* The events' steps leave the producers and the declarations alone.
LEMMA TypeEvents ==
  ASSUME TypeOK, UNCHANGED <<service, topology, shaken>>, exposed' \subseteq Event,
         ready' \subseteq Event, storage' \subseteq Event, processed' \subseteq Event,
         held' \in [Consumer -> Event \cup {NoEvent}],
         stage' \in [Consumer -> {"idle", "taken", "stored"}],
         orphan' \subseteq {c \in Consumer : stage'[c] # "idle"},
         outcome' \in [Event -> {"none", "confirmed", "failed"}],
         restarts' \in 0..MaxRestarts,
         \A c \in Consumer : stage'[c] = "idle" <=> held'[c] = NoEvent
  PROVE  TypeOK'
BY DEF TypeOK

LEMMA TypeNext == TypeOK /\ [Next]_vars => TypeOK'
<1> SUFFICES ASSUME TypeOK, [Next]_vars PROVE TypeOK'
  OBVIOUS
<1>1. ASSUME NEW s \in Service,
             \/ StartUp(s) \/ DeclareExchange(s) \/ DeclareQueue(s) \/ BindQueue(s)
             \/ SetUpFails(s) \/ Stop(s) \/ RemoveExchange(s) \/ Vanish(s)
      PROVE  TypeOK'
  <2>1. /\ UNCHANGED <<delivery, outcome>>
        /\ service' \in [Service -> {"down", "exchange", "queue", "bind", "up",
                                     "unqueue", "unexchange"}]
        /\ exchange' \in BOOLEAN /\ queue' \in BOOLEAN /\ bound' \in BOOLEAN
        /\ shaken' \subseteq Service /\ UNCHANGED exposed
    BY <1>1 DEF TypeOK, Shake, history, StartUp, DeclareExchange, DeclareQueue, BindQueue,
                SetUpFails, Stop, RemoveExchange, Vanish, Become
  <2>2. restarts' \in 0..MaxRestarts
    BY <1>1, PipelineAssumption
       DEF TypeOK, StartUp, DeclareExchange, DeclareQueue, BindQueue,
           SetUpFails, Stop, RemoveExchange, Vanish, Disturb
  <2> QED BY <2>1, <2>2, TypeProducer
<1>2. ASSUME NEW s \in Service, RemoveQueue(s) PROVE TypeOK'
  <2>1. DropQueue /\ UNCHANGED <<held, stage, storage, processed, outcome>>
    BY <1>2 DEF RemoveQueue
  <2>2. service' \in [Service -> {"down", "exchange", "queue", "bind", "up",
                                  "unqueue", "unexchange"}]
    BY <1>2 DEF TypeOK, RemoveQueue, Become
  <2>3. exchange' \in BOOLEAN /\ restarts' \in 0..MaxRestarts
    BY <1>2 DEF TypeOK, RemoveQueue
  <2> QED BY <2>1, <2>2, <2>3, TypeDrop
<1>3. CASE BrokerRestart
  <2>1. /\ DropQueue /\ UNCHANGED <<held, stage, storage, processed, outcome>>
        /\ UNCHANGED service /\ exchange' = FALSE
    BY <1>3 DEF BrokerRestart
  <2>2. restarts' \in 0..MaxRestarts
    BY <1>3, PipelineAssumption DEF TypeOK, BrokerRestart, Disturb
  <2> QED BY <2>1, <2>2, TypeDrop DEF TypeOK
<1>4. ASSUME NEW e \in Event, HandlePublishTestEvent(e) PROVE TypeOK'
  <2>1. /\ UNCHANGED <<service, topology, held, stage, orphan, storage, processed,
                       shaken, restarts>>
        /\ ready' \subseteq Event /\ exposed' \subseteq Event
        /\ outcome' \in [Event -> {"none", "confirmed", "failed"}]
    BY <1>4 DEF HandlePublishTestEvent, Publish, PublishFails, Route, history, TypeOK
  <2> QED BY <2>1, TypeEvents DEF TypeOK
<1>5. ASSUME NEW c \in Consumer, NEW e \in Event, Take(c, e) PROVE TypeOK'
  BY <1>5, PipelineAssumption, TypeEvents DEF Take, history, TypeOK
<1>6. ASSUME NEW c \in Consumer, Store(c) PROVE TypeOK'
  BY <1>6, PipelineAssumption, TypeEvents DEF Store, history, TypeOK
<1>7. ASSUME NEW c \in Consumer, Finish(c) \/ Fail(c) PROVE TypeOK'
  <2>1. held[c] \in Event
    BY <1>7 DEF Finish, Fail, TypeOK
  <2>2. UNCHANGED <<service, topology, storage, outcome, shaken, exposed, restarts>>
    BY <1>7 DEF Finish, Fail, history
  <2>3. ready' \subseteq Event /\ processed' \subseteq Event
    BY <1>7, <2>1 DEF Finish, Fail, Requeue, TypeOK
  <2>4. LetGo(c)
    BY <1>7 DEF Finish, Fail
  <2>5. /\ held' \in [Consumer -> Event \cup {NoEvent}]
        /\ stage' \in [Consumer -> {"idle", "taken", "stored"}]
        /\ orphan' \subseteq {d \in Consumer : stage'[d] # "idle"}
        /\ \A d \in Consumer : stage'[d] = "idle" <=> held'[d] = NoEvent
    BY <2>4 DEF LetGo, TypeOK
  <2> QED BY <2>2, <2>3, <2>5, TypeEvents DEF TypeOK
<1>8. CASE ConsumerCrash
  <2>1. ready' \subseteq Event
    BY <1>8 DEF ConsumerCrash, Requeue, Busy, TypeOK
  <2>2. restarts' \in 0..MaxRestarts
    BY <1>8, PipelineAssumption DEF ConsumerCrash, Disturb, TypeOK
  <2> QED BY <1>8, <2>1, <2>2, TypeEvents DEF ConsumerCrash, history, TypeOK
<1>9. CASE HandleClearConsumedEvents
  BY <1>9, TypeEvents
     DEF HandleClearConsumedEvents, ClearConsumedMessages, history, TypeOK
<1>10. CASE UNCHANGED vars
  BY <1>10 DEF vars, history, TypeOK
<1> QED BY <1>1, <1>2, <1>3, <1>4, <1>5, <1>6, <1>7, <1>8, <1>9, <1>10 DEF Next

\* Every reachable state of the pipeline is well typed, and a consumer holds an
\* event exactly while it processes one.
THEOREM TypeCorrect == Spec => []TypeOK
BY TypeInit, TypeNext, PTL DEF Spec

---------------------------------------------------------------------------
\* The topology.

\* Only the removals and a broker restart take a declaration back, and then
\* every service that is up is shaken.
LEMMA DeclarationsStay ==
  ASSUME [Next]_vars
  PROVE  \/ /\ exchange => exchange'
            /\ queue => queue'
            /\ bound => bound'
         \/ Shake
<1>1. CASE UNCHANGED topology
  BY <1>1
<1>2. ASSUME NEW s \in Service, DeclareExchange(s) \/ DeclareQueue(s) \/ BindQueue(s)
      PROVE  /\ exchange => exchange'
             /\ queue => queue'
             /\ bound => bound'
  BY <1>2 DEF DeclareExchange, DeclareQueue, BindQueue
<1>3. ASSUME NEW s \in Service, StartUp(s) \/ SetUpFails(s) \/ Stop(s) \/ Vanish(s)
      PROVE  UNCHANGED topology
  BY <1>3 DEF StartUp, SetUpFails, Stop, Vanish
<1>4. ASSUME NEW s \in Service, RemoveQueue(s) \/ RemoveExchange(s) PROVE Shake
  BY <1>4 DEF RemoveQueue, RemoveExchange, DropQueue
<1>5. ASSUME BrokerRestart PROVE Shake
  BY <1>5 DEF BrokerRestart, DropQueue
<1>6. ASSUME NEW e \in Event, HandlePublishTestEvent(e) PROVE UNCHANGED topology
  BY <1>6 DEF HandlePublishTestEvent, Publish, PublishFails
<1>7. ASSUME NEW c \in Consumer,
             \/ \E e \in Event : Take(c, e)
             \/ Store(c) \/ Finish(c) \/ Fail(c)
      PROVE  UNCHANGED topology
  BY <1>7 DEF Take, Store, Finish, Fail
<1>8. CASE ConsumerCrash \/ HandleClearConsumedEvents \/ UNCHANGED vars
  BY <1>1, <1>8 DEF ConsumerCrash, HandleClearConsumedEvents, ClearConsumedMessages, vars
<1> QED BY <1>1, <1>2, <1>3, <1>4, <1>5, <1>6, <1>7, <1>8 DEF Next

\* A service that is up either comes up in this step, and finds everything there,
\* or was up before; and only one that starts is no longer shaken.
LEMMA ComesUp ==
  ASSUME TypeOK, [Next]_vars, NEW s \in Service, service'[s] = "up"
  PROVE  \/ exchange' /\ queue' /\ bound'
         \/ service[s] = "up" /\ (s \in shaken => s \in shaken')
<1>1. ASSUME NEW t \in Service, StartUp(t)
      PROVE  service[s] = "up" /\ (s \in shaken => s \in shaken')
  BY <1>1 DEF StartUp, Become, TypeOK
<1>2. ASSUME NEW t \in Service,
             \/ DeclareExchange(t) \/ DeclareQueue(t) \/ SetUpFails(t) \/ Stop(t)
             \/ RemoveQueue(t) \/ RemoveExchange(t) \/ Vanish(t)
      PROVE  service[s] = "up" /\ (s \in shaken => s \in shaken')
  BY <1>2 DEF DeclareExchange, DeclareQueue, SetUpFails, Stop, RemoveQueue,
              RemoveExchange, Vanish, DropQueue, Shake, Become, history, TypeOK
<1>3. ASSUME NEW t \in Service, BindQueue(t)
      PROVE  exchange' /\ queue' /\ bound'
  BY <1>3 DEF BindQueue
<1>4. CASE BrokerRestart
  BY <1>4 DEF BrokerRestart, DropQueue, Shake
<1>5. ASSUME ~ BrokerRestart,
             ~ \E t \in Service :
                 \/ StartUp(t) \/ DeclareExchange(t) \/ DeclareQueue(t) \/ BindQueue(t)
                 \/ SetUpFails(t) \/ Stop(t) \/ RemoveQueue(t) \/ RemoveExchange(t)
                 \/ Vanish(t)
      PROVE  UNCHANGED <<service, shaken>>
  BY <1>5 DEF Next, vars, history, HandlePublishTestEvent, Publish, PublishFails, Take,
              Store, Finish, Fail, ConsumerCrash, HandleClearConsumedEvents,
              ClearConsumedMessages
<1> QED BY <1>1, <1>2, <1>3, <1>4, <1>5

LEMMA UpIsBoundInit == Init => UpIsBound
<1> SUFFICES ASSUME Init, NEW s \in Service PROVE service[s] # "up"
  BY DEF UpIsBound
<1> QED BY DEF Init

LEMMA UpIsBoundNext == TypeOK /\ UpIsBound /\ [Next]_vars => UpIsBound'
<1> SUFFICES ASSUME TypeOK, UpIsBound, [Next]_vars, NEW s \in Service,
                    service'[s] = "up", s \notin shaken'
             PROVE  exchange' /\ queue' /\ bound'
  BY DEF UpIsBound
<1>1. CASE service[s] = "up" /\ (s \in shaken => s \in shaken')
  <2>1. exchange /\ queue /\ bound
    BY <1>1 DEF UpIsBound
  <2>2. ~ Shake
    BY <1>1 DEF Shake
  <2> QED BY <2>1, <2>2, DeclarationsStay
<1> QED BY <1>1, ComesUp

LEMMA BoundAlways == Spec => [](TypeOK /\ UpIsBound)
BY TypeInit, TypeNext, UpIsBoundInit, UpIsBoundNext, PTL DEF Spec

\* However the services' constructors and destructors are interleaved and
\* wherever they fail, a service whose constructor has returned reaches the queue
\* until somebody removes it.
THEOREM UpIsBoundAlways == Spec => []UpIsBound
BY BoundAlways, PTL

---------------------------------------------------------------------------
\* What the broker and the consumer have.

Accounted(e) == e \in InBroker \cup processed

\* A step that leaves the broker and the consumer alone.
LEMMA SameDelivery ==
  ASSUME UNCHANGED delivery, NEW e, Accounted(e)
  PROVE  Accounted(e)'
BY DEF Accounted, InBroker, Busy

\* Nothing leaves the broker and the consumer but by being processed, or with its
\* queue, and then it is exposed.
LEMMA StaysAccounted ==
  ASSUME TypeOK, [Next]_vars, NEW e \in Event, Accounted(e), e \notin exposed'
  PROVE  Accounted(e)'
<1>1. ASSUME NEW f \in Event, HandlePublishTestEvent(f)
      PROVE  Accounted(e)'
  <2>1. UNCHANGED <<held, stage, orphan, processed>> /\ ready \subseteq ready'
    BY <1>1 DEF HandlePublishTestEvent, Publish, PublishFails, Route
  <2> QED BY <2>1 DEF Accounted, InBroker, Busy
<1>2. ASSUME NEW c \in Consumer, NEW f \in Event, Take(c, f)
      PROVE  Accounted(e)'
  <2>1. /\ held' = [held EXCEPT ![c] = f] /\ stage' = [stage EXCEPT ![c] = "taken"]
        /\ ready' = ready \ {f} /\ UNCHANGED <<orphan, processed>> /\ c \notin Busy
    BY <1>2 DEF Take, Busy
  <2>2. \A d \in Busy \ orphan : d \in (Busy \ orphan)' /\ held'[d] = held[d]
    BY <2>1 DEF Busy, TypeOK
  <2>3. c \in (Busy \ orphan)' /\ held'[c] = f
    BY <2>1 DEF Busy, TypeOK
  <2> QED BY <2>1, <2>2, <2>3 DEF Accounted, InBroker
<1>3. ASSUME NEW c \in Consumer, Store(c) PROVE Accounted(e)'
  <2>1. UNCHANGED <<ready, held, orphan, processed>> /\ Busy' = Busy
    BY <1>3 DEF Store, Busy, TypeOK
  <2> QED BY <2>1 DEF Accounted, InBroker
<1>4. ASSUME NEW c \in Consumer, Finish(c) \/ Fail(c)
      PROVE  Accounted(e)'
  <2>1. /\ ready \cup processed \subseteq ready' \cup processed'
        /\ c \notin orphan => held[c] \in ready' \cup processed'
    BY <1>4 DEF Finish, Fail, Requeue
  <2>2. \A d \in Busy \ orphan :
          d # c => d \in (Busy \ orphan)' /\ held'[d] = held[d]
    BY <1>4 DEF Finish, Fail, LetGo, Busy, TypeOK
  <2> QED BY <2>1, <2>2 DEF Accounted, InBroker
<1>5. CASE ConsumerCrash
  <2>1. ready' = ready \cup {held[c] : c \in Busy \ orphan} /\ UNCHANGED processed
    BY <1>5 DEF ConsumerCrash, Requeue
  <2> QED BY <2>1 DEF Accounted, InBroker
<1>6. ASSUME DropQueue, UNCHANGED processed PROVE Accounted(e)'
  BY <1>6 DEF DropQueue, Accounted
<1>7. ASSUME NEW s \in Service, RemoveQueue(s) PROVE Accounted(e)'
  BY <1>6, <1>7 DEF RemoveQueue
<1>8. ASSUME BrokerRestart PROVE Accounted(e)'
  BY <1>6, <1>8 DEF BrokerRestart
<1>9. CASE HandleClearConsumedEvents
  BY <1>9 DEF HandleClearConsumedEvents, ClearConsumedMessages, Accounted, InBroker, Busy
<1>10. ASSUME NEW s \in Service,
              \/ StartUp(s) \/ DeclareExchange(s) \/ DeclareQueue(s) \/ BindQueue(s)
              \/ SetUpFails(s) \/ Stop(s) \/ RemoveExchange(s) \/ Vanish(s)
       PROVE  UNCHANGED delivery
  BY <1>10 DEF StartUp, DeclareExchange, DeclareQueue, BindQueue, SetUpFails, Stop,
               RemoveExchange, Vanish
<1>11. CASE UNCHANGED vars
  BY <1>11, SameDelivery DEF vars
<1> QED
  BY <1>1, <1>2, <1>3, <1>4, <1>5, <1>7, <1>8, <1>9, <1>10, <1>11, SameDelivery DEF Next

\* An event once exposed stays so.
LEMMA ExposedStays == [Next]_vars => exposed \subseteq exposed'
<1> SUFFICES ASSUME [Next]_vars PROVE exposed \subseteq exposed'
  OBVIOUS
<1>1. ASSUME NEW s \in Service,
             \/ StartUp(s) \/ DeclareExchange(s) \/ DeclareQueue(s) \/ BindQueue(s)
             \/ SetUpFails(s) \/ Stop(s) \/ RemoveQueue(s) \/ RemoveExchange(s)
             \/ Vanish(s)
      PROVE  exposed \subseteq exposed'
  BY <1>1 DEF StartUp, DeclareExchange, DeclareQueue, BindQueue, SetUpFails, Stop,
              RemoveQueue, RemoveExchange, Vanish, DropQueue, history
<1>2. ASSUME NEW e \in Event, HandlePublishTestEvent(e) PROVE exposed \subseteq exposed'
  BY <1>2 DEF HandlePublishTestEvent, Publish, PublishFails, history
<1>3. ASSUME NEW c \in Consumer,
             \/ \E e \in Event : Take(c, e)
             \/ Store(c) \/ Finish(c) \/ Fail(c)
      PROVE  exposed \subseteq exposed'
  BY <1>3 DEF Take, Store, Finish, Fail, history
<1>4. CASE BrokerRestart \/ ConsumerCrash \/ HandleClearConsumedEvents \/ UNCHANGED vars
  BY <1>4 DEF BrokerRestart, DropQueue, ConsumerCrash, HandleClearConsumedEvents,
              ClearConsumedMessages, vars, history
<1> QED BY <1>1, <1>2, <1>3, <1>4 DEF Next

LEMMA LostInit == Init => NothingElseLost
<1> SUFFICES ASSUME Init, NEW e \in Event PROVE outcome[e] # "confirmed"
  BY DEF NothingElseLost
<1> QED BY DEF Init

LEMMA LostNext == TypeOK /\ UpIsBound /\ NothingElseLost /\ [Next]_vars => NothingElseLost'
<1> SUFFICES ASSUME TypeOK, UpIsBound, NothingElseLost, [Next]_vars, NEW e \in Event,
                    outcome'[e] = "confirmed", e \notin exposed'
             PROVE  Accounted(e)'
  BY DEF NothingElseLost, Accounted
<1>1. CASE outcome[e] = "confirmed"
  BY <1>1, StaysAccounted, ExposedStays DEF NothingElseLost, Accounted
<1>2. CASE Publish(e)
  <2>1. bound
    BY <1>2, PipelineAssumption DEF Publish, Publishing, UpIsBound
  <2> QED BY <1>2, <2>1 DEF Publish, Route, Accounted, InBroker
<1>3. outcome[e] = "confirmed" \/ Publish(e)
  <2>1. ASSUME NEW f \in Event, HandlePublishTestEvent(f), outcome[e] # "confirmed"
        PROVE  Publish(e)
    BY <2>1 DEF HandlePublishTestEvent, Publish, PublishFails, TypeOK
  <2>2. ASSUME ~ \E f \in Event : HandlePublishTestEvent(f) PROVE UNCHANGED outcome
    BY <2>2 DEF Next, vars, StartUp, DeclareExchange, DeclareQueue, BindQueue,
                SetUpFails, Stop, RemoveQueue, RemoveExchange, Vanish, BrokerRestart,
                Take, Store, Finish, Fail, ConsumerCrash, HandleClearConsumedEvents,
                ClearConsumedMessages
  <2> QED BY <2>1, <2>2
<1> QED BY <1>1, <1>2, <1>3

\* An event whose publisher was told of its confirmation is in the queue, with a
\* consumer or processed, through every crash and failure of the consumer and
\* every start and stop of the services, unless its queue was removed with it or
\* its service's declarations were removed before it was published.
THEOREM NothingLost == Spec => []NothingElseLost
BY BoundAlways, LostInit, LostNext, PTL DEF Spec
=============================================================================
