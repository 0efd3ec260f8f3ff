----------------------------- MODULE ReadModel -----------------------------
(***************************************************************************)
(* The read side: ReadModelSynchronizer (read_model_synchronizer.hpp)      *)
(* takes events from the queue and overwrites the entry of their entity in *)
(* ReadModelCache (read_model_cache.hpp): three maps in memory, each with  *)
(* its own mutex, that ReadModelHandler answers from.  README.md says they *)
(* are implemented and registered in no service yet; so the events of the  *)
(* producer's whole interface are considered, not only the three that the  *)
(* handlers of today publish.                                              *)
(*                                                                         *)
(* An operation on one map is one step, taken when the mutex is free; one  *)
(* that only looks is no step at all but what the map answers then.        *)
(* GetCacheStats holds all three, ClearAll one after the other.  The order *)
(* in which several deliveries are processed is nobody's, and a delivery   *)
(* whose connection is lost comes back while its coroutine runs on.        *)
(*                                                                         *)
(* Bound: MaxLosses caps lost connections and restarts.                    *)
(***************************************************************************)
EXTENDS Integers, FiniteSets

CONSTANTS
  Entity,      \* users, folders and messages
  MapOf,       \* the map an entity belongs to
  Last,        \* how many events are published about an entity
  Consumer,    \* the deliveries that can be in progress at once
  Reader,      \* requests for the statistics
  Nobody, NoEvent,
  MaxLosses

\* The maps, in the order GetCacheStats and ClearAll lock them.
Order == <<"users", "folders", "messages">>
Map == {Order[i] : i \in 1..3}

ASSUME ReadModelAssumption ==
  /\ IsFiniteSet(Entity) /\ MapOf \in [Entity -> Map]
  /\ Last \in [Entity -> Nat \ {0}]
  /\ Nobody \notin Reader
  /\ MaxLosses \in Nat

\* Event <<e, n>> is the n-th about e; the first is its creation.
Event == UNION {{e} \X (1..Last[e]) : e \in Entity}
ASSUME NoEventAssumption == NoEvent \notin Event

VARIABLES
  published,   \* entity -> how many of its events are published
  queue,       \* the events in the queue that nobody holds
  held,        \* consumer -> the event delivered to it
  stage,       \* consumer -> how far Process is
  orphan,      \* the consumers whose delivery has gone back to the queue
  model,       \* entity -> the event its entry is made of, 0 without one
  lock,        \* map -> the reader that holds its mutex
  at,          \* reader -> how far GetCacheStats is, 0 outside of it
  counts,      \* reader -> what it has counted
  clearing,    \* how many maps the ClearAll in progress has cleared
  lost,        \* history: the entities whose entry was removed since an event
               \* about them was last published or applied
  mixed,       \* history: the entities of which an older event was still to be
               \* applied, or came back, when a newer one had been published
  losses

write == <<published, queue, held, stage, orphan>>
read  == <<lock, at, counts>>
history == <<lost, mixed>>
vars  == <<write, model, read, clearing, history, losses>>

TypeOK ==
  /\ published \in [Entity -> Nat] /\ \A e \in Entity : published[e] <= Last[e]
  /\ queue \subseteq Event
  /\ held \in [Consumer -> Event \cup {NoEvent}]
  /\ stage \in [Consumer -> {"idle", "taken", "applied"}]
  /\ orphan \subseteq {c \in Consumer : stage[c] # "idle"}
  /\ model \in [Entity -> Nat] /\ \A e \in Entity : model[e] <= published[e]
  /\ lock \in [Map -> Reader \cup {Nobody}]
  /\ at \in [Reader -> 0..7]
  /\ \A m \in Map : lock[m] # Nobody => at[lock[m]] # 0
  /\ counts \in [Reader -> [Map -> Nat]]
  /\ clearing \in 0..2
  /\ lost \subseteq Entity /\ mixed \subseteq Entity
  /\ losses \in 0..MaxLosses

NoCounts == [m \in Map |-> 0]

Init ==
  /\ published = [e \in Entity |-> 0]
  /\ queue = {}
  /\ held = [c \in Consumer |-> NoEvent]
  /\ stage = [c \in Consumer |-> "idle"]
  /\ orphan = {}
  /\ model = [e \in Entity |-> 0]
  /\ lock = [m \in Map |-> Nobody]
  /\ at = [r \in Reader |-> 0]
  /\ counts = [r \in Reader |-> NoCounts]
  /\ clearing = 0
  /\ lost = {} /\ mixed = {}
  /\ losses = 0

Unlocked(m) == lock[m] = Nobody
Busy == {c \in Consumer : stage[c] # "idle"}

\* The events about e that no coroutine has applied since their delivery.
Pending(e) ==
  {ev \in queue : ev[1] = e}
    \cup {held[c] : c \in {c \in Consumer : stage[c] = "taken" /\ held[c][1] = e}}

---------------------------------------------------------------------------
\* Events, in the order they are published.
Publish(e) ==
  /\ published[e] < Last[e]
  /\ published' = [published EXCEPT ![e] = @ + 1]
  /\ queue' = queue \cup {<<e, published[e] + 1>>}
  /\ lost' = lost \ {e}
  /\ mixed' = IF Pending(e) = {} THEN mixed ELSE mixed \cup {e}
  /\ UNCHANGED <<held, stage, orphan, model, read, clearing, losses>>

\* A delivery to Process.
Take(c, ev) ==
  /\ stage[c] = "idle"
  /\ ev \in queue
  /\ queue' = queue \ {ev}
  /\ held' = [held EXCEPT ![c] = ev]
  /\ stage' = [stage EXCEPT ![c] = "taken"]
  /\ UNCHANGED <<published, orphan, model, read, clearing, history, losses>>

\* Variant: emplace, which leaves an entry that is there as it is.
Apply_Emplace(c) ==
  /\ stage[c] = "taken"
  /\ Unlocked(MapOf[held[c][1]])
  /\ model' = [model EXCEPT ![held[c][1]] = IF @ = 0 THEN held[c][2] ELSE @]
  /\ lost' = lost \ {held[c][1]}
  /\ stage' = [stage EXCEPT ![c] = "applied"]
  /\ UNCHANGED <<published, queue, held, orphan, read, clearing, mixed, losses>>

\* UpdateUserReadModel and its likes: the entry becomes this event's data,
\* whatever it was.
Apply(c) ==
  /\ stage[c] = "taken"
  /\ Unlocked(MapOf[held[c][1]])
  /\ model' = [model EXCEPT ![held[c][1]] = held[c][2]]
  /\ lost' = lost \ {held[c][1]}
  /\ stage' = [stage EXCEPT ![c] = "applied"]
  /\ UNCHANGED <<published, queue, held, orphan, read, clearing, mixed, losses>>

LetGo(c) ==
  /\ held' = [held EXCEPT ![c] = NoEvent]
  /\ stage' = [stage EXCEPT ![c] = "idle"]
  /\ orphan' = orphan \ {c}

\* Process returns and the delivery, unless it has gone back, is acknowledged.
Acknowledge(c) ==
  /\ stage[c] = "applied"
  /\ LetGo(c)
  /\ UNCHANGED <<published, queue, model, read, clearing, history, losses>>

\* Where deliveries go that nobody acknowledges, unless they are there already.
Requeue(cs) ==
  LET back == {held[c] : c \in cs \ orphan} IN
  /\ queue' = queue \cup back
  /\ mixed' = mixed \cup {ev[1] : ev \in {v \in back : v[2] < published[v[1]]}}

\* The event's data cannot be read, or the entry not be made: Process throws
\* before the map has changed.
ApplyFails(c) ==
  /\ stage[c] = "taken"
  /\ Requeue({c})
  /\ LetGo(c)
  /\ UNCHANGED <<published, model, read, clearing, lost, losses>>

Lose ==
  /\ losses < MaxLosses
  /\ losses' = losses + 1

ConnectionLost ==
  /\ Lose
  /\ Requeue(Busy)
  /\ orphan' = Busy
  /\ UNCHANGED <<published, held, stage, model, read, clearing, lost>>

\* The maps are in memory, and what was acknowledged does not come again.
Restart ==
  /\ Lose
  /\ Requeue(Busy)
  /\ held' = [c \in Consumer |-> NoEvent]
  /\ stage' = [c \in Consumer |-> "idle"]
  /\ orphan' = {}
  /\ model' = [e \in Entity |-> 0]
  /\ lock' = [m \in Map |-> Nobody]
  /\ at' = [r \in Reader |-> 0]
  /\ counts' = [r \in Reader |-> NoCounts]
  /\ clearing' = 0
  /\ lost' = lost \cup {e \in Entity : model[e] # 0}
  /\ UNCHANGED published

---------------------------------------------------------------------------
\* GetCacheStats: three locks, three counts, the total, and all is released.

Size(m) == Cardinality({e \in Entity : MapOf[e] = m /\ model[e] # 0})

Ask(r) ==
  /\ at[r] = 0
  /\ at' = [at EXCEPT ![r] = 1]
  /\ UNCHANGED <<write, model, lock, counts, clearing, history, losses>>

\* Variant: the order of the three locks is left to the compiler.
LockNext_AnyOrder(r) ==
  /\ at[r] \in 1..3
  /\ \E m \in Map : Unlocked(m) /\ lock' = [lock EXCEPT ![m] = r]
  /\ at' = [at EXCEPT ![r] = @ + 1]
  /\ UNCHANGED <<write, model, counts, clearing, history, losses>>

\* Variant: each map is let go when the next is locked, as in ClearAll.
LockNext_HandOver(r) ==
  /\ at[r] \in 1..3
  /\ Unlocked(Order[at[r]])
  /\ lock' = [m \in Map |-> IF m = Order[at[r]] THEN r
                            ELSE IF lock[m] = r THEN Nobody ELSE lock[m]]
  /\ at' = [at EXCEPT ![r] = @ + 1]
  /\ UNCHANGED <<write, model, counts, clearing, history, losses>>

LockNext(r) ==
  /\ at[r] \in 1..3
  /\ Unlocked(Order[at[r]])
  /\ lock' = [lock EXCEPT ![Order[at[r]]] = r]
  /\ at' = [at EXCEPT ![r] = @ + 1]
  /\ UNCHANGED <<write, model, counts, clearing, history, losses>>

Count(r) ==
  /\ at[r] \in 4..6
  /\ counts' = [counts EXCEPT ![r][Order[at[r] - 3]] = Size(Order[at[r] - 3])]
  /\ at' = [at EXCEPT ![r] = @ + 1]
  /\ UNCHANGED <<write, model, lock, clearing, history, losses>>

\* Variant: the mutexes are locked by hand, and only the last is unlocked.
Answer_UnlocksOne(r) ==
  /\ at[r] = 7
  /\ lock' = [lock EXCEPT !["messages"] = Nobody]
  /\ at' = [at EXCEPT ![r] = 0]
  /\ counts' = [counts EXCEPT ![r] = NoCounts]
  /\ UNCHANGED <<write, model, clearing, history, losses>>

\* The total, from the sizes once more, and the answer.
Answer(r) ==
  /\ at[r] = 7
  /\ lock' = [m \in Map |-> IF lock[m] = r THEN Nobody ELSE lock[m]]
  /\ at' = [at EXCEPT ![r] = 0]
  /\ counts' = [counts EXCEPT ![r] = NoCounts]
  /\ UNCHANGED <<write, model, clearing, history, losses>>

---------------------------------------------------------------------------
\* The other requests look at one map, once its mutex is free, and change nothing.

\* What Get...ReadModel finds of one entity, and GetAll...ReadModel of all.
ReadModelOf(m, asked) ==
  {<<e, model[e]>> : e \in {f \in asked : MapOf[f] = m /\ model[f] # 0}}

HandleGetAll(m) == ReadModelOf(m, Entity)

\* The entry, or "not found in read model", which is a 200 as well.
HandleGet(m, e) == ReadModelOf(m, {e})

\* GET /v1/read-models/<map> and /v1/read-models/<map>/<id>.
HandleRequest(path) ==
  IF path.all THEN HandleGetAll(path.map) ELSE HandleGet(path.map, path.id)

---------------------------------------------------------------------------
\* Public operations without a caller in the repository: they may happen.

\* One block of ClearAll.
ClearNext ==
  /\ Unlocked(Order[clearing + 1])
  /\ model' = [e \in Entity |-> IF MapOf[e] = Order[clearing + 1] THEN 0 ELSE model[e]]
  /\ lost' = lost \cup {e \in Entity : MapOf[e] = Order[clearing + 1] /\ model[e] # 0}
  /\ clearing' = (clearing + 1) % 3
  /\ UNCHANGED <<write, read, mixed, losses>>

\* InvalidateUserReadModel, InvalidateFolderReadModel, InvalidateMessageReadModel.
InvalidateReadModel(e) ==
  /\ model[e] # 0
  /\ Unlocked(MapOf[e])
  /\ model' = [model EXCEPT ![e] = 0]
  /\ lost' = lost \cup {e}
  /\ UNCHANGED <<write, read, clearing, mixed, losses>>

---------------------------------------------------------------------------
Next ==
  \/ \E e \in Entity : Publish(e) \/ InvalidateReadModel(e)
  \/ \E c \in Consumer :
       \/ \E ev \in Event : Take(c, ev)
       \/ Apply(c) \/ ApplyFails(c) \/ Acknowledge(c)
  \/ \E r \in Reader : Ask(r) \/ LockNext(r) \/ Count(r) \/ Answer(r)
  \/ ClearNext
  \/ ConnectionLost
  \/ Restart

\* A request for the statistics runs on, and a mutex that is free again and
\* again is handed to each of those who wait for it.
Fairness ==
  \A r \in Reader : SF_vars(LockNext(r)) /\ WF_vars(Count(r)) /\ WF_vars(Answer(r))

Spec == Init /\ [][Next]_vars /\ Fairness

---------------------------------------------------------------------------
\* CompleteWhenSettled.  An entity whose events have all been processed, in
\* whatever order and however often they were delivered, is answered, by its id
\* and among all of its map, as one of them left it, unless its entry was removed;
\* and as the latest left it, unless an older one was under way when that was
\* published or came back afterwards.  No id is found in another map.
CompleteWhenSettled ==
  \A e \in Entity : (published[e] > 0 /\ Pending(e) = {} /\ e \notin lost) =>
    \E n \in 1..published[e] :
      /\ e \in mixed \/ n = published[e]
      /\ <<e, n>> \in HandleRequest([map |-> MapOf[e], all |-> TRUE])
      /\ \A m \in Map : HandleRequest([map |-> m, id |-> e, all |-> FALSE])
                         = IF m = MapOf[e] THEN {<<e, n>>} ELSE {}

\* AnswerIsASnapshot.  The three counts of an answer are those of the instant
\* of its total, which so is their sum: however updates, clearings and other
\* readers interleave with the locking and the counting.
AnswerIsASnapshot ==
  [][\A r \in Reader : (at[r] = 7 /\ at'[r] = 0 /\ losses' = losses) =>
       \A m \in Map : counts[r][m] = Size(m)]_vars

\* StatsAnswered.  A request that needs all three mutexes gets its answer, or
\* the service restarts: readers and writers never wait in a circle.
StatsAnswered == \A r \in Reader : at[r] # 0 ~> at[r] = 0
=============================================================================
