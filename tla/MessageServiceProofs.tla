------------------------ MODULE MessageServiceProofs ------------------------
(* Proofs about MessageService, for any requests, users and folders.        *)
EXTENDS MessageService, TLAPS

\* What a request does next, as in Next.
StepOf(r) ==
  \/ \E op \in {"create", "list"}, u \in User, f \in Folder : BeginInFolder(r, op, u, f)
  \/ Authorise(r) \/ Deny(r)
  \/ FindSender(r) \/ Insert(r) \/ InsertUnacknowledged(r) \/ Reread(r)
  \/ CreateFails(r) \/ Publish(r) \/ PublishFails(r)
  \/ \E failed \in BOOLEAN : List(r, failed)
  \/ \E u \in User, m \in Id : BeginGet(r, u, m)
  \/ Get(r) \/ NotFound(r) \/ GetAgain(r) \/ Show(r) \/ DenyMessage(r)

LEMMA NextSteps ==
  [Next]_vars =>
    \/ \E u \in User : Register(u)
    \/ \E f \in Folder : AddFolder(f)
    \/ \E r \in Request : StepOf(r)
    \/ Restart
    \/ UNCHANGED vars
BY DEF Next, StepOf

---------------------------------------------------------------------------
\* Types.

\* What the place of a request says about its task.
Placed(r) ==
  /\ pc[r] = "authorise" => task[r].op \in {"create", "list"}
  /\ pc[r] \in {"sender", "insert", "reread", "publish"} => task[r].op = "create"
  /\ pc[r] = "list" => task[r].op = "list"
  /\ pc[r] \in {"get", "message", "folder"} => task[r].op = "get"

TypeInv == TypeOK /\ \A r \in Request : Placed(r)

LEMMA TypeInit == Init => TypeInv
<1> SUFFICES ASSUME Init PROVE TypeInv
  OBVIOUS
<1>1. /\ users \subseteq User /\ folders \subseteq Folder
      /\ messages \subseteq Message /\ events \subseteq Message
  <2>1. \A m \in Seed : m.folder \in Folder /\ m.sender \in User /\ Owner[m.folder] \in User
    BY MessageAssumption DEF Message
  <2> QED BY <2>1, MessageAssumption DEF Init
<1>2. /\ pc \in [Request -> {"new", "authorise", "sender", "insert", "reread", "publish",
                             "list", "get", "message", "folder", "done"}]
      /\ task \in [Request -> Task \cup {None}]
      /\ held \in [Request -> SUBSET Message]
      /\ answer \in [Request -> {0, 200, 201, 403, 404, 500}]
      /\ known \in [Request -> SUBSET Request]
  BY DEF Init
<1>3. \A r \in Request : Placed(r)
  BY DEF Init, Placed
<1> QED BY <1>1, <1>2, <1>3 DEF TypeInv, TypeOK

\* The task of a create or list, and of a get.
LEMMA TaskFields ==
  ASSUME TypeOK, NEW r \in Request
  PROVE  /\ task[r].op \in {"create", "list"} =>
              task[r].user \in User /\ task[r].folder \in Folder
         /\ task[r].op = "get" => task[r].user \in User /\ task[r].message \in Id
BY DEF TypeOK, Task, None

LEMMA TypeStep ==
  ASSUME TypeInv, NEW r \in Request, StepOf(r)
  PROVE  TypeInv'
<1>1. ASSUME NEW what \in Task, NEW to \in {"authorise", "get"}, Begin(r, what, to),
             to = "authorise" => what.op \in {"create", "list"},
             to = "get" => what.op = "get"
      PROVE  TypeInv'
  BY <1>1 DEF Begin, TypeInv, TypeOK, Placed
<1>2. ASSUME NEW op \in {"create", "list"}, NEW u \in User, NEW f \in Folder,
             BeginInFolder(r, op, u, f)
      PROVE  TypeInv'
  <2>1. [op |-> op, user |-> u, folder |-> f] \in Task
    BY DEF Task
  <2> QED BY <1>1, <1>2, <2>1 DEF BeginInFolder
<1>3. ASSUME NEW u \in User, NEW m \in Id, BeginGet(r, u, m) PROVE TypeInv'
  <2>1. [op |-> "get", user |-> u, message |-> m] \in Task
    BY DEF Task
  <2> QED BY <1>1, <1>3, <2>1 DEF BeginGet
<1>4. ASSUME Authorise(r) \/ FindSender(r) \/ Reread(r) \/ GetAgain(r) PROVE TypeInv'
  BY <1>4 DEF Authorise, FindSender, Reread, GetAgain, Proceed, Data, TypeInv, TypeOK, Placed
<1>5. ASSUME Deny(r) \/ CreateFails(r) \/ NotFound(r) \/ Show(r) \/ DenyMessage(r)
      PROVE  TypeInv'
  BY <1>5 DEF Deny, CreateFails, NotFound, Show, DenyMessage, Answer, Data, TypeInv,
              TypeOK, Placed
<1>6. ASSUME Insert(r) \/ InsertUnacknowledged(r) PROVE TypeInv'
  <2>1. [id |-> r, folder |-> task[r].folder, sender |-> task[r].user] \in Message
    BY <1>6, TaskFields
       DEF Insert, InsertUnacknowledged, Proceed, Answer, TypeInv, Placed, Message, Id
  <2> QED
    BY <1>6, <2>1 DEF Insert, InsertUnacknowledged, Store, Proceed, Answer, TypeInv, TypeOK, Placed
<1>7. ASSUME Publish(r) \/ PublishFails(r) PROVE TypeInv'
  <2>1. events' \subseteq Message
    BY <1>7 DEF Publish, PublishFails, Own, TypeInv, TypeOK
  <2> QED BY <1>7, <2>1 DEF Publish, PublishFails, Answer, TypeInv, TypeOK, Placed
<1>8. ASSUME NEW failed \in BOOLEAN, List(r, failed) PROVE TypeInv'
  BY <1>8 DEF List, Answer, Data, TypeInv, TypeOK, Placed
<1>9. ASSUME Get(r) PROVE TypeInv'
  BY <1>9 DEF Get, Wanted, Proceed, Data, TypeInv, TypeOK, Placed
<1> QED BY <1>2, <1>3, <1>4, <1>5, <1>6, <1>7, <1>8, <1>9 DEF StepOf

LEMMA TypeNext == TypeInv /\ [Next]_vars => TypeInv'
<1> SUFFICES ASSUME TypeInv, [Next]_vars PROVE TypeInv'
  OBVIOUS
<1>1. ASSUME NEW u \in User, Register(u) PROVE TypeInv'
  BY <1>1 DEF Register, TypeInv, TypeOK, Placed
<1>2. ASSUME NEW f \in Folder, AddFolder(f) PROVE TypeInv'
  BY <1>2 DEF AddFolder, TypeInv, TypeOK, Placed
<1>3. CASE Restart
  BY <1>3 DEF Restart, Data, TypeInv, TypeOK, Placed
<1>4. CASE UNCHANGED vars
  BY <1>4 DEF vars, TypeInv, TypeOK, Placed
<1> QED BY <1>1, <1>2, <1>3, <1>4, TypeStep, NextSteps

\* Every reachable state is well typed, and a request that is at a step was asked
\* what the step is for.
THEOREM TypeCorrect == Spec => []TypeOK
<1>1. TypeInv => TypeOK
  BY DEF TypeInv
<1> QED BY <1>1, TypeInit, TypeNext, PTL DEF Spec

---------------------------------------------------------------------------
\* What a step leaves alone.

\* Nobody removes anything.
LEMMA DataGrows ==
  [Next]_vars =>
    /\ users \subseteq users' /\ folders \subseteq folders'
    /\ messages \subseteq messages' /\ events \subseteq events'
<1> SUFFICES ASSUME [Next]_vars
             PROVE  /\ users \subseteq users' /\ folders \subseteq folders'
                    /\ messages \subseteq messages' /\ events \subseteq events'
  OBVIOUS
<1> USE DEF Data
<1>1. ASSUME NEW r \in Request, StepOf(r)
      PROVE  /\ users \subseteq users' /\ folders \subseteq folders'
             /\ messages \subseteq messages' /\ events \subseteq events'
  BY <1>1 DEF StepOf, BeginInFolder, BeginGet, Begin, Authorise, Deny, FindSender,
              Insert, InsertUnacknowledged, Store, Reread, CreateFails, Publish,
              PublishFails, List, Get, NotFound, GetAgain, Show, DenyMessage
<1> QED BY <1>1, NextSteps DEF Register, AddFolder, Restart, vars

Untouched(q) ==
  pc'[q] = pc[q] /\ task'[q] = task[q] /\ held'[q] = held[q] /\ answer'[q] = answer[q]

\* A request's step is its own.
LEMMA OthersUntouched ==
  ASSUME TypeOK, NEW r \in Request, StepOf(r), NEW q \in Request, q # r
  PROVE  Untouched(q)
BY DEF StepOf, BeginInFolder, BeginGet, Begin, Authorise, Deny, FindSender,
       Insert, InsertUnacknowledged, Reread, CreateFails, Publish, PublishFails, List,
       Get, NotFound, GetAgain, Show, DenyMessage, Proceed, Answer, Untouched, TypeOK

\* A task, once given, stays, and a request that is past its insert stays so.
LEMMA TaskStays ==
  ASSUME TypeOK, [Next]_vars, NEW r \in Request, pc[r] # "new"
  PROVE  /\ task'[r] = task[r]
         /\ pc[r] \in {"reread", "publish", "done"} =>
              pc'[r] \in {"reread", "publish", "done"}
<1>1. ASSUME StepOf(r)
      PROVE  /\ task'[r] = task[r]
             /\ pc[r] \in {"reread", "publish", "done"} =>
                  pc'[r] \in {"reread", "publish", "done"}
  BY <1>1 DEF StepOf, BeginInFolder, BeginGet, Begin, Authorise, Deny, FindSender,
       Insert, InsertUnacknowledged, Reread, CreateFails, Publish, PublishFails, List,
       Get, NotFound, GetAgain, Show, DenyMessage, Proceed, Answer, TypeOK
<1> QED BY <1>1, OthersUntouched, NextSteps
        DEF Untouched, Register, AddFolder, Restart, InFlight, vars, TypeOK

\* Messages come from an insert only, and the inserter is past it then.
LEMMA MessagesFrom ==
  ASSUME TypeOK, [Next]_vars, NEW m \in messages', m \notin messages
  PROVE  \E r \in Request :
           /\ pc[r] = "insert" /\ pc'[r] \in {"reread", "done"}
           /\ m = [id |-> r, folder |-> task[r].folder, sender |-> task[r].user]
<1>1. ASSUME NEW r \in Request, StepOf(r)
      PROVE  /\ pc[r] = "insert" /\ pc'[r] \in {"reread", "done"}
             /\ m = [id |-> r, folder |-> task[r].folder, sender |-> task[r].user]
  <2>1. Insert(r) \/ InsertUnacknowledged(r)
    BY <1>1 DEF StepOf, BeginInFolder, BeginGet, Begin, Authorise, Deny, FindSender,
                Reread, CreateFails, Publish, PublishFails, List, Get, NotFound, GetAgain,
                Show, DenyMessage, Data
  <2> QED
    BY <2>1 DEF Insert, InsertUnacknowledged, Store, Proceed, Answer, TypeOK
<1> QED BY <1>1, NextSteps DEF Register, AddFolder, Restart, Data, vars

---------------------------------------------------------------------------
\* The invariant: what a request has found out stays true, for nobody removes
\* anything, so that what a later query adds can be put beside it.

\* A message is what its request asked for, and was authorised and looked up then,
\* or it was there from the start.
Sent(m) ==
  /\ m.folder \in folders /\ m.sender \in users
  /\ m.id \in Request =>
       /\ pc[m.id] \in {"reread", "publish", "done"}
       /\ m.folder = task[m.id].folder /\ m.sender = task[m.id].user
       /\ FolderBelongsToUser(m.folder, m.sender)
  /\ m.id \notin Request => m \in Seed

\* What the place of a request says about the collections.
Checked(r) ==
  /\ pc[r] \in {"sender", "insert", "reread", "publish", "list"} =>
       FolderBelongsToUser(task[r].folder, task[r].user)
  /\ pc[r] \in {"insert", "reread", "publish"} => task[r].user \in users
  /\ pc[r] = "publish" => Own(r) # {}
  /\ pc[r] \in {"message", "folder"} => held[r] \subseteq Wanted(r)

\* What its answer says.
Answered(r) ==
  /\ answer[r] # 0 => pc[r] = "done"
  /\ answer[r] = 200 => \A m \in held[r] : FolderBelongsToUser(m.folder, task[r].user)
  /\ answer[r] = 201 => Own(r) # {} /\ Own(r) \subseteq events

IInv ==
  /\ TypeInv
  /\ \A m \in messages : Sent(m)
  /\ \A r \in Request : Checked(r) /\ Answered(r)

\* A request has one message at most.
LEMMA OneMessage ==
  ASSUME IInv, NEW m \in messages, NEW n \in messages, m.id = n.id
  PROVE  m = n
<1>1. m \in Message /\ n \in Message
  BY DEF IInv, TypeInv, TypeOK
<1>2. CASE m.id \in Request
  <2>1. m.folder = n.folder /\ m.sender = n.sender
    BY <1>2 DEF IInv, Sent
  <2> QED BY <1>1, <2>1 DEF Message
<1>3. CASE m.id \notin Request
  BY <1>3, MessageAssumption DEF IInv, Sent
<1> QED BY <1>2, <1>3

LEMMA SentNext == IInv /\ [Next]_vars => (\A m \in messages : Sent(m))'
<1> SUFFICES ASSUME IInv, [Next]_vars, NEW m \in messages' PROVE Sent(m)'
  OBVIOUS
<1>1. users \subseteq users' /\ folders \subseteq folders'
  BY DataGrows
<1>2. TypeOK
  BY DEF IInv, TypeInv
<1>3. CASE m \in messages
  <2>1. Sent(m)
    BY <1>3 DEF IInv
  <2>2. m.id \in Request =>
          task'[m.id] = task[m.id] /\ pc'[m.id] \in {"reread", "publish", "done"}
    BY <1>2, <2>1, TaskStays DEF Sent
  <2> QED BY <1>1, <2>1, <2>2 DEF Sent, FolderBelongsToUser
<1>4. CASE m \notin messages
  <2>1. PICK r \in Request :
          /\ pc[r] = "insert" /\ pc'[r] \in {"reread", "done"}
          /\ m = [id |-> r, folder |-> task[r].folder, sender |-> task[r].user]
    BY <1>2, <1>4, MessagesFrom
  <2>2. FolderBelongsToUser(task[r].folder, task[r].user) /\ task[r].user \in users
    BY <2>1 DEF IInv, Checked
  <2>3. task'[r] = task[r]
    BY <1>2, <2>1, TaskStays
  <2> QED BY <1>1, <2>1, <2>2, <2>3 DEF Sent, FolderBelongsToUser
<1> QED BY <1>3, <1>4

\* What is true of a request stays true while others act.
LEMMA UntouchedKeeps ==
  ASSUME IInv, [Next]_vars, NEW q \in Request, Untouched(q)
  PROVE  Checked(q)' /\ Answered(q)'
<1>1. /\ users \subseteq users' /\ folders \subseteq folders'
      /\ messages \subseteq messages' /\ events \subseteq events'
  BY DataGrows
<1>2. Checked(q) /\ Answered(q)
  BY DEF IInv
<1>3. answer[q] = 201 => Own(q)' = Own(q)
  <2>1. SUFFICES ASSUME answer[q] = 201, NEW m \in messages', m \notin messages, m.id = q
                 PROVE  FALSE
    BY <1>1 DEF Own
  <2>2. pc[q] = "done"
    BY <1>2, <2>1 DEF Answered
  <2> QED BY <2>1, <2>2, MessagesFrom DEF IInv, TypeInv
<1>4. Own(q) \subseteq Own(q)' /\ Wanted(q) \subseteq Wanted(q)'
  BY <1>1 DEF Own, Wanted, Untouched
<1>5. Checked(q)'
  BY <1>1, <1>2, <1>4 DEF Checked, Untouched, FolderBelongsToUser
<1>6. Answered(q)'
  BY <1>1, <1>2, <1>3 DEF Answered, Untouched, FolderBelongsToUser
<1> QED BY <1>5, <1>6

\* What a request learns by its own step is added to what it knew.
LEMMA StepKeeps ==
  ASSUME IInv, [Next]_vars, NEW r \in Request, StepOf(r)
  PROVE  Checked(r)' /\ Answered(r)'
<1> USE DEF Data
<1>1. TypeOK /\ Checked(r) /\ Answered(r) /\ Placed(r)
  BY DEF IInv, TypeInv
<1>2. CASE \/ \E op \in {"create", "list"}, u \in User, f \in Folder : BeginInFolder(r, op, u, f)
           \/ \E u \in User, m \in Id : BeginGet(r, u, m)
  <2>1. /\ pc[r] = "new" /\ pc'[r] \in {"authorise", "get"}
        /\ answer' = answer
    BY <1>1, <1>2 DEF BeginInFolder, BeginGet, Begin, TypeOK
  <2> QED BY <1>1, <2>1 DEF Checked, Answered
<1>3. CASE Authorise(r)
  BY <1>1, <1>3 DEF Authorise, Proceed, TypeOK, Placed, Checked, Answered, FolderBelongsToUser
<1>4. CASE FindSender(r)
  BY <1>1, <1>4 DEF FindSender, Proceed, TypeOK, Checked, Answered, FolderBelongsToUser
<1>5. CASE Insert(r)
  BY <1>1, <1>5 DEF Insert, Proceed, TypeOK, Checked, Answered, FolderBelongsToUser
<1>6. CASE Reread(r)
  BY <1>1, <1>6 DEF Reread, Proceed, Own, TypeOK, Checked, Answered, FolderBelongsToUser
<1>7. CASE \/ Deny(r) \/ InsertUnacknowledged(r) \/ CreateFails(r) \/ PublishFails(r)
           \/ NotFound(r) \/ DenyMessage(r)
  <2>1. pc'[r] = "done" /\ answer'[r] \in {403, 404, 500}
    BY <1>1, <1>7 DEF Deny, InsertUnacknowledged, CreateFails, PublishFails, NotFound,
                      DenyMessage, Answer, TypeOK
  <2> QED BY <2>1 DEF Checked, Answered
<1>8. CASE Publish(r)
  <2>1. pc'[r] = "done" /\ answer'[r] = 201 /\ messages' = messages
        /\ events' = events \cup Own(r)
    BY <1>1, <1>8 DEF Publish, Answer, TypeOK
  <2>2. Own(r) # {}
    BY <1>1, <1>8 DEF Publish, Answer, Checked
  <2> QED BY <2>1, <2>2 DEF Checked, Answered, Own
<1>9. ASSUME NEW failed \in BOOLEAN, List(r, failed) PROVE Checked(r)' /\ Answered(r)'
  <2>1. /\ pc[r] = "list" /\ pc'[r] = "done" /\ answer'[r] = 200
        /\ task' = task /\ folders' = folders
        /\ \A m \in held'[r] : m.folder = task[r].folder
    BY <1>1, <1>9 DEF List, Answer, TypeOK
  <2> QED BY <1>1, <2>1 DEF Checked, Answered, FolderBelongsToUser
<1>10. CASE Get(r)
  BY <1>1, <1>10 DEF Get, Proceed, Wanted, TypeOK, Checked, Answered
<1>11. CASE GetAgain(r)
  BY <1>1, <1>11 DEF GetAgain, Proceed, Wanted, TypeOK, Checked, Answered
<1>12. CASE Show(r)
  <2>1. /\ pc[r] = "folder" /\ pc'[r] = "done" /\ answer'[r] = 200
        /\ task' = task /\ folders' = folders /\ held' = held
    BY <1>1, <1>12 DEF Show, Answer, TypeOK
  <2>2. PICK m \in Wanted(r) : FolderBelongsToUser(m.folder, task[r].user)
    BY <1>12 DEF Show
  <2>3. \A n \in held[r] : n = m
    BY <1>1, <2>1, OneMessage DEF Checked, Wanted
  <2> QED BY <2>1, <2>2, <2>3 DEF Checked, Answered, FolderBelongsToUser
<1> QED
  BY <1>2, <1>3, <1>4, <1>5, <1>6, <1>7, <1>8, <1>9, <1>10, <1>11, <1>12 DEF StepOf

LEMMA IInit == Init => IInv
<1> SUFFICES ASSUME Init PROVE IInv
  OBVIOUS
<1>1. \A r \in Request : Checked(r) /\ Answered(r)
  BY DEF Init, Checked, Answered
<1>2. \A m \in messages : Sent(m)
  BY MessageAssumption DEF Init, Sent
<1> QED BY <1>1, <1>2, TypeInit DEF IInv

LEMMA INext == IInv /\ [Next]_vars => IInv'
<1> SUFFICES ASSUME IInv, [Next]_vars PROVE IInv'
  OBVIOUS
<1>1. TypeInv' /\ (\A m \in messages : Sent(m))'
  BY TypeNext, SentNext DEF IInv
<1>2. ASSUME NEW q \in Request PROVE Checked(q)' /\ Answered(q)'
  <2>1. ASSUME NEW r \in Request, StepOf(r) PROVE Checked(q)' /\ Answered(q)'
    <3>1. CASE q = r
      BY <2>1, <3>1, StepKeeps
    <3>2. CASE q # r
      BY <2>1, <3>2, OthersUntouched, UntouchedKeeps DEF IInv, TypeInv
    <3> QED BY <3>1, <3>2
  <2>2. CASE \/ \E u \in User : Register(u)
             \/ \E f \in Folder : AddFolder(f)
             \/ UNCHANGED vars
    <3>1. Untouched(q)
      BY <2>2 DEF Register, AddFolder, vars, Untouched
    <3> QED BY <3>1, UntouchedKeeps
  <2>3. CASE Restart
    <3>1. CASE q \in InFlight
      <4>1. pc'[q] = "done" /\ answer'[q] = 0
        BY <2>3, <3>1 DEF Restart, InFlight, IInv, Answered
      <4> QED BY <4>1 DEF Checked, Answered
    <3>2. CASE q \notin InFlight
      BY <2>3, <3>2, UntouchedKeeps DEF Restart, Untouched
    <3> QED BY <3>1, <3>2
  <2> QED BY <2>1, <2>2, <2>3, NextSteps
<1> QED BY <1>1, <1>2 DEF IInv

LEMMA Invariance == Spec => []IInv
BY IInit, INext, PTL DEF Spec

\* Whatever is written or fails between a handler's queries: nobody is shown a
\* message of another's folder, or puts one there beside those of the seed data, and
\* every message's folder and sender are stored.
THEOREM OwnMessages == Spec => []OwnMessagesOnly
<1>1. IInv => OwnMessagesOnly
  BY DEF IInv, Sent, Answered, FolderBelongsToUser, OwnMessagesOnly
<1> QED BY <1>1, Invariance, PTL

\* A 201 from CreateMessage is the end of it: the message is stored, once, in the
\* folder that was named, and its event is at the broker.
THEOREM CreatedDurable == Spec => []CreatedIsDurable
<1>1. ASSUME IInv, NEW r \in Request, answer[r] = 201
      PROVE  \E m \in messages \cap events : Own(r) = {m} /\ m.folder = task[r].folder
  <2>1. Own(r) # {} /\ Own(r) \subseteq events
    BY <1>1 DEF IInv, Answered
  <2>2. PICK m \in messages : m.id = r /\ m \in events
    BY <2>1 DEF Own
  <2>3. Own(r) = {m}
    BY <1>1, <2>2, OneMessage DEF Own
  <2>4. m.folder = task[r].folder
    BY <1>1, <2>2 DEF IInv, Sent
  <2> QED BY <2>2, <2>3, <2>4
<1>2. IInv => CreatedIsDurable
  BY <1>1 DEF CreatedIsDurable
<1> QED BY <1>2, Invariance, PTL

---------------------------------------------------------------------------
\* Lists.

\* What a request remembers as answered was answered.
Recalled(r) == \A c \in known[r] : answer[c] = 201

\* WholeListOrNone, of one request.
Whole(r) ==
  answer[r] = 200 /\ task[r].op = "list" /\ held[r] # {} =>
    \A c \in known[r] : task[c].folder = task[r].folder => Own(c) \subseteq held[r]

ListInv == IInv /\ \A r \in Request : Recalled(r) /\ Whole(r)

\* Nothing changes of a request that is done.
LEMMA DoneStays ==
  ASSUME IInv, [Next]_vars, NEW r \in Request, pc[r] = "done"
  PROVE  Untouched(r) /\ known'[r] = known[r] /\ Own(r)' = Own(r)
<1>1. TypeOK
  BY DEF IInv, TypeInv
<1>2. ASSUME StepOf(r) PROVE FALSE
  BY <1>2 DEF StepOf, BeginInFolder, BeginGet, Begin, Authorise, Deny, FindSender,
              Insert, InsertUnacknowledged, Reread, CreateFails, Publish, PublishFails,
              List, Get, NotFound, GetAgain, Show, DenyMessage, Proceed, Answer
<1>3. ASSUME NEW q \in Request, StepOf(q), q # r PROVE known'[r] = known[r]
  BY <1>1, <1>3
     DEF StepOf, BeginInFolder, BeginGet, Begin, Authorise, Deny, FindSender, Insert,
         InsertUnacknowledged, Reread, CreateFails, Publish, PublishFails, List, Get,
         NotFound, GetAgain, Show, DenyMessage, Proceed, Answer, TypeOK
<1>4. Untouched(r) /\ known'[r] = known[r]
  BY <1>1, <1>2, <1>3, OthersUntouched, NextSteps
     DEF Untouched, Register, AddFolder, Restart, InFlight, vars, TypeOK
<1>5. messages \subseteq messages'
  BY DataGrows
<1>6. ASSUME NEW m \in messages', m \notin messages, m.id = r PROVE FALSE
  BY <1>1, <1>6, MessagesFrom
<1> QED BY <1>4, <1>5, <1>6 DEF Own

\* A 200 is what List or Show has just answered.
LEMMA JustShown ==
  ASSUME TypeOK, [Next]_vars, NEW r \in Request, answer[r] # 200, answer'[r] = 200
  PROVE  Show(r) \/ \E failed \in BOOLEAN : List(r, failed)
<1>1. CASE StepOf(r)
  BY <1>1 DEF StepOf, BeginInFolder, BeginGet, Begin, Authorise, Deny, FindSender, Insert,
              InsertUnacknowledged, Reread, CreateFails, Publish, PublishFails, Get,
              NotFound, GetAgain, DenyMessage, Proceed, Answer, TypeOK
<1>2. ~ StepOf(r) => answer'[r] = answer[r]
  BY OthersUntouched, NextSteps DEF Untouched, Register, AddFolder, Restart, vars
<1> QED BY <1>1, <1>2

LEMMA RecalledNext ==
  ASSUME ListInv, [Next]_vars, NEW r \in Request
  PROVE  Recalled(r)'
<1>1. TypeOK
  BY DEF ListInv, IInv, TypeInv
<1>2. \/ known'[r] = known[r]
      \/ known'[r] = {c \in Request : answer[c] = 201}
  BY <1>1, NextSteps
     DEF StepOf, BeginInFolder, BeginGet, Begin, Authorise, Deny, FindSender, Insert,
         InsertUnacknowledged, Reread, CreateFails, Publish, PublishFails, List, Get,
         NotFound, GetAgain, Show, DenyMessage, Proceed, Answer, Register, AddFolder,
         Restart, vars, TypeOK
<1>3. \A c \in known'[r] : c \in Request /\ answer[c] = 201
  BY <1>1, <1>2 DEF ListInv, Recalled, TypeOK
<1>4. ASSUME NEW c \in Request, answer[c] = 201 PROVE answer'[c] = 201
  BY <1>4, DoneStays DEF ListInv, IInv, Answered, Untouched
<1> QED BY <1>3, <1>4 DEF Recalled

LEMMA WholeNext ==
  ASSUME ListInv, [Next]_vars, NEW r \in Request
  PROVE  Whole(r)'
<1>1. IInv /\ TypeOK /\ Placed(r) /\ Recalled(r) /\ Whole(r)
  BY DEF ListInv, IInv, TypeInv
<1>2. ASSUME NEW c \in known[r]
      PROVE  c \in Request /\ task'[c] = task[c] /\ Own(c)' = Own(c)
  <2>1. c \in Request /\ answer[c] = 201
    BY <1>1 DEF Recalled, TypeOK
  <2>2. pc[c] = "done"
    BY <1>1, <2>1 DEF IInv, Answered
  <2> QED BY <1>1, <2>1, <2>2, DoneStays DEF Untouched
<1>3. CASE answer[r] = 200
  <2>1. Untouched(r) /\ known'[r] = known[r]
    BY <1>1, <1>3, DoneStays DEF IInv, Answered
  <2> QED BY <1>1, <1>2, <2>1 DEF Whole, Untouched
<1>4. CASE answer[r] # 200 /\ answer'[r] = 200
  <2>1. CASE Show(r)
    BY <1>1, <2>1 DEF Show, Answer, Placed, Whole
  <2>2. ASSUME NEW failed \in BOOLEAN, List(r, failed) PROVE Whole(r)'
    <3>1. /\ held'[r] = {m \in messages : ~ failed /\ m.folder = task[r].folder}
          /\ known'[r] = known[r] /\ task' = task /\ messages' = messages
      BY <1>1, <2>2 DEF List, Answer, Data, TypeOK
    <3>2. ASSUME NEW c \in known[r], task[c].folder = task[r].folder, NEW m \in Own(c)
          PROVE  m \in messages /\ m.folder = task[r].folder
      <4>1. c \in Request
        BY <1>2
      <4>2. m \in messages /\ m.id = c /\ Sent(m)
        BY <1>1 DEF Own, IInv
      <4> QED BY <3>2, <4>1, <4>2 DEF Sent
    <3> QED BY <3>1, <3>2 DEF Whole, Own
  <2> QED BY <1>1, <1>4, <2>1, <2>2, JustShown
<1> QED BY <1>3, <1>4 DEF Whole

LEMMA ListInit == Init => ListInv
<1> SUFFICES ASSUME Init PROVE ListInv
  OBVIOUS
<1>1. \A r \in Request : Recalled(r) /\ Whole(r)
  BY DEF Init, Recalled, Whole
<1> QED BY <1>1, IInit DEF ListInv

LEMMA ListNext == ListInv /\ [Next]_vars => ListInv'
BY INext, RecalledNext, WholeNext DEF ListInv

\* A list that is not empty has every message of its folder whose 201 came before
\* the list was asked for.
THEOREM WholeList == Spec => []WholeListOrNone
<1>1. ListInv => WholeListOrNone
  BY DEF ListInv, Whole, WholeListOrNone
<1> QED BY <1>1, ListInit, ListNext, PTL DEF Spec
=============================================================================
