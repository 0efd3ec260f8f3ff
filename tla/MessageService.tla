--------------------------- MODULE MessageService ---------------------------
(***************************************************************************)
(* The message service: the handlers that create, list and get messages    *)
(* (src/message/handlers.cpp) over the messages, folders and users         *)
(* collections (src/common/database.cpp).  It has no cache.                 *)
(*                                                                         *)
(* A handler authorises a request with queries of its own before the ones  *)
(* that answer it, and other requests, and the folder and user services,   *)
(* may write in between.  Every query is an action and may fail; a query   *)
(* that throws reads like one that finds nothing.  The token has been      *)
(* checked and requests refused with 400 touch nothing of this.            *)
(*                                                                         *)
(* Bounds: Request is how many calls there are.                            *)
(***************************************************************************)
EXTENDS Integers, FiniteSets

CONSTANTS
  Request,         \* the calls
  User, Folder,    \* ids, whether or not in the database yet
  Owner,           \* the user a folder is created for
  Seed             \* the messages the database starts with, also from others than
                   \* the owner of their folder

Id == Request \cup {m.id : m \in Seed}

\* A message's id is the request that inserted it.
Message == [id : Id, folder : Folder, sender : User]

ASSUME MessageAssumption ==
  /\ Owner \in [Folder -> User]
  /\ Seed \subseteq Message
  /\ \A m, n \in Seed : m.id \notin Request /\ (m.id = n.id => m = n)

VARIABLES
  users,      \* the users collection
  folders,    \* the folders collection
  messages,   \* the messages collection
  events,     \* the messages whose MessageCreated event the broker has
  pc,         \* request -> the call it is about to make
  task,       \* request -> who asks, for what
  held,       \* request -> the messages it has read
  answer,     \* request -> status of its response, 0 while there is none
  known       \* history: request -> the creations answered before it began

vars == <<users, folders, messages, events, pc, task, held, answer, known>>

Task == [op : {"create", "list"}, user : User, folder : Folder]
          \cup [op : {"get"}, user : User, message : Id]
None == [op |-> "none"]

TypeOK ==
  /\ users \subseteq User /\ folders \subseteq Folder
  /\ messages \subseteq Message /\ events \subseteq Message
  /\ pc \in [Request -> {"new", "authorise", "sender", "insert", "reread", "publish",
                         "list", "get", "message", "folder", "done"}]
  /\ task \in [Request -> Task \cup {None}]
  /\ held \in [Request -> SUBSET Message]
  /\ answer \in [Request -> {0, 200, 201, 403, 404, 500}]
  /\ known \in [Request -> SUBSET Request]

\* The seed data has the users and the folders of its messages.
Init ==
  /\ messages = Seed /\ events = {}
  /\ folders = {m.folder : m \in Seed}
  /\ users = {m.sender : m \in Seed} \cup {Owner[m.folder] : m \in Seed}
  /\ pc = [r \in Request |-> "new"]
  /\ task = [r \in Request |-> None]
  /\ held = [r \in Request |-> {}]
  /\ answer = [r \in Request |-> 0]
  /\ known = [r \in Request |-> {}]

Begin(r, what, to) ==
  /\ pc[r] = "new"
  /\ pc' = [pc EXCEPT ![r] = to]
  /\ task' = [task EXCEPT ![r] = what]
  /\ known' = [known EXCEPT ![r] = {c \in Request : answer[c] = 201}]
  /\ UNCHANGED <<users, folders, messages, events, held, answer>>

Proceed(r, from, to) ==
  /\ pc[r] = from
  /\ pc' = [pc EXCEPT ![r] = to]
  /\ UNCHANGED <<task, answer, known>>

Answer(r, from, status) ==
  /\ pc[r] = from
  /\ pc' = [pc EXCEPT ![r] = "done"]
  /\ answer' = [answer EXCEPT ![r] = status]
  /\ UNCHANGED <<task, known>>

Data == <<users, folders, messages, events>>

---------------------------------------------------------------------------
\* The other services create users and folders; nobody removes either, and
\* nobody looks whether the user of a folder is stored.
Register(u) ==
  /\ u \notin users
  /\ users' = users \cup {u}
  /\ UNCHANGED <<folders, messages, events, pc, task, held, answer, known>>

AddFolder(f) ==
  /\ f \notin folders
  /\ folders' = folders \cup {f}
  /\ UNCHANGED <<users, messages, events, pc, task, held, answer, known>>

---------------------------------------------------------------------------
\* Variant: a folder that exists is taken for one's own.
FolderBelongsToUser_Exists(f, u) == f \in folders

FolderBelongsToUser(f, u) == f \in folders /\ Owner[f] = u

\* POST and GET /api/v1/folders/{folderId}/messages

BeginInFolder(r, op, u, f) ==
  Begin(r, [op |-> op, user |-> u, folder |-> f], "authorise")

Authorise(r) ==
  /\ pc[r] = "authorise"
  /\ FolderBelongsToUser(task[r].folder, task[r].user)
  /\ Proceed(r, "authorise", IF task[r].op = "create" THEN "sender" ELSE "list")
  /\ UNCHANGED <<Data, held>>

\* 403: the folder is somebody else's or nobody's, or the query failed.
Deny(r) ==
  /\ Answer(r, "authorise", 403)
  /\ UNCHANGED <<Data, held>>

\* Database::CreateMessage embeds the sender it finds ...
FindSender(r) ==
  /\ pc[r] = "sender"
  /\ task[r].user \in users
  /\ Proceed(r, "sender", "insert")
  /\ UNCHANGED <<Data, held>>

Store(r) ==
  messages' = messages \cup {[id |-> r, folder |-> task[r].folder,
                              sender |-> task[r].user]}

Insert(r) ==
  /\ Proceed(r, "insert", "reread")
  /\ Store(r)
  /\ UNCHANGED <<users, folders, events, held>>

\* The insert took effect but its acknowledgement was lost.
InsertUnacknowledged(r) ==
  /\ Answer(r, "insert", 500)
  /\ Store(r)
  /\ UNCHANGED <<users, folders, events, held>>

Own(r) == {m \in messages : m.id = r}

\* ... and reads the message back.
Reread(r) ==
  /\ Own(r) # {}
  /\ Proceed(r, "reread", "publish")
  /\ UNCHANGED <<Data, held>>

\* Variant: the failure is reported as a malformed request.
CreateFails_BadRequest(r) ==
  /\ \E from \in {"sender", "insert", "reread"} : Answer(r, from, 400)
  /\ UNCHANGED <<Data, held>>

\* 500: the sender is not there, or a query or the insert failed.  After the
\* insert the message exists all the same.
CreateFails(r) ==
  /\ \E from \in {"sender", "insert", "reread"} : Answer(r, from, 500)
  /\ UNCHANGED <<Data, held>>

Publish(r) ==
  /\ Answer(r, "publish", 201)
  /\ events' = events \cup Own(r)
  /\ UNCHANGED <<users, folders, messages, held>>

\* Variant: the exception is caught and not thrown again.
PublishFails_Swallowed(r) ==
  /\ Answer(r, "publish", 201)
  /\ events' \in {events, events \cup Own(r)}
  /\ UNCHANGED <<users, folders, messages, held>>

PublishFails(r) ==
  /\ Answer(r, "publish", 500)
  /\ events' \in {events, events \cup Own(r)}
  /\ UNCHANGED <<users, folders, messages, held>>

\* Variant: what was read before the cursor threw is returned.
List_Partial(r, failed) ==
  LET all == {m \in messages : m.folder = task[r].folder}
  IN /\ Answer(r, "list", 200)
     /\ \E read \in SUBSET all :
          held' = [held EXCEPT ![r] = IF failed THEN read ELSE all]
     /\ UNCHANGED Data

List(r, failed) ==
  /\ Answer(r, "list", 200)
  /\ held' = [held EXCEPT ![r] =
                {m \in messages : ~ failed /\ m.folder = task[r].folder}]
  /\ UNCHANGED Data

---------------------------------------------------------------------------
\* GET /api/v1/messages/{messageId}: the message is read, and read again by
\* MessageBelongsToUser, whose folder is then checked.

BeginGet(r, u, m) ==
  Begin(r, [op |-> "get", user |-> u, message |-> m], "get")

Wanted(r) == {m \in messages : m.id = task[r].message}

Get(r) ==
  /\ pc[r] = "get"
  /\ Wanted(r) # {}
  /\ Proceed(r, "get", "message")
  /\ held' = [held EXCEPT ![r] = Wanted(r)]
  /\ UNCHANGED Data

NotFound(r) ==
  /\ Answer(r, "get", 404)
  /\ UNCHANGED <<Data, held>>

GetAgain(r) ==
  /\ pc[r] = "message"
  /\ Wanted(r) # {}
  /\ Proceed(r, "message", "folder")
  /\ UNCHANGED <<Data, held>>

Show(r) ==
  /\ pc[r] = "folder"
  /\ \E m \in Wanted(r) : FolderBelongsToUser(m.folder, task[r].user)
  /\ Answer(r, "folder", 200)
  /\ UNCHANGED <<Data, held>>

\* 403: somebody else's message, or one of the two queries failed.
DenyMessage(r) ==
  /\ \E from \in {"message", "folder"} : Answer(r, from, 403)
  /\ UNCHANGED <<Data, held>>

---------------------------------------------------------------------------
InFlight == {r \in Request : pc[r] \notin {"new", "done"}}

Restart ==
  /\ InFlight # {}
  /\ pc' = [r \in Request |-> IF r \in InFlight THEN "done" ELSE pc[r]]
  /\ UNCHANGED <<Data, task, held, answer, known>>

Next ==
  \/ \E u \in User : Register(u)
  \/ \E f \in Folder : AddFolder(f)
  \/ \E r \in Request :
       \/ \E op \in {"create", "list"}, u \in User, f \in Folder :
            BeginInFolder(r, op, u, f)
       \/ Authorise(r) \/ Deny(r)
       \/ FindSender(r) \/ Insert(r) \/ InsertUnacknowledged(r) \/ Reread(r)
       \/ CreateFails(r) \/ Publish(r) \/ PublishFails(r)
       \/ \E failed \in BOOLEAN : List(r, failed)
       \/ \E u \in User, m \in Id : BeginGet(r, u, m)
       \/ Get(r) \/ NotFound(r) \/ GetAgain(r) \/ Show(r) \/ DenyMessage(r)
  \/ Restart

Spec == Init /\ [][Next]_vars

---------------------------------------------------------------------------
\* What the service promises.

\* OwnMessagesOnly.  Although the folder is checked by other queries than those
\* that read or insert, nobody is shown a message of a folder that is not theirs,
\* every message has a stored folder and sender, and one that came with a request
\* lies in a folder of its sender.
OwnMessagesOnly ==
  /\ \A r \in Request : answer[r] = 200 =>
       \A m \in held[r] : m.folder \in folders /\ Owner[m.folder] = task[r].user
  /\ \A m \in messages :
       /\ m.folder \in folders /\ m.sender \in users
       /\ m.id \in Request => Owner[m.folder] = m.sender

\* CreatedIsDurable.  Whoever has been told 201 has one message stored and its
\* event at the broker, whatever failed for others or restarted since.
CreatedIsDurable ==
  \A r \in Request : answer[r] = 201 =>
    \E m \in messages \cap events : Own(r) = {m} /\ m.folder = task[r].folder

\* WholeListOrNone.  A list that begins after the 201 for a message of its
\* folder has it or has nothing: a query that fails half-way shows as an empty
\* folder, never as part of one.
WholeListOrNone ==
  \A r \in Request : (answer[r] = 200 /\ task[r].op = "list" /\ held[r] # {}) =>
    \A c \in known[r] : task[c].folder = task[r].folder => Own(c) \subseteq held[r]
=============================================================================
