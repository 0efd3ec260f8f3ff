# A TLA+ model of the email service

The repository is a course project: an email service in C++ on userver, written six
times over (`1 hw` .. `6 hw`), each homework adding to the one before. This
directory models its last version, `6 hw/email-service`, and the earlier ones where
they differ: the services of homeworks 2, 3 and 4 over their three storages, and the
user service of homework 5. Paths below are relative to that directory unless they
begin with a homework. Read with the source at hand: `PROJECT.json` maps every
definition to the lines it stands for.

## 1. The system

Three processes behind an Nginx gateway share one MongoDB and one RabbitMQ.

| part | state | operations | talks to |
|---|---|---|---|
| user service (`src/user`) | a user cache, rate-limit buckets, both in memory | create, find by login, search by name, login | `users` collection, event producer |
| folder service (`src/folder`) | a folder cache, if registered (its `main.cpp` does not) | create, list | `folders`, event producer |
| message service (`src/message`) | none | create, list, get | `messages`, `folders`, `users`, event producer |
| `Database` (`src/common/database.cpp`) | the MongoDB collections | one or more queries per operation, every exception turned into "nothing found" | MongoDB |
| `InMemoryCache` (`cache_component.hpp`) | map key -> (value, expiry), one mutex | Get, Put, Invalidate, InvalidatePattern, Clear, EvictOldest | handlers |
| `RateLimiterComponent` (`rate_limiter.hpp`) | map key -> token bucket, one mutex | check, header look-up, Cleanup (never called) | create-user and login handlers |
| `EmailEventProducer` (`rabbitmq_producer.hpp`) | the exchange and queue, at the broker | declare in the constructor, remove in the destructor, publish with confirmation | RabbitMQ |
| `EmailEventConsumer` (`rabbitmq_consumer.hpp`) | `storage_`, every message it has seen | Process, get, count, clear | RabbitMQ |
| read model (`read_model_{cache,synchronizer,handler}.hpp`) | three locked maps | update per event, query, count, invalidate, clear | RabbitMQ |
| JWT checker (`src/auth`) | none | check a token | folder and message services |
| test endpoint (`event_handler.hpp`) | none of its own | publish an event, list and clear what was consumed | producer, consumer |
| homework 2 services | one SQLite file; each handler has a connection its requests share | the same operations; a creation is an insert, `last_insert_rowid()` and a select | - |
| homework 3 services | PostgreSQL, one host in every configuration | the same operations, one statement each (`INSERT ... RETURNING`) | - |
| homework 4 services | MongoDB, one host | the same operations; a creation is up to three commands | - |
| homework 5 services | homework 4 with the limiter before registration and login and the cache before find and search | the same operations | - |

The consumer, the test endpoint and the read model are implemented but registered
in no service yet (`6 hw/README.md:320` and `:353`): their modules say what they
would do once they are.

Every request runs in a coroutine of its own; several run on several threads.
Between two of a handler's calls that wait (a query, a publication, a mutex)
anything may happen: another request, the other services, a failure, a restart.
That is what is hard here, more than any one step:

* check-then-act: `CreateUser` checks twice and then inserts; `CreateMessage`
  checks the folder, looks for the sender and then inserts;
* dual writes: the insert and its event are two steps, and nothing repeats the
  second;
* cache-aside: a list that was read before a write is cached after it;
* failures that look like answers: a query that throws finds nobody, an insert
  whose acknowledgement is lost is a conflict;
* a broker topology that every service declares and every service removes;
* events that overwrite what later events wrote, and three mutexes for one answer;
* a row number that belongs to a connection and is read as if it belonged to a
  request (homework 2);
* tokens, folders and messages that name users no storage but PostgreSQL checks
  for (homeworks 2 to 4);
* a limiter whose state does not outlive the process it protects (homework 5);
* integer time: whole seconds and whole tokens.

`PROJECT.json` lists these hazards one by one, at the line where they bite, with
the properties that would notice them going wrong, or why none does yet.

## 2. The modules

| module | models | state and actions |
|---|---|---|
| `RateLimiter` | the limiter as the two limited handlers drive it | `buckets` is `buckets_`; `Admit` and `Refuse` are `CheckRateLimit` under its lock, `Inform` the second lock of a 429, `Cleanup` the sweep, `Tick` the clock |
| `RateLimiterProofs` | - | proofs about `RateLimiter` |
| `InMemoryCache` | the cache's operations, each an action on `cache` | included by the services with `INSTANCE` |
| `CacheContract` | the cache under arbitrary callers | a call is an operation plus the history (`latest`) that says what it should have done |
| `Registry` | what registration promises: an abstract specification | `Register`, `Announce`, `Acknowledge` |
| `UserService` | create, find and search, over the collection and the cache | one action per waiting call; `pc` says which call a request makes next |
| `UserServiceProofs` | - | proofs about `UserService`, the refinement of `Registry` among them |
| `FolderService` | create and list folders | the same, with `hasCache` for the two ways the program can be built |
| `FolderServiceProofs` | - | proofs about `FolderService` |
| `MessageService` | create, list and get messages | the same; the writes of the other two services are the actions `Register` and `AddFolder` |
| `MessageServiceProofs` | - | proofs about `MessageService` |
| `EventPipeline` | producers, broker and consumer | `service` is how far a producer is in set-up or teardown; `ready` and `held` are the queue and the deliveries in progress |
| `ReadModel` | the synchronizer, `ReadModelCache`, the statistics and look-ups of `ReadModelHandler` | `model` is which event each entry is made of, `lock` the three mutexes, `at` how far a `GetCacheStats` is |
| `CacheProofs` | - | proofs about what is kept in memory for readers: `CacheContract`, whose names carry a `Contract` so that one module can extend both, and `ReadModel` |
| `EventPipelineProofs` | - | proofs about `EventPipeline` |
| `Creation` | what a creation promises: an abstract specification | `Make`, `Tell` |
| `MailStore` | what the storages of homeworks 2, 3 and 4 share | `rows` are the tables, `pc` and `rowId` what a creation has done so far |
| `SqliteStore`, `PostgresStore`, `MongoStore` | `Database` of homework 2, 3, 4 | `Create` is one action per call on the storage; a read is the set of what it may answer; `lastRow` is what each SQLite connection inserted last |
| `MailServices` | the handlers and the checker of homeworks 2, 3 and 4 over any of the three | `storage` says which, `tokens` whose tokens there are; one action per call on the storage |
| `MailServicesProofs` | - | proofs about `MailServices` over each storage, the refinement of `Creation` among them |
| `LimitedUserService` | the user service of homework 5 as one process | composed of `UserService` without its events, `RateLimiter`, and the login |
| `LimitedUserServiceProofs` | - | proofs about `LimitedUserService`, the refinement of `Creation` among them |
| `MC*` | instances for TLC | constants only |

How they compose: `InMemoryCache` is instantiated by `CacheContract`, `UserService`
and `FolderService`; `UserService` and `RateLimiter` by `LimitedUserService`, which
shares one clock between them; the three stores by `MailServices`. `UserService`
implements `Registry`; `MailServices` (over two of its storages) and
`LimitedUserService` implement `Creation`, with `made` and `told` as the mapping.

Common conventions. A request is used for one call and its id serves as the id of
what it inserts; only in `MailStore`, where numbers given out in order are what goes
wrong, ids are numbers. Requests answered with 400, 401 or 429 change nothing of the
modelled state and are left out where nothing depends on them: `LimitedUserService`
has all three, for there even a malformed registration uses a token of the limiter,
and `MailServices` has the checker's refusals. Their status is made by the framework
from the checker's verdict, outside `src/`, and is taken from what the services' tests
assert: 400 without the header, 401 for a token that is not good, 403 for one that
cannot be decoded. The documents disagree: `2 hw/README.md:77` says "`401 Unauthorized`
— отсутствует или невалидный токен" and `openapi.yaml:295` lists 401 only, where
`CheckAuth` returns `kTokenNotFound` and `kForbidden` (`jwt_auth_checker.cpp:22-25`,
`:56-59`) and the tests assert 400 and 403 (`test_message_service.py:107`, `:125`,
`test_folder_service.py:88`, `:99`). The model follows the code and its tests.

A handler that makes one query and answers what it finds is one action. A database
call has up to three failures: without effect, with effect but reported as failed,
and, for queries, reading like an empty result. A restart drops the requests in flight
and the process's memory, never the database. The handlers of homeworks 2, 3 and 4
differ in the `Database` they construct and in the type of an id, so one set of
actions stands for all, and the map takes each from one of the three. Values read are
modelled as sets of users, folders or messages; JSON, logging, password hashing and
header text are left out. The unique indexes are those `init-mongo.js` creates. Its
seed data, like that of homework 3, has mail in folders of others than its senders,
which no handler would write; `Seed` of `MessageService` and `SeedMail` of
`MailServices` put such mail into the initial states. What is external (RabbitMQ) is
marked so in the map. Definitions whose name ends in `_Something`, each under a
`Variant` comment, are not part of any specification: they are plausible bugs, used to
see each property fail.

## 3. What is checked

Runs named here are in `PROJECT.json`; `MC<module>.cfg` holds their bounds.

**rate_limiter** (passes). Two clients behind one address, 2 tokens per 3 seconds,
burst 3, half-second ticks, 7 seconds, 5 admissions per key (a bucket emptied, and
refilled in part). One token takes 1.5 seconds, so both truncations (to seconds, to
tokens) happen; two windows and a tick fit, so `Cleanup` has something to sweep.
`RateBound`: never admitted faster than burst + rate, plus one second of rounding.
`BurstHonoured`: never refused before the burst is used up, which is a matter of the
first lock alone. `SpacedRetryAdmitted`: waiting one token's time after a refusal
helps. `SweepTransparent`: a sweep is invisible. `ResetNeverRecedes`: announced resets
do not go back, although the headers of a 429 are looked up under a second lock. The
handlers pass that look-up numbers of their own (`handlers.cpp:46`, `:279`) where
`Inform` takes the endpoint's configuration. Their numbers are the defaults, and no
configuration in the repository sets others (`static_config_user.yaml:49`).

**rate_limiter_starved** (violation). Asking once a second, each refill discards
its fraction of a token: refused for more than a window.

**cache** (passes). Three keys for two places, lifetimes 1 and 3, 4 time units.
`SizeBound`, `HitIsLatest` (a hit is the latest uninvalidated, unexpired Put),
`EvictionIsForced` (an entry leaves unasked only when the cache is full, and the
first to expire goes).

**user_service** (passes). Three calls, two forms that claim one login and a
third that claims the first one's e-mail, one cache place for three keys, search
lifetime 1 and default lifetime 2 within 3 time units. Three calls are enough
for two racing registrations and a witness, or for a registration between two
searches; each may fail anywhere. `ImplementsRegistry` is the refinement of
`Registry`; `OneIdentity`, `ReadYourRegistration` and `SearchStaleness` say what
the readers may rely on.

**limited_user_service** (passes). Three calls, two people with a form each, bursts
of one and one token a second at each endpoint, one second, one restart, a cache of
one entry. That is enough for two registrations of one person to race once a restart
or the tick has let the second one in, for a login with another's password, and for
a cached find to meet a new process; refills of a fraction of a token are left to
`rate_limiter`. `WorkBound`: no more users stored and passwords tried than burst and
rate allow, with one more burst for every restart. `LoginAgrees`: a token is that of
the user every find names, and its password is needed and enough. `KeepsPromise` is
the refinement of `Creation`.

**folder_service** (passes). Three calls, two users, one name, a cache of one
list, lifetime 1 within 3 time units, built with or without the cache.
`StaleOnlyIfOvertaken` and `StaleNoLongerThanTtl` bound the cache-aside race:
after a 201, a list misses the folder only if its fill overtook the
invalidation, and only for one lifetime. `CreatedIsDurable`: 201 means stored and
announced.

**message_service** (passes). Two users, a folder each, a third user's message in one
of them, three calls. `OwnMessagesOnly`: nobody is shown a message of, or puts one
into, another's folder; whatever a request stored is sent by the folder's owner, which
is not so of the message that was there before. `CreatedIsDurable`: 201 means stored
and announced. `WholeListOrNone`: a list is all there was to show, or empty.

**event_pipeline** (passes). Two services, one event each, one of which no consumer
can process, two deliveries at once, two restarts of any kind. No producer of today
builds an event that cannot be processed; the consumer has code for it, and it is what
keeps a delivery coming back. The test endpoint publishes and clears as the handlers
and the consumer do. Two histories say who was harmed by a teardown or a broker
restart, and no longer whether there was any: `shaken`, the services that were up when
something they had declared was removed, and `exposed`, the events that were in a
queue when it was removed or that a shaken service published into an exchange with
nothing bound. `UpIsBound`: a service that came up can reach the queue until it is
shaken, also if others were torn down before it came up or while it was setting up.
`NothingElseLost`: a confirmed event that is not exposed is in the queue, in progress
or processed. `HealthyProcessed`, under fairness: an event in the broker that can be
processed eventually is, beside one that cannot, unless its queue goes first.

**event_pipeline_lost** (violation). A confirmed event is lost to the teardown of
another service.

**read_model** (passes). A user with its creation only, a message created and then
sent, two deliveries at once, two requests for the statistics, one lost connection or
restart. Two deliveries are enough for a creation to be applied after what followed it
and for a repetition to run beside the original; two readers and a writer, for a
circle of waiting over three mutexes. Processing an event may throw before the map has
changed (`ApplyFails`). Two histories are kept for each entity: `lost`, its entry was
removed, and `mixed`, an older event about it was still to be applied when a newer one
was published, or came back afterwards. `CompleteWhenSettled`: once the events about
an entity are processed, the read API answers each look-up with it and each list with
it, unless it is lost, and with its latest event, unless it is mixed.
`AnswerIsASnapshot`: the three counts belong to one instant. `StatsAnswered`, under
fairness: every request for them ends.

That an older event overwrites a newer one (the design asks consumers to make
repetition harmless, `event_driven_design.md:405`) is what the code does when both are
under way at once, and `mixed` concedes that much: `CompleteWhenSettled` says that it
happens in no other way, for instance not to an entity whose events came one by one.

**mail_services** (passes). Each of the three storages, two users with a folder and a
token each, in PostgreSQL and MongoDB a message of the other in each folder, three
calls, one more user who may register under either of two logins that share an e-mail,
one folder name, and requests for the seeded folder 1 and for number 3, the first that
a creation gets. Three calls are enough for a creation, the one that overtakes it, and
a reader of what was mixed up, or for a registration, its login and what the token is
used for. `ToldOwnUnlessOvertaken`: a 201 means the row is stored, and answers it;
over SQLite, if the same connection inserted in between, maybe a later one.
`OwnMailOnly`: even so, nobody reads or writes in another's folder, for every call is
checked again; the seed mail is shown to the owner of its folder and not to its
sender. `NoOrphans`: every token, folder and message has its stored user and folder,
although only PostgreSQL enforces foreign keys. `KeepsPromise`: over PostgreSQL and
MongoDB creations implement `Creation`; over SQLite they do not, as the next run
shows.

**mail_services_wrong_row** (violation). Two registrations, one connection: the first
is answered 201 with the second's login.

Deadlock is checked in `read_model` only: in the other runs the system stops when
its calls are used up.

**Fairness.** `EventPipeline` and `ReadModel` state some. The consumer's
coroutine is scheduled, so what it can do next it does (weak fairness of
`Store`, `Finish`, `Fail`). The delivery of each event is strongly fair: a
userver consumer prefetches several messages, so one that keeps being returned
does not keep the broker from sending the others. A request for the statistics
runs on (weak fairness of `Count` and `Answer`), and a mutex that is free again
and again is handed to each of those who wait for it (strong fairness of
`LockNext`: userver's mutex queues its waiters). Nobody is obliged to publish,
to start or to stop, and failures are bounded by `MaxRestarts` and `MaxLosses`.

**Symmetry** permutes clients and requests (and the two users of
`FolderService`) in runs without liveness properties; nothing else
distinguishes them.

## 4. What is proved

`RateLimiterProofs`, checked by TLAPS for all values of the constants under
`ConfigAssumption` (they have the types of `RateLimitConfig`) and
`SweepAssumption` (no burst exceeds two limits, as in every configuration):

* `TypeCorrect`: `Spec => []TypeOK`.
* `RateBounded`: `Spec => []RateBound`. The bound is not inductive: it says
  nothing of the tokens that are left. The inductive invariant `IInv` adds, for
  every key and every earlier admission, that what has been admitted since and
  what the bucket still holds together stay within burst + rate (`Balance`), with
  the bucket's `last` between that admission's clock and now. `RefillBalances`
  shows that a refill keeps it (`DivBounds` and `RefillCredit` account for the
  two truncations), `SweepBalances` that a bucket swept and recreated full does,
  which is where `SweepAssumption` and the two windows are needed.
* `SweepIsTransparent`: only the sweep forgets a bucket (`OnlySweepForgets`), and
  what it forgets a refill would have filled (`StaleIsFull`).
* `BurstIsHonoured`: a bucket holds at least its burst less the admissions.
* `SpacedRetryIsAdmitted`: `Spec => []SpacedRetryAdmitted`. A refusal may itself
  refill the bucket and so restart the time that counts towards a token, which is
  what starves a client that asks too often. The inductive invariant `Waited` says
  that while a key stands refused no refill is later than its latest refusal; from there
  `OneToken` seconds accrue a token in spite of the two truncations.
* `ResetsNeverRecede`: `Spec => ResetNeverRecedes`. The second lock of a 429 reads
  a bucket that others may have refilled, or that a sweep has dropped, since the
  first. The inductive invariant `Announced` ties what a client was told to its
  bucket: one that is there will announce nothing earlier, and without one the
  clock is announced, later than any refill.

`CacheProofs` about `ReadModel`, for any finite set of entities, any numbers of events, and
any consumers and readers (`ReadModelAssumption`, `NoEventAssumption`; finite,
because a count of entries is a number):

* `TypeCorrect`: `Spec => [](TypeOK /\ Delivered)`. `TypeOK` bounds `model` by
  what is published, which is inductive only together with `Delivered`: what is
  queued or in progress is published too.
* `CompleteOnceSettled`: `Spec => []CompleteWhenSettled`. The inductive
  invariant is `Shown`: a published entity that is not lost has an entry or an event
  on its way, the latest one if it is not mixed, and then nothing older is still to be
  applied. `PendingKept` follows what is to be applied, `SettlesKept` what the entry is
  or will be made of, `HistoryFact` the two histories.
* `AnswersAreSnapshots`: `Spec => AnswerIsASnapshot`. The inductive invariant
  `SnapshotInv` says of each reader which maps it holds and that its counts so
  far still hold; `LockedIsUndisturbed` shows that nobody else changes an entry
  of a map somebody holds, `ReaderKept` that the steps of others leave it true.

`UserServiceProofs`, for any requests, forms, names, lifetimes and cache size
(`ServiceAssumption`):

* `TypeCorrect`: `Spec => [](TypeOK /\ Placed)`, where `Placed` says what the
  place of a request implies about its task, its answer and the list it holds.
* `Implementation`: `Spec => ImplementsRegistry`. The step simulation needs
  `Stored`: users are what their requests asked for and share neither login nor
  e-mail (`Indexed` keeps it so, the two checks before the insert play no part);
  a request past the insert has its user, and one past the publication an
  announced one.
* `OneIdentityForAll` and `SearchStalenessBounded`: from `Listed`, which says that
  whatever list the cache, a request in progress or an answer holds is `Truthful`:
  a login's is its one user, and a search's misses nobody older than itself unless
  its query failed; and that an entry expires one lifetime after it was filled.
* `RegistrationIsRead`: `Spec => []ReadYourRegistration`, from `Remembered`: what a
  request knew when it began is stored. It uses that users are never removed and
  that no absence is cached.

`EventPipelineProofs`, for any services, events and consumers
(`PipelineAssumption`):

* `TypeCorrect`: `Spec => []TypeOK`; a consumer holds an event exactly while its
  delivery is in progress.
* `UpIsBoundAlways`: `Spec => []UpIsBound`, which is inductive with `TypeOK`:
  `ComesUp` shows that a service that comes up finds everything declared, and
  `DeclarationsStay` that what takes a declaration back shakes every service that is up.
* `NothingLost`: `Spec => []NothingElseLost`. `StaysAccounted` follows
  one event through every step: it leaves the broker and the consumer only by being
  processed or exposed, for a delivery whose queue is gone, and which a consumer's crash
  would return to nowhere, was exposed with that queue. A confirmation needs
  `UpIsBound`: the exchange it comes from is bound, or its service is shaken.

`CacheProofs` about `CacheContract`, for any keys, values, lifetimes, patterns and size
(`ContractAssumption`, `CacheAssumption`: the keys are finitely many, because a size
is a number):

* `ContractTypeCorrect`, `SizeBounded`, `HitsAreLatest`: `ContractSpec` implies
  `[]ContractTypeOK`, `[]SizeBound` and `[]HitIsLatest`. The inductive invariant `IInv` adds what a hit's answer does not
  show: every entry is what was put last under its key. `PutKeepsSize` is the one
  counting argument: `Put` stores first and evicts afterwards, one entry at most, and
  that suffices because it evicts whenever a new key exceeds the size.
* `EvictionsAreForced`: `ContractSpec => EvictionIsForced`, step by step from `IInv`.

`FolderServiceProofs`, for any requests, users, names, cache size and lifetime, with
the cache and without it (`FolderAssumption`):

* `TypeCorrect`: `Spec => []TypeOK`, with `Placed` as in the user service.
* `CreatedDurable`: `Spec => []CreatedIsDurable`. The inductive invariant `CreateInv`
  says that a folder is what its request asked for (`Sent`), that a request has one
  at most, and what each step of a creation has left behind (`Durable`).
* `StaleIfOvertaken` and `StaleWithinTtl`: the two bounds on the cache-aside race.
  What a list misses is a matter of three times: when it was read, when the folder
  was stored and when the list entered the cache. The inductive invariant `ListInv`
  says of every list, wherever it is, that it misses nothing older than its reading
  (`Truthful`); of the cache, that an entry went in after every 201 for its user,
  since a 201 comes with an invalidation, and that it is over one lifetime later
  (`Cached`); without a cache, that a list has all that was made before it
  (`Complete`). `CacheSteps` shows that an entry is an old one or was just filled in.

`MessageServiceProofs`, for any users, folders, requests and seed messages
(`MessageAssumption`: their ids are no requests):

* `TypeCorrect`: `Spec => []TypeOK`, with `Placed`.
* `OwnMessages` and `CreatedDurable`: `Spec => []OwnMessagesOnly` and
  `[]CreatedIsDurable`. The handlers check first and act later, and nothing is locked
  in between. The inductive invariant `IInv` makes that harmless: what a request has
  found out stays true (`Checked`, `Answered`), because users, folders and messages
  are only ever added (`DataGrows`) and a folder never changes hands; the seed messages
  come from no request and are shown like the others. A handler that
  deletes would break exactly this argument.
* `WholeList`: `Spec => []WholeListOrNone`, from `ListInv`: what a request knew when it
  began has been answered 201, so its messages are stored before the query runs.

`MailServicesProofs`, for any requests, forms, names and seeded users, over each of
the three storages (`StoreAssumption`: requests and seeds are finitely many, because
row numbers are counted, `"seed"`, which marks the rows the store starts with, is no
request, and seed mail is from seeded users and in their folders). `QueryAnswers`,
`JoinAnswers` and `CreateSteps` bring the three `Database` classes to one form, which
says what a call may answer and which step of a creation it is; everything else is
proved once for all three.

* `TypeCorrect`: `Spec => []TypeOK`. That no row number passes `MaxId` is not inductive:
  a SQLite or PostgreSQL insert takes the next number, whatever it is. The inductive
  invariant `IInv` adds where a request is (`Placed`), that rows are numbered without
  repetition and are no more than the seeds and the requests that have one (`Numbered`),
  and that a row is what its request asked for and comes from a request past its insert
  (`Sent`). Hence a request that is about to insert has no row yet (`Fresh`), and an
  insert that takes the next number stays within the bound (`StoringKeeps`).
* `Orphans` and `OwnMail`: `Spec => []NoOrphans` and `[]OwnMailOnly`. The inductive
  invariant `AccessInv` adds what a request may rely on when it acts (`Allowed`): the
  user of its token is stored, and the folder it has checked is its own. Both stay true
  between the check and the insert because no row is taken away or rewritten.
* `ToldOwn`: `Spec => []ToldOwnUnlessOvertaken`. The inductive invariant `TellInv` follows
  the row number through `last_insert_rowid`, the read-back and the answer (`Knows`): it
  is that of the request's own row or, over SQLite and only if the request was overtaken,
  of a later one.
* `Implementation`: `Spec => KeepsPromise`, the refinement of `Creation`. `PromiseInv`
  adds that no rows of two requests clash (`Apart`), which each storage's unique
  constraints see to, not the checks before the insert. `StoringMakes` maps the insert
  to `Make`, `FetchingTells` the 201 to `Tell`, and every other step changes neither
  `made` nor `told`.

`LimitedUserServiceProofs`, for any calls, forms, limits, bursts, lifetimes, cache size
and number of restarts (`LimitedAssumption`: calls and forms are finitely many, because
users are counted, and limits and bursts are not zero). The theorems about `UserService`
and `RateLimiter` are about those modules run alone; here each action of one happens
under the other, and a restart empties both, so the invariants are stated anew.

* `TypeCorrect`: `Spec => []TypeOK`. The inductive invariant `TypeInv` adds `Placed`,
  what the place of a request implies about its task, its answer and the list it holds,
  and `LimiterInv`.
* `WorkBounded`: `Spec => []WorkBound`. `LimiterInv` says of the one bucket an endpoint
  has (everybody comes from the gateway, `Keys`) that the admissions and the tokens left
  are paid for by one burst per start and the time the bucket has accounted for (`Paid`);
  a restart drops the bucket, and so its tokens, and `Paid` then says what a full new one
  may add. `RefillPaid` shows that the truncation of a refill only ever loses. `Counted`
  links the two halves: who is registering or stored, and who is authenticating or has
  tried, has been admitted, each once. That a malformed registration is admitted too
  only makes the bound less tight.
* `LoginsAgree`: `Spec => []LoginAgrees`. `Stored`: users share neither login nor e-mail
  and are what their requests asked for. `Listed`: every list of a login, in the cache, in
  a request's hands or in an answer, is its one stored user, which is why a find served
  from a cache agrees with a login that never looks at it. `Authenticated`: a 200 names a
  user with that login and password, and a 401 for a login that was known when the call
  began (`Remembered`) means another password.
* `Implementation`: `Spec => KeepsPromise`, the refinement of `Creation`, from `Stored`.
  `StoringMakes` maps the insert to `Make`, the 201 maps to `Tell`, and every other step,
  a restart included, changes neither `made` nor `told` (`MadeKept`).

Every step of the composition is a step towards a registration, its 201, any other
step of one request, a restart or the clock's (`NextCases`). `StoreSteps`,
`CreatedSteps`, `ElsewhereAside` and `RestartSteps` say once what each kind changes, and
the invariants are proved kind by kind.

Every invariant and action property of the passing runs is a theorem. Only
model-checked: the two liveness properties, `HealthyProcessed` and `StatsAnswered`,
which need fairness and `ENABLED` and are out of the prover's reach; and the three
violations of section 3, which are no theorems and which TLC shows by example.

## 5. Plan

Done, with their proofs: `RateLimiter`, `InMemoryCache` with `CacheContract`,
`UserService` with `Registry`, `FolderService`, `MessageService`, `EventPipeline`,
`ReadModel`, `MailServices` over its three stores and `LimitedUserService`, the last two
with `Creation`.

Left: the composition of the user service's events with `EventPipeline` and `ReadModel`,
which the program does not make yet either (no service registers a consumer or a read
model), and the hazards of `PROJECT.json` that no property covers.

## 6. Not modelled

JSON conversion (`models.cpp`), the counters of limiter and cache and the metrics
text, deployment and configuration, homework 1 (diagrams). The folder and message
services of homework 5 differ from those of homework 6 in that they publish nothing,
and are not modelled a second time. `database.cpp`, `rate_limiter.hpp` and
`cache_component.hpp` are the same in homeworks 5 and 6.

Of a token only its owner is modelled: it may be refused at any time, which covers
its expiry, and no expiry time, signature or claim appears. Every configuration of
homework 3 names one PostgreSQL host, so reads that may go to a replica see what the
primary has. The foreign keys of homework 2's schema are declared and not in force
(SQLite enforces them only on connections that ask for it), so no model relies on
them. `Registry` allows a user that is stored and never announced, because nothing
in the code repeats a publication that failed.

That the read model forgets fields of a message when a later event replaces the
entry, that a retried `CreateMessage` stores twice, that clocks may step
(`system_clock` is not monotone) and that coroutines share one MongoDB client are
hazards with a note and not behaviours of the models.
