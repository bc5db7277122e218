# GatewayServer in TLA+

A verification development for the chat server in `src/`: TLA+ modules that
follow its C++ code, small instances that TLC checks, and theorems that TLAPS
proves for every value of the constants.

Line numbers below are those of the files under `src/src/sdk/` unless a path
says otherwise.

## 1. The system

| Component | Code | State | Operations |
|---|---|---|---|
| Connections | `network/AcceptProcess.h`, `network/session/ClientSession.cpp` | `sessions_`, per session a header and a body buffer, the coroutine | `doAccept`, `runRead`, `processRequest` |
| Task pool | `context/WorkersPool.*`, `context/AsyncContext.h` | an `asio::io_context` with a work guard, its threads, `counter_`, references to the context | `post` (through `runAsync`), `runThread`, the destructor |
| Engine | `engine/QueryEngine.cpp` | none of its own | `reg`, `auth`, `joinRoom`, `sendText`, `getHistory`, `getChannels` |
| Users | `channels/users/UserManager.*`, `User.*` | `idClients_`: id -> User with its session; no mutex | `push`, `getUser` |
| Channels | `channels/ChannelsManager.*`, `channels/Channel.*` | `idChannels_` with `mutex_`; per Channel `idUsers_` without one | `createOrGetChannelByName`, `createChannelFromDb`, `addUser`, `write`, `sendHistory` |
| PostgreSQL store | `database/WrapperPg.*`, `src/env/pg/configure.sh` | tables `clients`, `channels`, `subscriptions`, `history`; one connection with a mutex | one to four SQL queries per method |
| Write queue | `common/ThreadSafeQueue.*` | `queueTasks_`, `cv_mutex_`, `cv_`, `quit_`, the threads | `start`, `push`, `worker`, the destructor |
| Socket writer | `network/session/ClientSession.cpp:14-66` | `mutexSocket_` per socket, the queue | `write`, `writeImpl_` and its completion handler |
| In-memory Storage | `database/Storage.*` | maps | the operations of the store, each in one step; nothing instantiates it |
| Logger, helpers, settings | `common/log`, `MakeSharedHelper.h`, ... | - | output and value classes |
| Wire protocol | external package | - | protobuf messages, `MsgFactory` |

How they interact.  `main` builds the store, the managers, the engine, the pool
of four threads, the write queue of four threads and the acceptor, and then runs
the `io_context` of the network in its own thread.  A session reads a header,
then a body, and posts `processRequest` to the **task pool**; a pool thread calls
the **engine**, which talks to the managers by direct calls through weak
pointers and to the store by SQL queries.  An answer goes to the **socket
writer** of a session, which pushes a task into the **write queue**; a thread of
that queue locks the socket and starts an `async_write`, whose completion handler
runs in the thread of the network and unlocks it.

So a request crosses three kinds of threads (network, pool, queue), and two
requests of the same connection run at the same time.

What is hard here, and where:

* check-then-act over several SQL queries on tables without UNIQUE constraints
  (`WrapperPg.cpp:131`, `:259`, `ChannelsManager.cpp:77`);
* maps and sets shared by the pool threads without a mutex
  (`UserManager.cpp:44`, `Channel.cpp:48`), a query made without the mutex of the
  connection (`WrapperPg.cpp:346`);
* queries that may fail and whose failure reads as "not found", or is only
  logged, or throws;
* a process that dies between two queries and is rebuilt from the tables;
* an answer that is given before its effect is stored (`Channel.cpp:62`);
* a condition variable notified without its mutex (`ThreadSafeQueue.cpp:12`);
* a mutex handed from a queue thread to a completion handler, and buffers that
  `async_write` does not own (`ClientSession.cpp:36-66`);
* responses of which the socket takes a part, whose rest leaves later on another
  thread (`ClientSession.cpp:47`);
* a body read whose error is not looked at, and a parser whose verdict is not
  either (`ClientSession.cpp:105-112`);
* references to a pool that its own threads hold (`AsyncContext.h:33`).

`PROJECT.json` lists these hazards one by one, each with the properties that would
catch it, or with a note that says why none does: because the properties name it
as an exception, or because it lies outside of what is modelled.

What makes each component correct:

* **Users** - an answer names an account that exists, of that login and password;
  one account per login; a client that was told its id is known to the server;
  a session receives only for users it logged in as.
* **Channels** - the members in memory, the members in the table and the answers
  given agree, across restarts; nobody is a member without having asked.
* **Chat** - texts and histories reach members only, a history shows what was
  sent, and what was echoed is stored.
* **Queue** - FIFO, each task once, no lost wakeup, shutdown ends.
* **Pool** - the counter means something, shutdown leaves nobody running.
* **Session** - the engine gets what the client sent, once, and gets to all of
  it; a connection that breaks inside a body spoils at most its last request.
* **Socket writer** - responses leave, whole, in order, from live buffers.
* **The whole** - a request is answered once, on its own connection; what one
  connection was told holds for the requests that are sent after it.

## 2. Modules

| Module | Models | Builds on |
|---|---|---|
| `Users` | `reg`, `auth`, `UserManager`, table `clients`, life of the process | - |
| `Channels` | `joinRoom`, `ChannelsManager`, `Channel`, tables `channels` and `subscriptions` | EXTENDS `Users` |
| `Chat` | `sendText`, `getHistory`, `getChannels`, table `history` | EXTENDS `Channels`, INSTANCE `Storage` |
| `Storage` | the in-memory store, what the engine expects of any store (abstract) | - |
| `WorkQueue` | what a task queue promises (abstract) | - |
| `TaskQueue` | `ThreadSafeQueue` | INSTANCE `WorkQueue` |
| `SocketWriter` | `SocketWriter::write`, `writeImpl_`, completion | EXTENDS `WorkQueue` |
| `WorkersPool` | `WorkersPool`, `AsyncContext::runAsync` | - |
| `Session` | `doAccept`, `runRead`, `processRequest`, shutdown of `main` | EXTENDS `WorkersPool` |
| `RequestReply` | what the server promises to its clients (abstract) | - |
| `Gateway` | the way of a request and of its answer through the server | EXTENDS `Session`, INSTANCE `Users`, `SocketWriter`, `RequestReply` |
| `UsersProofs`, `ChannelsProofs`, `ChatProofs`, `TaskQueueProofs`, `WorkersPoolProofs`, `SessionProofs`, `SocketWriterProofs`, `GatewayProofs` | theorems | the module they are named for |
| `MC*` | small instances | one each |

The three modules about data form a chain.  `Users` has one variable per piece
of state and, for each worker, the call it executes (`uc[w]`, a record with a
program counter).  `Channels` adds a second kind of call (`cc[w]`); a worker
executes one call at a time.  `Chat` adds calls that share the channel lookup of
`Channels` and continue from the point `"resume"` where it returns.

The modules about concurrency meet at `WorkQueue`: `TaskQueue` is shown to
implement it, `SocketWriter` is built on it.  `Session` is built on the steps of
`WorkersPool` (a request is a task) and ends where the engine is called.

`Gateway` joins the two halves.  Thread *t* of the pool is worker *t* of `Users`:
the step of `Session` that calls the engine (`Handle`) is also the request of
`Users` (`Reg`, `Auth`), the step of `Users` that gives the answer is also a `Write`
of `SocketWriter`, and a task of the pool ends only when its answer was given.
Its actions are conjunctions of the actions of the parts, the failed queries of
`Users` and the clients of `SocketWriter` that stop to read included; what it adds
is which request a response answers (`answers`), what a client had heard when it
sent a request (`heard`), whose push met another (`contended`) and whose query
failed (`failed`).  Texts and joins take the same way; `Gateway` carries only
`reg` and `auth`, the two that bind a connection to a user.

`Chat` is compared with `Storage`: through a mapping of the tables to its maps,
`ActsAsStorage` says that every step is one operation of `Storage` or none, and
that answers are those of its queries, until calls overlap.

### Correspondence with the code

**Atomicity.** A call is cut at every SQL query, at every access to memory that
other threads write, at every hand-over to another thread and at every mutex
that is held across such a point.  Everything between two cuts touches nothing
that another thread sees.

**Data races.** `idClients_` and `idUsers_` have no mutex.  Two accesses conflict
when both are the next step of their workers and one writes; then a write may be
lost, and a reader may miss an entry or, when it iterates, stop early.  Which
entries were exposed is recorded (`racedIds`, `missing`), so that the properties
can name the exception.  The other outcome of such a race, the end of the
process, is `Crash`.

**Store.** Row *i* of a table has id *i* (`serial`; gaps after a failed INSERT are
left out).  A `SELECT` without `ORDER BY` returns any matching row.  Any query
may fail, up to `MaxErrors` times; the model then does what the method does: 0
for ids (`SelectId`), an empty set or string, an exception from `hasChannel`,
nothing for a failed INSERT.  The tables survive a crash.  `addMsgHistory` sends
its INSERT without the mutex of the connection: while another query runs
(`Clash`) the INSERT may be lost; what it does to the other query is one of the
failures that `MaxErrors` bounds.

**Sets for tables.** `subscriptions` and `history` are sets of rows, as no reader
tells a duplicate row from one.

**Failures of `boost::format`.** Two log messages feed too many arguments to a
format and throw (`WrapperPg.cpp:322` after a successful INSERT into
`subscriptions`, `QueryEngine.cpp:105` in `getChannels`).  Both come after the last
effect of their call, so the end of the call in the model (`EndCall`) stands for
the normal return and for the exception; what the exception does to the pool is
`Throw` of `WorkersPool`.

**Boot.** A failed `connect` ends `main`: the server stays down.  `CBoot` loads
every channel and its members; the server stays down when a stored channel has no
name (the constructor of `Channel` throws).  When the query of the channels fails,
`getCurrentChannels` logs it and returns an empty map (`WrapperPg.cpp:410`): the
server is up without its channels.  When the query of the members of one channel
fails, that channel is up without members.

**Always true in the program**, hence not modelled as alternatives: a weak
pointer to the store or a manager can be locked while the process is up; a
session can be, as `sessions_` never shrinks; `isConnected` is true after `main`
has connected.

**Queue.** The mutex is held across two actions only between the predicate of
`cv_.wait` and the moment the thread blocks, the one place where a thread that
takes no mutex (the destructor) can interfere.  `notify_one` wakes any waiting
thread; spurious wakeups are modelled.  `quit_` is taken to be false before
`start` resets it.

**Pool.** `handlers` is the queue of the `io_context`; `owning` and the places
`holding` of threads are the references to the context; the thread that drops
the last one runs the destructor (`destroyer`), and one that would join itself
ends the process (`pool = "aborted"`).

**Session.** A request of a client is a header and a body; a connection may break
at any time, also inside a body.  `ReadBodyError` posts what a failed read leaves:
the buffer, resized, holds what came of the new body and behind it the rest of the
previous one, or zeros; the parser may refuse that and nobody looks, and the fields
it has set until then stay.  So the request is the previous one, or one that no
handler accepts (`NoBody`), or one that nobody sent: a member of `Mixtures`, the
bodies of each kind numbered 0.  What such a body says does not matter to any
property, only that it is nobody's.  After a failed header read the coroutine reads
again at once; it changes nothing.  Neither does an accept that fails.
`NetworkEnds` is an exception of a handler of the network: `main` destroys the
sessions while tasks of the pool still hold plain pointers to them
(`HandleDangling`).

**Socket writer.** Responses are numbered as pushed.  `async_write` is a loop of
partial writes.  `StartWrite` locks `mutexSocket_` and makes the first attempt on the
thread of the queue: the socket takes all of the response, a part or nothing
(`Takes`).  What is left waits in the reactor (`write = "waiting"`, `part` names the
response of which a part has left) while the task that owns its buffer may end
(`EndTask`); the thread of the network sends it, in parts again
(`ProceedInPart`) or to its end (`Proceed`).  How many parts there are makes no
difference, so one is kept.  `rested` are the responses that the first attempt did not
send to their end.  A part may be taken of the responses in `Long`: of all of them in
`socket_writer`.  The mutex is unlocked by the completion handler on another thread,
taken to work as the mutex of the platform does.  Shutdown is left out.

**The whole.** In `Gateway` a client leaves, or stops to read, only while it awaits an
answer (`AwaitsAnswer`): before that and after it nobody writes to it, so the moment
makes no difference to the server.  The server is up throughout, queries may fail.

**History variables** (`told`, `asked`, `acked`, `sent`, `echoed`, `shown`, `listed`,
`overlapped`, `overlappedNames`, `missing`, `racedIds`, `clashed`, `finished`, `lost`,
`posted`, `ended`, `thrown`, `torn`, `together`, `rested`, `heard`, `contended`, `failed`)
record what happened; no guard of a code step depends on them, except that a new task must be one not used
before.

## 3. Runs

Passing runs.

| Run | Shows | Instance |
|---|---|---|
| `users` | What an answer to `reg` or `auth` promises, and when a login can have two rows or two passwords | 3 workers, 2 sessions, 2 logins, 2 passwords, 3 calls, 1 failed query, 1 crash |
| `channels` | Members in memory, in the table and acknowledged agree up to named exceptions; only who asked, and is a client, is a member | 2 workers, 2 logins, 2 names, 4 calls, 1 failed query, 1 crash |
| `chat` | Who receives texts and histories, that these show what was sent, and that the tables change as `Storage` would | starts with two users in a channel; a third login, 2 more calls, 1 failed query, 1 crash |
| `chat_live` | Every call finishes; a first join is answered; joins and echoed texts are stored in the end | the same start, 2 calls, names `news` and `tech`, 1 failed query |
| `task_queue` | `ThreadSafeQueue` implements `WorkQueue`, with its liveness; no lost wakeup; shutdown ends unless the notification falls before a wait | 4 tasks, 4 threads |
| `session` | Requests reach the engine as sent, once, and in the end (a torn connection may repeat its last request, or have the engine run one nobody sent, as its last); none runs after the shutdown | 2 sessions, 2 requests in all, up to 4 tasks, 2 threads |
| `socket_writer` | Order, wholeness, life of buffers and progress of responses | 2 clients, 3 responses, each of which may leave in parts, 2 queue threads, 2 times that a client stops to read or leaves |
| `gateway` | Every request is answered once, on its own connection (`RequestReply`), and in the end, up to named exceptions; the answers of two connections agree with one another | 2 clients, 2 requests, 2 pool threads, 1 queue thread, 1 fault: a failed query or a client that stops to read or leaves |

Runs that TLC answers with a counterexample.

| Run | Disagreement |
|---|---|
| `users_overlap` | Two overlapping registrations of a login with different passwords are both answered with an id, though `reg` says that a login that exists is refused (`QueryEngine.cpp:42`). |
| `channels_empty_name` | The row of a channel is inserted before its name is checked (`ChannelsManager.cpp:77`, `Channel.cpp:18`): an empty name stays in the table and every later start fails. |
| `chat_broadcast` | `Channel::write` moves its buffer into the first of its writes (`Channel.cpp:130`): later recipients get an empty message. |
| `pool_from_task` | In the scenario of the test `simpleTwoTaskFromPrev` (`src/test/test.cpp:72-92`) a pool thread may drop the last reference to the context and join itself. |

`DuplicateLoginNeedsOverlap`, `OnePasswordPerLogin`, `DuplicateChannelNeedsOverlap`,
`StoredMembersHear` and `AckedMembersHear` hold only up to exceptions that the
code really has: overlapping calls, a failed query, a race on a map without a
mutex.  `StaleBufferNeedsRest`, `ShutdownEnds` and `ResponsesLeave` are of the same
kind: they say under which condition alone the hazard bites.  So are `JoinIsAnswered`
(a repeated join is not answered again, `Channel.cpp:47`) and, in `gateway`,
`LatestLoginIsBound`, which speaks of a login sent after all others of the name were
answered: logins that overlap may bind either connection.  It also leaves out a login
whose own write to `idClients_` met that of another user and may be lost; that takes
two users, which only the theorem covers.  `RegisteredIsAccepted` leaves out an
authorisation a query of which failed (`checkAuthUser` then returns 0 and the client
is refused, `WrapperPg.cpp:165`) and logins whose registrations overlapped or had a
query fail; `RequestsAreAnswered` a client that has left or reads no more, and the time
in which all threads of the queue hold responses to such clients
(`ClientSession.cpp:36`); `CallsWereSent` the last request of a connection that broke
inside a body.

### Bounds, and why they are enough

* *Workers*: every race in the code is between two calls; `users` has a third
  worker, so that a call may begin while two others race.  The theorems hold for
  any number.
* *MaxCalls*: three calls are two that overlap and one that comes after and sees
  the result; four in `channels` allow two registrations and two joins, or a join
  before and one after a restart.
* *MaxErrors, MaxCrashes = 1*: every step of a call can be the one that fails,
  every point between two steps the one at which the process dies; a second
  failure in the same call follows the same code.
* *chat* starts from `Chatting`, the state after two registrations and two joins,
  so that its calls are spent on texts: a reachable state of `HSpec`.
* *chat_live* has one failed query, so that calls that throw are among those that
  must finish and leave the mutex to others; `JoinIsStored`, `JoinIsAnswered` and
  `EchoedIsStored` except it.  A crash would only end the calls.  The constructor of
  `Channel` throws here after a failed INSERT; empty names are left to
  `channels_empty_name`.
* *Tasks and threads* of the queue: as many threads as the server starts, so that
  some work, some wait and one is about to.
* *session*: the pool takes 4 tasks, 2 requests and 2 repeats of a torn
  connection; the kind of command is one, as `processRequest` treats all alike.
* *socket_writer*: with two faults both threads may be held by clients that do
  not read, or one connection stall twice; three responses are two that hold the
  threads and one that waits for them, or three that race for one socket.
* *gateway*: two requests, of one connection or of two, are what its properties
  compare; a login and a password are enough for `reg` then `auth`, two `auth`s and
  a refusal.  `MaxFaults` bounds failed queries and faults of clients together: one is
  enough for each exception of its properties.  One thread of the queue is what one
  client that reads no more can hold, and then the other client is not answered;
  threads of the queue that overtake one another are left to `socket_writer`, and so
  are responses that leave in parts (`Long = {}`); the theorems cover both.  Pairs of
  overlapping registrations are left to `users`, broken bodies and shutdown to
  `session`.

Symmetry (of workers, sessions, passwords, logins, names) is used in `users`,
`channels` and `chat`, which check no liveness; no step tells the permuted values
from one another.

`CHECK_DEADLOCK FALSE` in every configuration: a behaviour whose bounded requests
are used up has nothing left to do, and a shut down queue or pool stops.
That nobody waits for ever is what the liveness properties say.

### Fairness

A thread that can run does: weak fairness for the steps of each pool thread
inside a call (`UserStep`, `CStep`, `HStep`, `RequestStep`), of each thread and of
the owner of the queue (`ThreadStep`, `OwnerStep`), of the completions in the
network thread (`ReadStep` per session, `NetworkStep` per client).  The operating
system schedules all of them, and each is the only one to execute its steps.
There is no fairness for requests, pushes, `Quit`, boots, crashes, failures,
spurious wakeups, or for anything a client does.

`GSpec` of `Gateway` has one weak fairness, of `ServerStep`, the union of the steps of
all server threads.  It is weaker than one per thread; it suffices because the
server has finitely many steps to take for finitely many requests, so that none
of its threads can keep the others from theirs for ever.

Weak fairness suffices for the mutex of the channels: a thread that waits for it
is enabled again whenever it is free, and in the bounded runs the holder changes
finitely often.  An unfair mutex under endless load is not covered.

## 4. Theorems

All are checked by TLAPS without assumptions other than the named ones on the
constants: the bounds are naturals (`BoundsAssumption`); ids are naturals and
`NoWorker` is no worker (`RequestAssumption`); sets of threads and tasks are finite
and the null values are not members of the sets they stand beside, `Long` is a set of
responses
(`QueueAssumption`, `PoolAssumption`, `SessionAssumption`, `WriterAssumption`); the
commands of `Gateway` are `reg` and `auth`, there is a connection, and the queue has a
thread (`GatewayAssumption`).

`UsersProofs`, for any workers, sessions, logins, passwords and bounds:

* `TypeCorrect` and `ToldStored`.  Types alone are not inductive, since a call
  carries an id from one query to the next; `Inv1` adds `CallOK`: the id that a
  call holds is a row of its login, with its password if `auth` found it.
  It is stable because rows are only ever appended (`TableGrows`).
* `DuplicatesNeedOverlap` and `PasswordsAgree` from `Inv3`: for every login that
  is not in `overlapped`, at most one call is about to insert it, the table has
  no row of it then (`OneRow`), and every call past its queries and every answer
  given holds the password of the one row there is (`RowPassword`).  The central
  case is `InsertInv3`: the insert makes the first row, and no other call of the
  login can be about to make a second.
* `ToldKnown` from `Inv4`, which adds that what is about to be told is already
  in the map, or raced, and that a process that is down has told nothing in its
  present incarnation.
* `BoundIsTold`, inductive relative to `Inv1`.

`TaskQueueProofs`, for any tasks and any finite set of threads:

* `QueueTypeCorrect` and `NoLostWakeup` from `TQInv`, the
  conjunction of the types, `Locking` (the mutex is held across steps exactly by a
  thread that is about to block, and then the queue is empty; work left in the
  queue means a thread that is awake) and `OnePlace` (a task is queued once,
  executed by one thread, or finished).
* `QueueImplementsWorkQueue`: the initial state maps to the initial state
  (`InitRefines`) and each step to a step of `WorkQueue` or to a stutter
  (`NextRefines`).  `OnePlace` is needed there, since the abstract set of active
  tasks loses its task only if no other thread executes it; `RoomToBegin` counts
  that a thread that takes a task leaves fewer active tasks than threads.

`ChannelsProofs`, for any workers, logins, names and bounds, restarts included:

* `ChannelsTypeCorrect`, `MembersAsked` and `MembersAreRows` from `CInv`, which
  carries `Inv1` of `Users` along and says of each call, also of one of `Chat`, what
  it holds (`CallFits`: an id it goes on with is a row of its name, a Channel it goes
  on with is one of that name), of each Channel and each row of `subscriptions` that
  its members asked and are clients (`ObjectsFit`, `RowsFit`), and of `idChannels_`
  that its keys are rows and its values Channels of the same name (`RegistryFits`).
* `DuplicatesWereFound` from `MInv`: for a name outside `overlappedNames` there is
  at most one creator, no row until it has inserted one, and never two.
* `StoredHear` and `AckedHear` from `RegistryHeld` and `HInv`.  The properties speak
  of the Channel that is handed out; that is of no use in a step unless the calls in
  hand agree with it.  `CallHears` says so: a creator finds no Channel handed out, a
  call past its lookup holds the very Channel that is, a Channel about to be
  registered has all stored members.  Two steps need it most: a creator registers
  (its id, read back by name, is that of the one row, by `OneChannel`), and a loader
  registers (nobody else did meanwhile, by the mutex: `RegistryHeld`).

`ChatProofs`, for any workers, logins, names, ids, times and bounds, restarts included:

* `ChatTypeCorrect`, `OnlyMembersHear`, `HistoryWasSent`, `ListedWereWritten` and
  `TextsHaveChannels` from `ChatInv`.  Every step of `Chat` keeps `CInv`: a step of a
  join is one of `Channels`, a step of a text or a read moves one call and touches no
  table of `Channels`.  `ChatInv` adds what a call of `Chat` carries besides
  (`TextFits`): the text it was asked to send, the recipients it has from the members
  of a Channel, the channel whose history it may read since it saw the client among the
  members.  Both outlive the locks they were looked up under.  Rows, answers and deliveries go back
  to a request each (`RowFits` and its like), and requests and rows are never removed
  (`ChatGrows`), which makes those facts stable under all other steps.

`WorkersPoolProofs`, for any tasks and any finite set of threads:

* `PoolTypeCorrect`, `CounterIsExact` and `NothingAfterJoin` from `PoolInv`: a task
  waits once, or runs on one thread, or is over (`TaskPlaces`); who destroys the pool
  holds the last reference (`PoolLife`); the counter is the number of tasks posted
  that have not returned (`Counting`).

`SessionProofs`, for any connections, commands, threads and number of tasks:

* `NoRequestAfterJoin`: every step of `Session` is, for the variables of the pool,
  one of the pool or a stutter (`PoolStep`), and so keeps `PoolInv`.
* `SessionTypeCorrect` and `OnlySentIsCalled` from `NetInv`: what lies in a line was
  sent by that client (`LineOK`), and so was the body of each job, also of one made
  from an old buffer, unless it is the last job of a torn connection (`JobsOK`): its
  line is then empty for good.
* `AtMostOneRepeat` from `OrderInv`.  Requests are numbered as they are sent.  While
  the broken body of a torn connection is not read (`Reading`), the buffer is the
  last request read and every task its own request; afterwards (`Repeated`) one task
  may be a copy, of the last request that was sent.

`SocketWriterProofs`, for any clients, responses, threads and faults:

* `WriterTypeCorrect`, `ReorderedWereTogether`, `StaleBuffersAreRests` and
  `ResponsesAreWhole` from `WInv`.
  Order in the queue does not give order on the wire: `BeganInOrder` says that a task
  which begins when an earlier one has not finished is together with it, and
  `SentInOrder` that what a socket sent, or holds, comes behind what is younger only
  then.  Of the buffers: a write that waits is the rest of a response in `rested`
  (`RestWaits`).  Of the parts: the response of which a part has left, if it can still
  go on, is the one that waits and holds the mutex (`PartWaits`), so that no other can
  start before its end.

`GatewayProofs`, for any connections, requests, threads of the pool and the queue, any
number of queries that fail and of clients that leave or stop to read, and responses
that leave in parts:

* `AnsweredOnce`.  Every step of `Gateway` is, for the variables of each part, a step of
  that part or a stutter, so that the invariants of `SessionProofs`, `UsersProofs` and
  `SocketWriterProofs` hold of the whole (`PartsInv`).  They say nothing of one another;
  `LinkInv` does: a request has one number and one task, a task is called or refused
  once, a thread inside the engine works for the task it executes, which has no
  response yet (`WorkFits`), a response goes where its task came from and is the only
  one of it (`AnswersFit`), and is sent once (`SentOnce`).  With it, each step is a step
  of `RequestReply` or a stutter: the step that counts is an attempt of `async_write`,
  made by a thread of the queue or, for what the first one left, by the network.
* `RegisteredAreAccepted` from `AccountsInv`: what a client has heard was answered, an
  account that was answered is a row of the login and password asked for, and who is
  about to be refused had a query fail, or found no such row when it looked, so that no
  registration it had heard of was answered (`NoAccountBefore`).
* `LatestLoginsAreBound` from `BindingInv`.  The point is that a binding stays
  (`BindingStays`): only a call that pushes the same id could change it, that call is
  for the same login, its request is not answered, and the latest request has heard all
  others answered (`OnlyCall`).  The theorem covers more than the run, which has one
  login and so no push that meets that of another user.

Only model-checked: every liveness property (`ChannelCallsFinish`, `JoinIsStored`,
`JoinIsAnswered`, `EchoedIsStored`, `ShutdownEnds`, `EverySentIsRun`,
`ResponsesLeave`, `RequestsAreAnswered` and the fairness part of
`ImplementsWorkQueue`), which are out of reach of the installed provers; and for the
time being the comparison of `Chat` with `Storage` (`ActsAsStorage`).

## 5. Not modelled

* `getChannelUsers`, `getChannelId` and `getCurrentChannels` of `Storage`, which
  are stubs, and its `getUserNameChannels`, a query that `WrapperPg` answers from
  other data (the channels in which the user has written).
* Logging, option parsing, settings, protobuf and the wire format: no state that
  the rest depends on.  What a badly formed log message throws is modelled.
* `has` and `get` of `ChannelsManager`: never called.
* A second attempt after a failed `connect`: there is none, `main` ends.
* The threads of the write queue after `main` has destroyed the sessions: they
  hold plain pointers to socket writers and run on what is gone; from the first such
  access on nothing is defined.
* Undefined behaviour beyond what section 2 says: a data race has one of the
  outcomes named there, a dangling session one of those of `HandleDangling`.
* Texts and joins in `Gateway`: together with the queries of `Chat` they are out of
  reach of TLC at bounds that say anything.

## 6. Plan

Done, in this order: `Users` and its theorems, `Channels`, `Chat`, `WorkQueue` and
`TaskQueue` with theirs, `WorkersPool`, `Session`, `SocketWriter`, `Storage`,
`RequestReply`, `Gateway`; the theorems of `WorkersPool`, `Session`, `SocketWriter`,
`Channels`, `Chat` and `Gateway`.

Next: `ActsAsStorage` as a theorem.  Its exception, that no calls overlap, has to be
carried from the query to the answer; `MInv` gives one row per name of a channel, and
`Inv3` one per login.
