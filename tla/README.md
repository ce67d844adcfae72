# A verification of webcc20200813

`src/` holds an HTTP server (the C++ library `webcc20200813/`), a demo built on
it (`webccDemo/`), and the pages the demo serves (`htmlRoot/`). This directory
models the parts of it that are hard to get right by testing, checks them with
TLC and proves the most important facts about the server core with TLAPS.

All paths below are relative to `src/`; `server.cc` and the like are in
`src/webcc20200813/`.

## 1. The system

| component | source | state | operations | modelled by |
|---|---|---|---|---|
| server lifecycle | `server.cc`, `server.h` | `running_`, `state_mutex_`, `acceptor_`, `signals_`, `io_context_`, `worker_threads_` | `Run`, `Stop`, accept handler, signal handler, `DoStop`, `StopWorkers`, `WorkerRoutine` | `WebccServer` |
| connection | `connection.cc` | `socket_`, `request_`, `response_` | `Start`, `DoRead`/`OnRead`, `SendResponse`, the write chain, `Close` | `WebccServer`, `ConnectionProtocol` |
| connection pool | `connection_pool.cc` | `connections_` under a mutex | `Start`, `Close`, `Clear` | `WebccServer` |
| message queue | `queue.h` | `message_list_`, mutex, condition variable | `PopOrWait`, `Push`, `Clear`, `Size` (`Pop` has no caller) | `WorkQueue` (what it promises), `MessageQueue`; a sequence in `WebccServer` |
| request parser | `parser.cc`, `request_parser.cc` | pending data, flags, `chunk_size_`, `step_`, `form_parts_` | `Parse` and its loops, `Init` | `RequestParser` over `HttpStream` |
| sessions | `sessionSupport.cpp`, `sessionInfo.cpp`, `server.cc` 315-351 | `m_si`, `sessionIndex`, `m_mutexRW`; the browser's cookie | `parseReq`, `getSessionInfo`, `checkTimeout` | `Sessions` |
| login views | `webccDemo/webccDemo.cpp` 182-251 | `session["username"]` | `onLogin`, `onLogout`, `onGetInfo` | `Sessions` (their effect on the session), `MainPage` (their answers) |
| user administration | `webccDemo/fakeDB.cpp`, `webccDemo.cpp` 253-364 | the user list | list, add, edit, delete (and exists, which changes nothing) | `UserAdmin` |
| user list page | `htmlRoot/controller/userListController.js` | `$scope.listUser`, calls under way | clicks and the callbacks of their answers | `UserAdmin` |
| login page and main page | `htmlRoot/index.html`, `main.html`, `controller/config.js`, `mainController.js`, `warningController.js` | the document, `g_user`, `g_user_authority`, route and `$scope`, the sockets of the warnings, `warningList` | submit, load, reload, change of route, callbacks of `getInfo.do` and of the lists, messages of the sockets | `MainPage` |
| user group page | `controller/userGroupController.js` | its list and buttons | the list and its callback | `MainPage` |
| upload view | `webccDemo/webccDemo.cpp` 36-63, `request.cc` | the files it stores | store the part named "file" | `Dispatch` |
| URLs, router, strings | `url.cc`, `router.cc`, `string.cc` | the route table | parsing, encoding, matching | `Url`, `Dispatch` |
| static files | `server.cc` 358-411, `utility.cc` | the file system | `MatchViewOrStatic`, `ServeStatic` | `Dispatch` |
| responses and bodies | `response*.cc`, `body.cc`, `message.cc` | Content-Length, position in the body | `SetBody`, `InitPayload`, `NextPayload` | `Dispatch`; a number of payloads in `WebccServer` |
| client side, base64, gzip, logger, other pages, vendored assets | | | | not modelled, see section 8 |

How they interact. The caller of `Run()` starts the worker threads and the loop
threads and joins the latter. A loop thread runs the handlers of asio: an accept
makes a `Connection` and gives it to the pool, which starts its first read; a
read feeds the parser; a finished request goes, as a shared pointer to its
connection, through the queue to a worker; the worker finds or makes the
session, calls the view and starts the write, whose completion is again a
handler of a loop thread and starts the next read or closes the connection.
`Stop()` in any thread, or a signal in a loop thread, closes the acceptor, drops
the queue, sends one null connection through all workers, joins them, closes the
pool and stops the event loop. A timer thread expires sessions once a second.

What is hard in it:

* a connection passes from thread to thread without a lock of its own: it is
  safe only as long as it is in one place at a time (`OneOwner`);
* `Stop()`, the signal handler and the handlers in flight interleave; two of them
  can run `StopWorkers()` at once and join one `std::thread` twice; `Run()` can follow a stop, and asio keeps the
  handlers that were ready when the loop was stopped;
* the shutdown of the workers is a chain: one null message, passed on by each;
* the parser sees the stream cut at any byte, and is used again for the next
  request of the connection;
* the session table is shared by workers, looked up once without and once with
  its lock, and expires in between; cookies outlive the process;
* the page of the demo sends a call for each click and changes its list when the
  answer comes, and answers overtake each other;
* the main page is put together from answers that come in any order, while the
  session may become another user's, and each visit of the warnings leaves a
  socket open whose callbacks share one list with those of the next;
* what a request asks for is looked up by the parser and again by a worker, and
  the length of a file is announced before the file is read.

What makes each component correct is the list of properties in section 5, and
`PROJECT.json` lists under `hazards` the lines where each difficulty bites,
with the properties that cover it or the reason none does.

## 2. The modules

    ConnectionProtocol      what one connection is promised (abstract)
         ^  ImplementsProtocol, ServesProtocol (refinement: Phase)
    WebccServer             server + connections + pool + queue + threads
         |  MCWebccServer   model values
         v  UsesWorkQueue (refinement)
    WorkQueue               what the queue promises (abstract)
         ^  ImplementsQueue (refinement)
    MessageQueue            the queue's mutex and condition variable in detail
         ^  MCMessageQueue
    HttpStream              the bytes clients send (protocol, not code)
    RequestParser           the parser over those bytes
         ^  MCRequestParser the streams
    Sessions                session table, expiry, browsers, login, restarts
         ^  MCSessions
    UserAdmin               users, the views that change them, and their page
         ^  MCUserAdmin
    MainPage                login, main page, its lists and its warnings
         ^  MCMainPage
    Url                     strings of URLs: parsing, encoding, parameters
         ^
    Dispatch                from a matched request to the bytes of its response,
         ^  MCDispatch      and the files that uploads store

    WebccServerProofs       types, one owner per connection, use of WorkQueue;
                            workers serve, an accept stays alive, no connection is
                            lost; ConnectionProtocol; what one loop thread adds:
                            CloseIsKept, HandledIsPooled, StopClosesAll
    MessageQueueProofs, SessionsProofs, MainPageProofs
    SequenceLemmas          induction, flattening, strings read from left to right
         ^  RequestParserProofs, DispatchProofs, UserAdminProofs

The composition is `WebccServer`: server, connections, pool, queue and workers
are one module, because nearly every handler changes the state of several. It
uses two facts that other modules establish in detail. That the queue is a
sequence of which some waiting worker takes the head: `WorkQueue` says so,
`MessageQueue` implements it with the mutex and the condition variable, and
`WebccServer` uses it in no other way; both are checked and both are proved. That a read leads to a finished
request, to another read or to a 400 is what `RequestParser` shows of `Parse()`.
`Handle()` is one step of `WebccServer`; what it does to the sessions is
`Sessions`, how it finds a view or a file and what is then written is `Dispatch`,
and what the views of the user administration do is `UserAdmin`. `MainPage` has of
the session only the name in it and lets it change at any moment.

Every `CONSTANT` with a `Max` in its name is a bound and appears only in guards
(and `Ids` of `Sessions`). A definition whose comment starts with "Mutant:" is a
plausible bug, with the same parameters as the definition that follows it: it is
not part of `Next`. Put in its place, it makes TLC refute the property that
`PROJECT.json` pairs with it, which is how each property is known to be able to
fail.

## 3. State and actions, and the code

### WebccServer

A step is what one thread does between two points at which another thread can
get in: the release of a mutex, the return to the event loop, a wait. `pc[t]`
says where thread `t` is and `cur[t]` which connection it holds there.

| actions | code |
|---|---|
| `Run`, `RunRefused`, `RunNotListening`, `RunReturns`, `LeaveLoop` | `Server::Run` 33-91, with `Listen` 123-160 |
| `OnAccept`, `AcceptDropped`, `OnAcceptAborted` | the accept handler 162-185 |
| `PoolInsert`, `ConnectionStart` | `ConnectionPool::Start`, `Connection::Start`, and the re-arming of the accept |
| `OnReadMore`, `OnReadFinished`, `QueuePush`, `OnReadBad` | `Connection::OnRead` 112-131 |
| `OnError`, `OnAborted` | `OnRead` 92-110, `OnWriteError` 190-196 |
| `DoWriteBody`, `OnWriteOK` | the write chain, `connection.cc` 134-188 |
| `PoolErase`, `ConnectionClose` | `ConnectionPool::Close`, split where the mutex is released |
| `Pop`, `Handle`, `PassNull` | `WorkerRoutine` 207-225, `Handle` 258-356 |
| `CallStop`, `OnSignal` | `Stop` 93-97 (under `state_mutex_`), the signal handler 112-121 (not) |
| `CloseAcceptor`, `ClearQueue`, `PushNull`, `JoinWorkers`, `DrainQueue`, `ClearPool`, `FinishStop` | `DoStop` 187-205, `StopWorkers` 227-256 |
| `JoinThread`, `JoinTwice`, `ThreadJoined`, `ClearThreads`, the four of `JoinWorkers` | the loop over `worker_threads_` and its `clear()`, 241-249 |
| `ClientConnects`, `ClientSends`, `ClientReceives`, `ClientCloses`, `Signal` | asio and the peers (external) |

asio is modelled by what the code relies on: an operation that was started
completes once, with success, an error or (when its socket is closed under it)
`operation_aborted`; handlers run in loop threads; `stop()` keeps ready
handlers, and they run after `restart()`. `op[c]` and `res[c]` are the kind and
the result of the one operation of connection `c`. Model values of `Conns` are
sockets and are used once: a connection that was closed does not come back.

`threads` has the threads of `worker_threads_` that are joinable. Workers are alike
here, so it does not matter which of them a stop is waiting for: one stop at a time
may be inside `join()` (pc "joining"), and it comes back when one of them has ended.
A second stop that is in the loop meanwhile starts at the front of the same vector, meets
the thread that is being joined, which is still joinable, and joins it again
(`JoinTwice`). That is an error of `std::thread` which throws, nothing catches it, and
the process is over: `Ended`, after which no step is taken. If the second stop comes when
all have been joined it goes through and clears the vector; that the first may then
still be walking it is undefined in C++, and is modelled as the harmless case, its walk
ends.

The server is followed as a release build: `assert(worker_threads_.empty())` in
`Run()` is compiled out. The caller respects asio's rule that `restart()` is not
called while threads are still leaving `run()`.

### MessageQueue

`Push` releases the mutex before `notify_one()`, so they are two steps;
`PopOrWait` is one step of taking or one of blocking; a waiting thread may wake
spuriously. `StopWorkers()` is there again in the steps that matter to the queue
(`Size`, `Clear`, push, join, `Clear`), one stopper, workers and pushers.

`WorkQueue` has the list and the set of threads that call for a message: `Put`,
`Take` (by one of them, which goes on or is back at once), `Empty`, `Come`. In
`MessageQueue` those that call are the workers inside `PopOrWait()`, blocked or
not; in `WebccServer` the workers that wait.

### RequestParser

Bytes are pairs of a name and a number, and a token whose inside never matters
(a start line, a header, a chunk size, a boundary) is one byte: the stream can be
cut before it, after it, and between the CR and the LF that follow it. Data may
contain a CR LF, a chunk-size lookalike, a boundary within a line, or a line that
has the shape of the final boundary. One action is one iteration of a loop of
`Parse()`; `pc` goes from `reading` to `headers` or `content` on a `Read`, and a
call of `Parse()` ends when it leaves these two. `chunk_size_ + 2` is computed
modulo `2^SizeBits`. `NextRequest` is `Init()`, with exactly the fields that
`Reset()` resets.

### Sessions

`Find` is the unlocked `find()` of `parseReq()`: while another worker inserts
(`lock # NULL`), or the timer erases a session that is due (`Expiring`), it may miss a
live id. That is all that is modelled of this race; `find()` on a `std::map` that changes
under it is undefined in C++ and could do worse. `LockTable` and `NewSession` are the
creation; `GetSessionInfo`, `Login` and `Logout` the views; `Tick` is one second
of `checkTimeout()`, possible whenever the lock is free. `down` says that the
process died. `due[b]` is history: the user name that, from the responses it got,
browser `b` has to believe its session has (`Unsure` after a lost response).
`carried` has the cookies (browser and id) that are from before a restart; it keeps
them, so a browser that is later given the same number anew stays excepted for it.
A browser has one request in flight at a time.

### UserAdmin

A call is a record that goes from `sent`, through `Serve` (one view and one
operation of `FakeDB`, one step because `main()` starts one worker), to `answered`,
and is used by its callback or lost. A row has an `object` besides its fields: two
lists hold different JavaScript objects, and `indexOf(row)` compares those.
`Splice` is `splice(indexOf(row), 1)`, also for -1 (`SelectInSeq` is 0 then, and the
last row goes). The pages are those of an
administrator (`isEditable` is 1). `Patient` pages wait for the answer before the
next click. `added`, `edited` and `lost` are history. `FakeDB` starts with fewer
users than in the code and `IdBits` is small, so that the ids stay small.

### MainPage

A browser runs one callback at a time, so a callback is one step; calls are
records in `calls` that are answered (`Serve`), used by their callback
(`Callback`) or lost (`Lose`), in any order. `LoadMain` is what the scripts of
`main.html` do when it is loaded at a route: block, ask for the user, start the
controller of the route. A new route is a new `scope`; the callbacks of the calls
of the old one are dropped from `calls`, for they write to a `$scope` nothing
shows. Its sockets stay: `wire[s]` is what is on its way to the socket that
scope `s` opened, and `OnMessage` appends to the shared `warningList` only for the
scope that is alive, since in angular 1.6.5 `$apply` of a destroyed scope does
nothing. A warning that arrives for another is dropped. A login that was sent
from a page that was left may still be served (`oldLogin`). `clicked`, `changed`
and `lost` are history.

### Url and Dispatch

`Url` gives each function of `url.cc` an operator over sequences of character
codes. `Dispatch` follows one request: `OnHeadersEnd` (`request_parser.cc` 24-39,
`server.cc` 358-380), `HandleView` or `ServeStatic` (`server.cc` 258-411),
`OnWriteHeaders`, `WriteFileChunk`, `WriteString`, `OnWriteOK` (`connection.cc`
144-188, `body.cc` 58-68 and 183-206), with `Overwrite` and `Withdraw` of files at
any moment. What the system says of a path is told apart as the code asks it:
`Exists` for `exists()` and no directory (`server.cc:373`), `Opens` for the streams of
`TellSize()` and `InitPayload()` (`utility.cc:31`, `body.cc:192`), `StatusFails` for the
path whose status cannot be read. `disk` has a size, `NONE`, `Locked` (exists and does
not open) or `Hidden` (no status). A file that is open is read to the size it has at each
read, and no further after a short one (`eof`). A route is
a set of methods, the paths it matches and its view: what a regular expression
matches is input. `Target` is what `Request::Prepare()` of the library's own
client sends; it stands for any client that encodes its parameters like that.
`pc = "thrown"` is an exception that leaves its thread: of `is_directory()` or
`InitPayload()` in a loop thread (`OnHeadersEndThrows`, `OnWriteHeaders`), of
`form_parts()` or of any other view in a worker (`HandleUpload`, `HandleView`): those of the
user administration make a `std::string` of what `cJSON_GetStringValue()` returns, which
is null for a field that is missing (`fakeDB.cpp` 109, 129, 154). None is caught in
webcc, and `main()` of the demo (`webccDemo.cpp:440`) only returns: the server ends. The
exceptions of the parser are in `RequestParser` (`Parser_split_size`). `HandleUpload` is `UploadFileView`
(`webccDemo.cpp`): the first part named "file" (`FilePart`) is stored at `StorePath`, where a static
request may ask for it.

## 4. The runs

| run | instance | checks |
|---|---|---|
| `Server_threads` | 1 connection, 2 workers, 2 loop threads, 1 runner that may run twice, 1 stopper, signals, 2 reads | `TypeOK`, `OneOwner`, `NoLostConnection`, `WorkersServe`, `AcceptAlive`, `ImplementsProtocol`, `UsesWorkQueue` |
| `Server_single` | 2 connections, 1 worker, 1 loop thread, stopped by signals, 2 reads each, bodies of up to one payload | `StopClosesAll`, `CloseIsKept`, `HandledIsPooled`, `ServesProtocol` |
| `Server_live` | 1 connection, 2 workers, 1 loop thread, 1 stopper that stops twice, signals, fairness | `StopCompletes`, `RunReturnsEventually`, `DeadLeavesPool` |
| `Queue_stop` | 3 workers, 2 pushers of 2 messages each, 1 stopper | `EveryMessageHasATaker`, `OneNull`, `ImplementsQueue`, `WorkersStop` |
| `Parser_requests` | 11 streams of up to 3 requests, every cut but those within a size line or in the CRLF after the last chunk | `TypeOK`, `BodiesArrive`, `NothingRejected`, `NoMutualWait`, `ParseReturns` |
| `Sessions_users` | 2 browsers, 2 workers, 3 requests, 1 restart, expiry after 2 seconds, fairness | `TypeOK`, `OneBrowserPerSession`, `LoginIsRemembered`, `Answered`, `SessionsExpire` |
| `Admin_pages` | 2 pages, one patient, 2 users, 4 calls, any call lost, any order of answers | `RowsNameUsers`, `OwnWorkShown`, `PatientRowsLeave` |
| `Dispatch_requests` | 2 requests out of a view with 1 or 2 parameters of 9 values, one with a `&` in its key, 2 files, each of any size, locked or hidden, a path nothing matches and uploads, with and without a part that is a file or a form at all; sizes 0, 2 and 3 with chunks of 2; 2 changes of files | `MatchedIsServed`, `ParametersArrive`, `LengthIsWritten`, `Answered` |
| `Page_roles` | an administrator and a user, 3 documents, 2 clicks, 2 logins under way, 2 warnings; any order of answers, any call lost, the session changed at any moment | `TypeOK`, `RolesAgree`, `WarningsOnce`, `MainOpens` |
| `Parser_split_size` | one chunked request, every cut | violation of `NothingThrown` |
| `Parser_second_upload` | a form, a request without body, a form, on one connection | violation of `ParseReturns` |
| `Sessions_expired_null` | as `Sessions_users`, a step of a worker takes less than a second | violation of `NoNullSession` |

Why these bounds are enough. *Threads*: every race of the lifecycle is between
two actors (a stopper and a handler, two stoppers, two loop threads), so two loop
threads, a stopper and signals contain them; the null chain needs a worker that
passes to another, three in `Queue_stop`. *Connections*: connections share the
queue, the pool and the workers; the server properties speak of one connection,
and of its neighbours only through the queue and the workers, for which `Server_single`
has two connections and one worker: one request waits while the other is handled.
`Server_live` needs a stop of each kind at once, and has a second `Stop()` for one that
finds the work done.
`Server_threads` treats its two workers, and its two loop threads, as symmetric
(`Alike`): no step and none of its properties, all of them safety properties, tells
one from the other. The runs with fairness use no symmetry.
All properties of `Server_threads` are proved for any number of connections and
threads. *Reads*: two per connection, so
that keep-alive is taken and a request may need more than one read. *Runs*: two
runs are needed for what a stop leaves to the next. *Parser*: a stream has each
form of request first, alone and after another one, and chunks of different
lengths whose data look like protocol. `SizeBits` is large enough for every
stream (`SizesFit`), small enough to be computed with. *Sessions*: two browsers
and two workers are what it takes to confuse sessions; three requests allow a
login, a request of the other browser, and a third with a cookie, before or after
an expiry or a restart. `Timeout = 1` makes a session expire at the second tick,
which keeps the difference between one tick and expiry. *Users*: four calls are an
open list, two changes and a refresh that one of them causes, or two pages that
change the same list; `IdBits` is large enough that no id wraps within them (see
the hazards for what happens then). *Dispatch*: the sizes are no chunk, a whole
chunk and a chunk and a part; the values have the characters at which encoding,
decoding and splitting disagree most easily (`%` before hexadecimal digits, `+`,
`=`, `?`, a byte above 127, `://`, `&`). *Page*: three documents are a login page, a main
page and a second main page after a reload or another login; two clicks leave a
route and come back to one of its kind; two warnings are needed for an order, two
logins for one that changes the session under the page of the other.

`CHECK_DEADLOCK FALSE`: all runs have bounded inputs (reads, runs, requests), and
the system does stop when they are used up: a stopped server, an answered
stream. That nothing stops too early is what the liveness properties and
`NoMutualWait` say.

## 5. The properties, and what they show

Server (`WebccServer`):

* `OneOwner`: a connection waits for one operation, or is in the queue once, or
  is in one thread's hands. It is why the code may go without a lock per
  connection.
* `NoLostConnection`: an open connection of the pool is driven by something, or
  about to be closed. Dropping the queue in `StopWorkers()` is safe only because
  `pool_.Clear()` follows.
* `WorkersServe`: between stops no worker has taken a null and none is left in
  the queue, also in the second run.
* `AcceptAlive`: the sentence of `server.cc:68`.
* `StopClosesAll`, `CloseIsKept`, `HandledIsPooled`: sentences of `server.h:71`,
  `connection.cc:114` and `server.h:120`. They hold for the demo's configuration
  (one loop thread, stopped by signals, one run), and each is a theorem of the part
  of it that it needs: one loop thread for all three (`OneLoop`), stops by signals
  for `StopClosesAll` (`SignalsOnly`), one run for `HandledIsPooled` (`RunsOnce`). What
  happens without is at the end of this section. `CloseIsKept` fails with two loop threads,
  where `OnWriteOK` of the 400 may start the next read before `pool_->Close()`;
  no run lists that because no run of the demo has two.
* `ImplementsProtocol`: each connection refines `ConnectionProtocol`, for all
  interleavings; `ServesProtocol`: with its fairness, i.e. each queued request
  is taken or dropped and each taken one answered.
* `UsesWorkQueue`: the server uses its queue as `WorkQueue` allows.
* `StopCompletes`, `RunReturnsEventually`, `DeadLeavesPool`: a stop ends, `Run()`
  returns after it, and a connection whose peer has gone leaves the pool. The first
  two except `Ended`: that two overlapping stops join one worker twice does happen, as
  the end of this section says.

Queue: `EveryMessageHasATaker` (no lost wake-up, as a count of messages against
threads on their way), `OneNull` (exactly one null message in circulation),
`ImplementsQueue` (the mutex and the condition variable keep the promise of
`WorkQueue`, with its fairness: a message does not stay while a thread calls),
`WorkersStop`.

Parser: `BodiesArrive` (bodies whole, in order, from the right request),
`NothingRejected`, `NoMutualWait` (the parser never waits for bytes while the
peer waits for the answer), `ParseReturns`.

Sessions: `OneBrowserPerSession`, `LoginIsRemembered`, `Answered`,
`SessionsExpire`. After a restart ids start again at 1 while browsers keep their
cookies. `OneBrowserPerSession` says precisely who may then share a session: only
who has that very id in a cookie from before the restart. `LoginIsRemembered` is stated
while there is no such cookie. Neither says anything of a browser whose session `find()`
missed or whose response was lost: it gets another session, or does not know.

User administration: `RowsNameUsers` (the id in a row is that of one user, with the
name in the row: what makes edits and deletions by id safe), `OwnWorkShown` (after
its answers have come, a patient page shows what it added, with the password it
gave, unless that was changed), `PatientRowsLeave` (a row leaves the list of a
patient page only as confirmed). A deletion is a success and the user stays in
`_userList` (`fakeDB.cpp:181`): the model has it, and the next list shows him.
That only patient pages keep their rows matters: for a page that does not wait,
`RowsLeave`, the same without `Patient`, is refuted by TLC (`Pages = {p1}`,
`Patient = {}`, `InitialUsers <- Users3`). A list that was refreshed between a
deletion and its answer has other row objects, `indexOf(row)` is -1, and
`splice(-1, 1)` (`userListController.js:69`) removes the last row. No text of the
repository promises otherwise, so it is no finding.

Main page: `RolesAgree` (`main.html:110`: the page is kept from the user until it is
known what he may do; a list he reached by a click offers what his session allows,
though what it shows is put together from two answers), `WarningsOnce` (a warning
is shown once and in order, though each visit leaves a socket open), `MainOpens`
(the page is unblocked unless a call was lost: the error handler of `getInfo.do` is
empty, `main.html:140`). `RolesAgree` needs `clicked`: after a reload at `#!/userList`
the list can be answered before `getInfo.do`, and an administrator is left without
the button to add users until he leaves the route.

Dispatch: `MatchedIsServed` (the worker finds what the parser matched, unless the
file changed since, or exists and does not open: a file without read permission is
matched on the loop thread and answered 404 by the worker, though nobody touched it, for
the first look asks whether it exists and the second opens it), `ParametersArrive`
(encode, parse, split and decode agree; the first of several parameters with one key is
the one found), `LengthIsWritten` (Content-Length is the number of bytes written, unless
the file changed), `Answered` (or its thread throws). The exceptions they state are where
the code stops keeping them: a `&` in a key or a value and a `=` in a key, which `EncodeQuery()` leaves as they
are (`url.cc:182`), a `://` in the target (`url.cc:245`), a file that changes
(`body.cc:162`). One is not in them but in the hypothesis of their theorems: a
view routed at `/` and not at `/index.html`, or the other way round, for
`OnHeadersEnd()` looks for the view of the one and the worker for that of the other
(`request_parser.cc:30`). The demo routes neither.

### Findings

The violation runs show where the code differs from what its comments say:

1. `Parser_split_size` (`parser.cc:343`): a read that ends inside a chunk-size line
   leaves `chunk_size_` at `kInvalidLength`, `+ 2` wraps to 1, and `append` throws
   out of the event loop.
2. `Parser_second_upload` (`request_parser.cc:15`): `Init()` resets neither `step_`
   nor `form_parts_`; the second form on a connection never leaves the loop at
   line 78.
3. `Sessions_expired_null` (`sessionSupport.cpp:100`): a session that `parseReq()`
   found can expire before `getSessionInfo()` looks it up again, which then
   dereferences the null pointer `operator[]` made. The run assumes that a step of
   a worker takes less than a second (`Prompt`): the session is old, not the worker
   slow.

Two stops that overlap can end the process. `server.h:111` calls `state_mutex_` "the
mutex for guarding the state of the server", but the signal handler (`server.cc:119`)
calls `DoStop()` without it. Checked as an invariant of the instance of `Server_live`, `~Ended`
is refuted: `Stop()` waits in `join()` for a worker, the signal handler passes
`CloseAcceptor`, `ClearQueue` and `PushNull` and joins the same worker. The demo, which
never calls `Stop()`, cannot come there.

Two properties of `Server_single` need more of its configuration than the one loop
thread, and the same module shows why when it is given another:

* `StopClosesAll` with a `Stop()` from another thread: an accept handler that has
  passed `is_open()` (`server.cc:166`) registers its connection after
  `pool_.Clear()`; it stays open after the stop, against `server.h:71`.
* `HandledIsPooled` with two runs: a read that completed before the stop has its
  handler run by the next `Run()` (`connection.cc:131`, `server.cc:47`), and a worker
  handles the request of a connection the pool no longer has, against
  `server.h:120`.

So does `NothingRejected` of the parser: with `SplitSizes` TRUE, a read that ends
before the CR LF after the last chunk ends the request there (`parser.cc:338`), and the
CR LF is taken for the start line of the next request, which is rejected.

## 6. Fairness

* `WebccServer`: weak fairness of each thread (`WorkerStep`, `StopStep`,
  `HandlerStep`, `LeaveLoop`, `RunReturns`): a thread that can run does, as long as the
  process lives, and one that waits for a mutex or a join goes on once it can. Strong fairness of the
  handlers of each connection and of the signal handler: a loop thread is now
  polling, now inside a handler, so a ready handler is enabled again and again;
  asio runs ready handlers in order and passes none over for ever. Nothing is
  assumed of the clients, of signals or of callers of `Run` and `Stop`.
* `MessageQueue`: weak fairness of every thread that is not blocked, but none for
  `CheckSize`: nobody has to call `StopWorkers()`. The mutex is held for one step only.
* `RequestParser`: weak fairness of `ParseStep` (the loop thread) and of
  `NextRequest` (the server answers, `ServesProtocol`). None for `Read`: the peer
  may send nothing more.
* `Sessions`: weak fairness of each worker and of `Tick`. `Tick` models
  `try_lock()` once a second; a lock that is held at every one of these moments for
  ever is excluded because each hold is one insertion and requests are bounded.
* `Dispatch`: weak fairness of `ServerStep`, the threads of the server going on.
  None for requests and files. `UserAdmin` needs none: it has no liveness property.
* `MainPage`: weak fairness of the server that answers (`Serve`, what `Answered` of
  `Sessions` and `Dispatch` show) and of the browser that runs callbacks
  (`Callback`). None for the user, the network or the warnings.

## 7. The proofs

All theorems hold for any sets of connections, threads, browsers, users, routes,
documents and so on, and for any bounds. They assume the named assumptions of the
modules they are about: kinds of threads are disjoint (`ThreadsDisjoint`), `NULL`
is none of the things it stands in for, bounds are natural numbers, routes, forms and
users have their fields, a path is a string of bytes that begins with `/` and has no `?`
and parameters are strings of bytes (`CallsAreUrls`: any other path is not the path of a
target), the users of `FakeDB()` have ids of their own, the threads at
a queue are finitely many (`QueueThreads`: `NoLostWakeup` counts them), and what a peer
sends is shorter than a `size_t` can count (`SizesFit`, which also says that a power of
two is a positive number: the provers have no powers). Some assume more, as a
hypothesis in their statement: `OneLoop`, `RunsOnce` and `SignalsOnly` of the
configuration, `RootIsStatic` of the routes (section 5). The demo satisfies all
four, and so do the runs that check these properties. Those about the parser assume
what the run `Parser_requests` does, that no read ends within a size line or the last
CR LF of a chunked body (`SplitSizes = FALSE`: otherwise they are false, which is the
finding of `Parser_split_size`), and speak of well-formed requests, below.

| module | theorems | inductive invariant |
|---|---|---|
| `WebccServerProofs` | `TypeCorrect`: `TypeOK`; `OneOwnerAlways`: `OneOwner`; `ServerKeepsToQueue`: `UsesWorkQueue` | `OwnerInv` |
| | `WorkersServeAlways`: `WorkersServe`; `AcceptIsAlwaysAlive`: `AcceptAlive`; `NoConnectionLost`: `NoLostConnection` | `StopInv`, `AcceptInv`, `PoolInv` |
| | `ServerKeepsProtocol`: `ImplementsProtocol` | `ServerInv` |
| | with `OneLoop`: `CloseIsAlwaysKept`: `CloseIsKept`; with `OneLoop` and `RunsOnce`: `HandledIsAlwaysPooled`: `HandledIsPooled`; with `OneLoop` and `SignalsOnly`: `StopAlwaysClosesAll`: `StopClosesAll` | `CloseInv`, `InPoolInv`, `OpenInv` |
| `MessageQueueProofs` | `QueueIsWorkQueue` (the safety part of `ImplementsQueue`), `OneNullAlways`: `OneNull`, `NoLostWakeup`: `EveryMessageHasATaker`, `TypeCorrect` | |
| `RequestParserProofs` | with `SplitSizes = FALSE`, while `WellFormed`: `TypeCorrect`: `TypeOK`; `BodiesAlwaysArrive`: `BodiesArrive`; `NothingIsRejected`: `NothingRejected`; `NeverAMutualWait`: `NoMutualWait`; `NothingIsThrown`: `NothingThrown` | `ParserInv` (`ParserInvariant`) |
| `SessionsProofs` | `TypeCorrect`: `TypeOK`; `SessionsApart`: `OneBrowserPerSession`; `LoginStaysTrue`: `LoginIsRemembered` | `IdsApartInv`, `WorkersInv`, `DueInv` |
| `DispatchProofs` | `LengthIsAlwaysWritten`: `LengthIsWritten`; with `RootIsStatic`: `MatchedIsAlwaysServed`: `MatchedIsServed` | `BodyInv`, `MatchInv` |
| | `DecodeAfterEncode`: for every string of bytes, decoding undoes encoding; `ParametersAlwaysArrive`: `ParametersArrive` | `UrlInv` |
| `SequenceLemmas` | lemmas only, for `RequestParserProofs`, `DispatchProofs` and `UserAdminProofs` | |
| `UserAdminProofs` | `OwnWorkIsShown`: `OwnWorkShown`; `PatientRowsOnlyLeave`: `PatientRowsLeave`; while `IdsFit`: `RowsAlwaysNameUsers`: `RowsNameUsers` | `AdminInv`, `IdsInv`, `RowsInv` |
| `MainPageProofs` | `TypeCorrect`: `TypeOK`; `WarningsShownOnce`: `WarningsOnce`; `RolesAlwaysAgree`: `RolesAgree` | `TypesInv`, `WarningsInv`, `RolesInv` |

So every invariant and every action property that a passing run checks is a theorem
(those of `Parser_requests` for well-formed requests); what is left to TLC is at the
end of this section. The arguments:

*One owner.* `TypeOK` is inductive by itself. `OneOwner` is not: from a state in which
a socket that has not been accepted were already queued or held, accepting it
would give it a second owner. `OwnerInv == TypeOK /\ OneOwner /\ FreshSockets` says that
a socket without a connection is nowhere. The moves of a connection between
places are lemmas (`KeptPlace`, `GoHolds`, `PushQueue`, `PopQueue`, ...).

*Stopping.* `WorkersServe` speaks of the moments between stops; what makes it true is
what happens during them, with stops that overlap. `StopInv` says that a worker that
has not exited is one a `DoStop()` will join (`WorkersJoined`), that no worker runs
between a join and the next `Run()` (`NoneAfterJoin`), and that a null in the queue has
a `DoStop()` that still has to drain it, as a worker it made exit has one that still
has to join (`NullsHaveStopper`). A stop that is thrown out of `join()` ends the process
and with it all steps, so it leaves nobody to be joined. `AcceptInv` says that an accept is armed as long as
the acceptor is open, and that only a `DoStop()` before its join has closed it.

*No connection lost.* `NoLostConnection` is not inductive, since it does not say who
may drop a connection from the queue. `PoolInv` says that a connection of the pool is
driven or a `DoStop()` is between clearing the queue and clearing the pool
(`NotLost`), and that one whose operation was aborted, or that is being shut, has left
the pool (`LeftPool`). It rests on `OwnerInv` (a connection in one place cannot be
dropped from another) and on `StopInv`.

*The protocol.* `ImplementsProtocol` is about all connections at once: a step of the
server maps each connection's `Phase` by a step of `ConnectionProtocol`, and the steps
that drop many connections (`SomeDropped`) are steps of it too. `PlacesExclude` and
`PhaseValue` read the phase off the places, for which `ServerInv` (the conjunction of
the three invariants) is needed.

*One loop thread.* With one loop thread no handler is half done when another begins
(`LoopIsFree`), and that is what the three rest on. `CloseInv` says where a connection
is that was told to close: it writes its last answer, is being closed, or is closed
with no read that could still succeed (`ToldClose`). `InPoolInv` says of every connection
that it is in the pool, or out of use (on its way into the pool, or with nothing left
that could hand it to a worker), or that the workers have gone for good
(`WorkEnded`, where one run is needed: the read that outlives a stop finds no
worker). `OpenInv` says that an open connection is in the pool or in the hands of the
one handler that is about to put it there or to shut it (`Owned`); a signal handler
runs `DoStop()` in the loop thread, so when it clears the pool there is no such
handler. With `Stop()` in another thread there may be: the counterexample of section 5.

*The queue.* A notification that is under way and a worker that is awake are
counted against the messages of the list; `NoLostWakeup` needs the cardinality
facts of `FiniteSetTheorems`. `QueueIsWorkQueue` needs only types: each step is a step of
`WorkQueue` or leaves its variables alone.

*The parser.* Nothing that a test of the parser could look at is inductive: what it will
make of the bytes to come depends on where it stands in them. `ParserInv` says where.
`Before` counts the bytes of the requests handed on (`ParsedInv`: these are `Meant`),
`Come` how much of the next one was read, `Used` how much of that was erased, and
`InPlace` that `pending_data_` is what lies between. While the headers are parsed `Used`
is the end of a line (`AtLine`: which headers were seen follows from which line it is).
In the body the form says what the fields mean: a fixed body is in `content_` up to
`Used`; the chunks before the current one are, with the part of it that was put there
(`chunk_size_` is what remains, or no size was read yet); of a form, `step_` is before
the first boundary (`FirstLine`), in the headers of a part or in its data (`InPart`),
with the parts before it in `form_parts_`. `FormInv` says that whatever a form leaves
behind is left by the only one of the connection, and `EndInv` that the parser is done
with a request only when all of it was used. Each step moves `Used` by what it erases
(`Erase`); a read moves `Come` alone. The lemmas under these are about the encoding:
bytes of a concatenation by position, `FlattenSeq` unrolled step by step (that its fold
exists and is one, `FlatteningExists` and `FlatteningsAgree`, is `Induction`), where the
lines, chunks and parts of a request lie, and that the first boundary line in the data
that has come is the one that ends the part, neither found early, when only a piece of
it has come, nor in the data itself.

A request is `Valid` if it has one of the five forms of `HttpStream` with any bytes at
all in its body, its chunks are not empty (an empty one would be the last), its parts
are not empty (one that is, is answered 400: `EmptyPart` in `MCRequestParser`), no line
of a part is a boundary, and no line of a part but the last looks like the final
boundary: `IsBoundary` sets `*end` for a line of its length with dashes at both ends
before it compares the boundary (`request_parser.cc:269`). A connection is `WellFormed`
if its requests are valid and at most one is a form (`Parser_second_upload`). Invalid
requests are in the streams of `Parser_requests` and only model-checked.

*Sessions.* `OneBrowserPerSession` is not inductive: a new id could be one that a
browser holds for a session that has expired. `IdsApartInv` says of every id a browser
or its worker holds, in the table or not, and not from before a restart (`Own`), that it
is at most `sessionIndex` and its alone. `LoginIsRemembered` speaks of browsers at rest; `DueInv` adds what the response
under way will tell (`Told`) and that the session agrees with it, and `WorkersInv` that
a browser has one worker at a time.

*Requests and files.* `BodyInv` says that what is announced is the size of the body
while the file is as it was, and how much of it is written at each step
(`WritingInv`). `MatchInv` says what the parser found is what a search of the routes
gives again (`MatchedInv`), which the worker's search needs; the two search
different lists of conditions, and `FoundIffMatched` shows that they agree.

*URLs.* `UrlInv` only says that the URL is the one parsed from the target of the call; the
rest is about strings. `Decode`, `UrlQuery` and `Parse` read a string from the left to
the right: position `i` gives something and says where to go on. `SequenceLemmas` calls
that a scan and has its induction: there is such a function (`ScanExists`; a recursive
definition is a `CHOOSE` to the prover), and what it gives for `s \o t` is what it gives
for `s` followed by what it gives for `t`, if the reading of `s` stops right where `t`
begins and does not look beyond (`ScanJoin`). Decoding does this after each encoded
byte (`DecodeJoin`), so the round trip of a string is that of its bytes (`CodeIs`, by the
`div` and `%` of 16), one more with each step of `EncodeImpl` (`EncodeFacts`):
`DecodeAfterEncode`, for any set of characters to encode that has `%` and all that is not
ASCII, thus for `EncodeQuery()` and `EncodePath()`. Splitting does it at every `&`
(`QueryJoin`), and a parameter of the client has none in it and its first `=` behind the
key, since encoding adds neither (`OneParameter`); so `UrlQuery` of the query the client
appended to, parameter by parameter, is the list of parameters itself (`QueryArrives`).
`QueryIsParsed` takes the query out of the target: the path begins with `/`, so what is
before it is no host, and the first `?` is the one `Prepare()` put there. `GetsFirst` is
`UrlQuery::Get`. A `&` or a `=` in a key is as harmful as a `&` in a value, as the
proof needs to say: `Reserved` has the three, and `Dispatch_requests` has calls with a `&`
in a value and in a key.

*User administration.* `AdminInv` says that a patient page has one call under way
(`OneCall`), and that the row it asked to delete is still in its list (`DeletedShown`): so
`indexOf(row)` is not -1 when the answer comes, and no other row has gone. For
`OwnWorkShown` it says that a user who was added is in the table with the name and the
password he was given, unless edited, and that he is in the list shown or in the one
that is under way to replace it (`AddedShown`). Nothing is assumed of the ids for
these two: they hold even when ids wrap. `RowsNameUsers` does not: the id of a new user is
the sum of all ids, which is larger than each of them (two users or more, ids above 0)
until a sum is cut to 32 bits. `IdsFit` says that this has not happened; `IdsInv` that ids
are then apart; and `RowsInv`, without it, that every row on its way or in a list has
the id and the name of a user. What `SumTo` computes is shown by induction over the
list (`SumFacts`, `SameSums`, `SumOfTwo`), and that a recursive function exists at all by
building it (`StepsExist` of `SequenceLemmas`): `Induction` is the induction principle for
a set of numbers, from the well-foundedness of `<`. `Smallest` and the library's facts
about sequences give `Splice` and `indexOf` their meaning.

*Main page.* `TypesInv` needs that a document has only its own calls (`OwnCalls`), and
the invariants below for the sockets. `WarningsInv` orders what is on the wires and below it what is in the
list: a socket that opens is empty, and a new scope has no socket. `RolesInv` says that
the user is asked for once per document (`AsksOnce`) and that answers under way agree
with the session while it does not change (`AnswersAgree`).

TLC checks the properties in the runs of section 4. Only model-checked:

* all liveness, with fairness and `ENABLED` beyond the prover: `StopCompletes`,
  `RunReturnsEventually`, `DeadLeavesPool`, `WorkersStop`, `ParseReturns`, `Answered` (of
  `Sessions` and of `Dispatch`), `SessionsExpire`, `MainOpens`, and the fair half of the two
  refinements with fairness, `ServesProtocol` and `ImplementsQueue`;
* `RequestParser` with invalid requests in the stream, that these are answered 400
  among it.

## 8. Not modelled, and why

Nearly all of the repository's JavaScript, and with it nearly all of its lines, is
third-party code under `htmlRoot/assets/`: AngularJS (its test tools included), jQuery,
Bootstrap, select2, charts, and the theme's layout scripts. It is not the
program's: the pages use it as a library, and a model of it would be a
model of another project. What the pages need of it is in the modules that use
it (`$scope`, `$apply`, `splice`, callbacks in any order). The JavaScript that is the
program's is about a thousand lines in `htmlRoot/controller/` and in the scripts of
`main.html` and `index.html`; what changes state in it is in `UserAdmin` and `MainPage`,
the rest is layout and texts. The core of the program is C++.

* *Logger*: output.
* *Response formatting, headers, MIME types, base64*: pure functions on strings;
  base64 is in the plan.
* *gzip*: `WEBCC_ENABLE_GZIP` is 0 (`config.h:20`).
* *Client side* (`request_builder`, `response_parser`, `socket`): nothing in the
  repository calls it.
* *`main()` of the demo*: reads the options and installs three routes, which the runs
  take as constants.
* *Routes without a controller in the repository*, and the dialogs of the user
  group page: nothing sets `g_listMap`, which they need, and the server has no view for
  what they call (`map/list.do`, `userGroup/del.do`), so they cannot save.
* *The dialogs of the user list* are reduced to the input they let through. The
  question whether a login name exists is sent form-encoded to a view that wants
  JSON, so the answer is always that it does not, and it is only a warning: two users
  can get one name. A dialog that is saved before the list of groups has come sends
  nothing.
* *Logout*: no page calls it; the view is in `Sessions`.
* Within the modelled parts: the syntax of the `Cookie` header, of headers and of
  start lines (a token is right or wrong), the streaming body handler (same calls,
  other destination), clients that pipeline requests, several requests of one
  browser at once, wrap-around of the 32-bit session index, form bodies (only clients
  send them).

## 9. Plan

Done: all modules of section 2. Left, in this order:

1. An abstract specification of the user administration (a table of users with
   atomic operations) and the part of `UserAdmin` that refines it.
2. An abstract specification of sessions (a map from browser to login state that
   expires) and `Sessions` shown to refine it within one life of the process, with
   `DueInv` as the invariant of the refinement.
3. `base64.cc` and form bodies (`body.cc` 70-155) as operators against reference
   definitions.
