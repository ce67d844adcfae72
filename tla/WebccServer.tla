---------------------------- MODULE WebccServer ----------------------------
(***************************************************************************)
(* The HTTP server of src/webcc20200813: class Server (server.cc) with the *)
(* connections (connection.cc), the pool that owns them                    *)
(* (connection_pool.cc), the queue between the event loop and the workers  *)
(* (queue.h), and every thread that touches them: the callers of Run(),    *)
(* the threads that call Stop(), the threads of the event loop and the     *)
(* worker threads.                                                         *)
(*                                                                         *)
(* A step is what one thread does between two points where another thread  *)
(* can get in: the release of a mutex, the return to the event loop, a     *)
(* wait.  asio is modelled by what the code relies on: an operation that   *)
(* was started completes once, later, with success, an error or, when its  *)
(* socket is closed under it, operation_aborted; a handler runs in a loop  *)
(* thread; stop() keeps the handlers that have not run, and they run after *)
(* restart().                                                              *)
(***************************************************************************)
EXTENDS Integers, Sequences, FiniteSets

CONSTANTS
    Conns,        \* the sockets the clients may connect, one per connection
    Workers,      \* worker_threads_ of a run
    Loops,        \* the threads that run io_context_
    Runners,      \* the threads that call Run()
    Apps,         \* the other threads, which call Stop()
    NULL,         \* the null ConnectionPtr, and "no thread"
    MaxRuns,      \* bound: calls of Run()
    MaxStops,     \* bound: calls of Stop()
    MaxReads,     \* bound: successful reads on one connection
    MaxPayloads   \* bound: payloads in the body of one response

ThreadIds == Workers \cup Loops \cup Runners \cup Apps

ASSUME ThreadsDisjoint ==
    /\ Workers \cap Loops = {} /\ Workers \cap Runners = {}
    /\ Workers \cap Apps = {} /\ Loops \cap Runners = {}
    /\ Loops \cap Apps = {} /\ Runners \cap Apps = {}
ASSUME NullIsNothing == NULL \notin Conns \cup ThreadIds
ASSUME BoundsAreNat ==
    MaxRuns \in Nat /\ MaxStops \in Nat /\ MaxReads \in Nat /\ MaxPayloads \in Nat

VARIABLES
    running,        \* Server::running_
    stopped,        \* io_context_.stopped()
    acceptorOpen,   \* acceptor_.is_open()
    mutex,          \* the holder of state_mutex_, or NULL
    runs, stops,    \* calls of Run() and Stop() so far
    acceptPending,  \* accept operations waiting for a client
    acceptAborted,  \* accept handlers ready to run with an error
    accepted,       \* the sockets whose accept handler is ready to run
    sigPending,     \* waits on signals_
    sigReady,       \* signal handlers ready to run
    queue,          \* queue_
    threads,        \* the threads of worker_threads_ that are joinable
    pool,           \* pool_.connections_
    sock,           \* socket_ of each connection
    op, res,        \* the asynchronous operation of each connection: kind, result
    keep,           \* request_->IsConnectionKeepAlive()
    resp,           \* the Connection header of response_
    left,           \* body payloads of response_ not yet written
    reads,          \* successful reads so far
    pc, cur         \* where each thread is, and the connection it holds

lifecycle == <<running, stopped, acceptorOpen, mutex, runs, stops>>
events    == <<acceptPending, acceptAborted, accepted, sigPending, sigReady>>
work      == <<queue, threads>>
exchange  == <<keep, resp, left, reads>>
async     == <<op, res>>
conns     == <<pool, sock, async, exchange>>
thread    == <<pc, cur>>
vars      == <<lifecycle, events, work, conns, thread>>

---------------------------------------------------------------------------
\* Operations on a socket

Writes == {"headers", "body"}

\* An operation started on a closed socket fails with bad_descriptor.
Begin(c, kind) ==
    /\ op' = [op EXCEPT ![c] = kind]
    /\ res' = [res EXCEPT ![c] = IF sock[c] = "open" THEN "pending" ELSE "err"]

\* The handler of the operation runs.
Done(c) == op' = [op EXCEPT ![c] = "none"] /\ res' = [res EXCEPT ![c] = "none"]

\* Connection::Close() of every connection in S: what is pending is aborted.
CloseSockets(S) ==
    /\ sock' = [c \in Conns |-> IF c \in S THEN "closed" ELSE sock[c]]
    /\ res' = [c \in Conns |-> IF c \in S /\ res[c] = "pending" THEN "aborted" ELSE res[c]]
    /\ UNCHANGED op

Go(t, at, c) == pc' = [pc EXCEPT ![t] = at] /\ cur' = [cur EXCEPT ![t] = c]

\* Where a thread holds a connection: about to use it, or to close it
UsingSteps == {"insert", "start", "push", "handle"}
ClosingSteps == {"erase", "shut"}
StopSteps == {"close", "clear", "null", "join", "joining", "drain", "pool", "finish"}
Stopping(t) == t \in Apps \cup Loops /\ pc[t] \in StopSteps
IsRunning == running /\ ~stopped

Init ==
    /\ running = FALSE /\ stopped = FALSE /\ acceptorOpen = FALSE /\ mutex = NULL
    /\ runs = 0 /\ stops = 0
    /\ acceptPending = 0 /\ acceptAborted = 0 /\ accepted = {}
    /\ sigPending = 0 /\ sigReady = 0
    /\ queue = <<>> /\ threads = {}
    /\ pool = {} /\ sock = [c \in Conns |-> "none"] /\ op = [c \in Conns |-> "none"]
    /\ res = [c \in Conns |-> "none"]
    /\ keep = [c \in Conns |-> FALSE] /\ resp = [c \in Conns |-> "none"]
    /\ left = [c \in Conns |-> 0] /\ reads = [c \in Conns |-> 0]
    /\ pc = [t \in ThreadIds |-> IF t \in Runners \cup Apps THEN "idle" ELSE "out"]
    /\ cur = [t \in ThreadIds |-> NULL]

---------------------------------------------------------------------------
\* Server::Run, all of it under state_mutex_ up to the event loop.  A caller
\* respects asio's rule for restart(): it does not call Run() while threads
\* of a stopped run are still leaving io_context::run().

MayRun(r) ==
    /\ pc[r] = "idle" /\ mutex = NULL /\ runs < MaxRuns
    /\ IsRunning \/ \A l \in Loops : pc[l] = "out"

RunRefused(r) ==
    /\ MayRun(r) /\ IsRunning
    /\ runs' = runs + 1
    /\ UNCHANGED <<running, stopped, acceptorOpen, mutex, stops, events, work, conns, thread>>

\* Listen() fails in open() or, with the acceptor open, in bind() or listen().
RunNotListening(r) ==
    /\ MayRun(r) /\ ~IsRunning
    /\ running' = TRUE /\ stopped' = FALSE /\ runs' = runs + 1
    /\ acceptorOpen' \in {acceptorOpen, TRUE}
    /\ UNCHANGED <<mutex, stops, events, work, conns, thread>>

Run(r) ==
    /\ MayRun(r) /\ ~IsRunning /\ ~acceptorOpen
    /\ running' = TRUE /\ stopped' = FALSE /\ runs' = runs + 1
    /\ acceptorOpen' = TRUE
    /\ sigPending' = sigPending + 1 /\ acceptPending' = acceptPending + 1
    /\ threads' = threads \cup Workers
    /\ pc' = [t \in ThreadIds |-> CASE t = r -> "running" [] t \in Workers -> "wait"
                                    [] t \in Loops -> "poll" [] OTHER -> pc[t]]
    /\ UNCHANGED <<mutex, stops, acceptAborted, accepted, sigReady, queue, conns, cur>>

\* io_context::run() returns in a loop thread, and Run() once all have.
LeaveLoop(l) ==
    /\ pc[l] = "poll" /\ stopped
    /\ Go(l, "out", NULL)
    /\ UNCHANGED <<lifecycle, events, work, conns>>

RunReturns(r) ==
    /\ pc[r] = "running" /\ \A l \in Loops : pc[l] = "out"
    /\ Go(r, "idle", NULL)
    /\ UNCHANGED <<lifecycle, events, work, conns>>

---------------------------------------------------------------------------
\* Accepting: AsyncAccept() and its handler

\* A client connects and an outstanding accept completes.
ClientConnects(c) ==
    /\ acceptorOpen /\ acceptPending > 0 /\ sock[c] = "none" /\ c \notin accepted
    /\ acceptPending' = acceptPending - 1 /\ accepted' = accepted \cup {c}
    /\ UNCHANGED <<lifecycle, acceptAborted, sigPending, sigReady, work, conns, thread>>

Polling(l) == pc[l] = "poll" /\ ~stopped

\* The acceptor is closed: the handler returns and the accepted socket is
\* destroyed with it.
AcceptDropped(l, c) ==
    /\ Polling(l) /\ c \in accepted /\ ~acceptorOpen
    /\ accepted' = accepted \ {c} /\ sock' = [sock EXCEPT ![c] = "closed"]
    /\ UNCHANGED <<lifecycle, acceptPending, acceptAborted, sigPending, sigReady, work,
                   pool, async, exchange, thread>>

\* is_open() was checked, the Connection made: pool_.Start() is next.
OnAccept(l, c) ==
    /\ Polling(l) /\ c \in accepted /\ acceptorOpen
    /\ accepted' = accepted \ {c} /\ sock' = [sock EXCEPT ![c] = "open"]
    /\ Go(l, "insert", c)
    /\ UNCHANGED <<lifecycle, acceptPending, acceptAborted, sigPending, sigReady, work,
                   pool, async, exchange>>

\* The handler of an accept that close() aborted; it re-arms if the acceptor
\* is open again by then.
OnAcceptAborted(l) ==
    /\ Polling(l) /\ acceptAborted > 0
    /\ acceptAborted' = acceptAborted - 1
    /\ acceptPending' = IF acceptorOpen THEN acceptPending + 1 ELSE acceptPending
    /\ UNCHANGED <<lifecycle, accepted, sigPending, sigReady, work, conns, thread>>

\* ConnectionPool::Start: insert under the pool's mutex...
PoolInsert(l) ==
    /\ pc[l] = "insert"
    /\ pool' = pool \cup {cur[l]}
    /\ Go(l, "start", cur[l])
    /\ UNCHANGED <<lifecycle, events, work, sock, async, exchange>>

\* Mutant: the accept handler returns without calling AsyncAccept() again.
ConnectionStartNoRearm(l) ==
    /\ pc[l] = "start"
    /\ Begin(cur[l], "read")
    /\ Go(l, "poll", NULL)
    /\ UNCHANGED <<lifecycle, events, work, pool, sock, exchange>>

\* ... then, outside it, Connection::Start(); the accept handler goes on to
\* re-arm.  async_accept on an acceptor closed meanwhile fails at once.
ConnectionStart(l) ==
    /\ pc[l] = "start"
    /\ Begin(cur[l], "read")
    /\ IF acceptorOpen
       THEN acceptPending' = acceptPending + 1 /\ UNCHANGED acceptAborted
       ELSE acceptAborted' = acceptAborted + 1 /\ UNCHANGED acceptPending
    /\ Go(l, "poll", NULL)
    /\ UNCHANGED <<lifecycle, accepted, sigPending, sigReady, work, pool, sock, exchange>>

---------------------------------------------------------------------------
\* The peers: an operation completes

Completes(c, result) ==
    /\ res[c] = "pending"
    /\ res' = [res EXCEPT ![c] = result]
    /\ UNCHANGED op

ClientSends(c) ==
    /\ op[c] = "read" /\ reads[c] < MaxReads
    /\ Completes(c, "ok")
    /\ reads' = [reads EXCEPT ![c] = @ + 1]
    /\ UNCHANGED <<lifecycle, events, work, pool, sock, keep, resp, left, thread>>

ClientReceives(c) ==
    /\ op[c] \in Writes
    /\ Completes(c, "ok")
    /\ UNCHANGED <<lifecycle, events, work, pool, sock, exchange, thread>>

\* End of file or a reset.
ClientCloses(c) ==
    /\ Completes(c, "err")
    /\ UNCHANGED <<lifecycle, events, work, pool, sock, exchange, thread>>

---------------------------------------------------------------------------
\* The handlers of a connection, run by a loop thread

Ready(l, c, kinds, result) == Polling(l) /\ op[c] \in kinds /\ res[c] = result

\* OnRead and OnWriteError after an error: Connection::Close() has already
\* been called if the operation was aborted, else pool_->Close().
OnAborted(l, c) ==
    /\ Ready(l, c, {"read"} \cup Writes, "aborted")
    /\ Done(c)
    /\ UNCHANGED <<lifecycle, events, work, pool, sock, exchange, thread>>

\* Mutant: the error handlers treat every error as operation_aborted.
OnErrorKept(l, c) ==
    /\ Ready(l, c, {"read"} \cup Writes, "err")
    /\ Done(c)
    /\ UNCHANGED <<lifecycle, events, work, pool, sock, exchange, thread>>

OnError(l, c) ==
    /\ Ready(l, c, {"read"} \cup Writes, "err")
    /\ Done(c)
    /\ Go(l, "erase", c)
    /\ UNCHANGED <<lifecycle, events, work, pool, sock, exchange>>

\* SendResponse: the Connection header, then DoWrite() starts on the headers.
SendResponse(c, n, no_keep_alive, keepAlive) ==
    /\ resp' = [resp EXCEPT ![c] = IF ~no_keep_alive /\ keepAlive THEN "Keep-Alive" ELSE "Close"]
    /\ left' = [left EXCEPT ![c] = n]
    /\ Begin(c, "headers")

\* Mutant: no pool_->Close() after the 400.
OnReadBadOpen(l, c, k) ==
    /\ Ready(l, c, {"read"}, "ok")
    /\ keep' = [keep EXCEPT ![c] = k]
    /\ SendResponse(c, 0, TRUE, k)
    /\ UNCHANGED <<lifecycle, events, work, pool, sock, reads, thread>>

\* Parse() failed: 400, then pool_->Close().
OnReadBad(l, c, k) ==
    /\ Ready(l, c, {"read"}, "ok")
    /\ keep' = [keep EXCEPT ![c] = k]
    /\ SendResponse(c, 0, TRUE, k)
    /\ Go(l, "erase", c)
    /\ UNCHANGED <<lifecycle, events, work, pool, sock, reads>>

\* The request is not finished: DoRead().
OnReadMore(l, c) ==
    /\ Ready(l, c, {"read"}, "ok")
    /\ Begin(c, "read")
    /\ UNCHANGED <<lifecycle, events, work, pool, sock, exchange, thread>>

\* Mutant: the next read is started while the request waits in the queue.
OnReadFinishedReading(l, c, k) ==
    /\ Ready(l, c, {"read"}, "ok")
    /\ keep' = [keep EXCEPT ![c] = k]
    /\ Begin(c, "read")
    /\ Go(l, "push", c)
    /\ UNCHANGED <<lifecycle, events, work, pool, sock, resp, left, reads>>

\* The request is finished: queue_->Push() is next.
OnReadFinished(l, c, k) ==
    /\ Ready(l, c, {"read"}, "ok")
    /\ keep' = [keep EXCEPT ![c] = k]
    /\ Done(c)
    /\ Go(l, "push", c)
    /\ UNCHANGED <<lifecycle, events, work, pool, sock, resp, left, reads>>

QueuePush(l) ==
    /\ pc[l] = "push"
    /\ queue' = Append(queue, cur[l])
    /\ Go(l, "poll", NULL)
    /\ UNCHANGED <<lifecycle, events, threads, conns>>

\* Mutant: one payload too many, the end of the body is not looked at.
DoWriteBodyPastEnd(l, c) ==
    /\ Ready(l, c, Writes, "ok")
    /\ left' = [left EXCEPT ![c] = @ - 1]
    /\ Begin(c, "body")
    /\ UNCHANGED <<lifecycle, events, work, pool, sock, keep, resp, reads, thread>>

\* OnWriteHeaders and OnWriteBody: the next payload, if there is one...
DoWriteBody(l, c) ==
    /\ Ready(l, c, Writes, "ok")
    /\ left[c] > 0
    /\ left' = [left EXCEPT ![c] = @ - 1]
    /\ Begin(c, "body")
    /\ UNCHANGED <<lifecycle, events, work, pool, sock, keep, resp, reads, thread>>

\* ... or OnWriteOK: Connection::Start() again, with a new request that has
\* no headers yet, if the request asked for keep-alive, else pool_->Close().
OnWriteOK(l, c) ==
    /\ Ready(l, c, Writes, "ok")
    /\ left[c] = 0
    /\ IF keep[c]
       THEN /\ Begin(c, "read")
            /\ UNCHANGED thread
       ELSE Done(c) /\ Go(l, "erase", c)
    /\ UNCHANGED <<lifecycle, events, work, pool, sock, exchange>>

\* ConnectionPool::Close: erase under the pool's mutex, then Close().
PoolErase(l) ==
    /\ pc[l] = "erase"
    /\ pool' = pool \ {cur[l]}
    /\ Go(l, "shut", cur[l])
    /\ UNCHANGED <<lifecycle, events, work, sock, async, exchange>>

ConnectionClose(l) ==
    /\ pc[l] = "shut"
    /\ CloseSockets({cur[l]})
    /\ Go(l, "poll", NULL)
    /\ UNCHANGED <<lifecycle, events, work, pool, exchange>>

---------------------------------------------------------------------------
\* The workers: WorkerRoutine() over Queue::PopOrWait()

\* Mutant: front() without pop_front().
PopPeek(w) ==
    /\ pc[w] = "wait" /\ queue # <<>>
    /\ IF Head(queue) = NULL THEN Go(w, "pass", NULL) ELSE Go(w, "handle", Head(queue))
    /\ UNCHANGED <<lifecycle, events, work, conns>>

\* Mutant: a worker waits for a second message.
PopSecond(w) ==
    /\ pc[w] = "wait" /\ Len(queue) > 1
    /\ queue' = Tail(queue)
    /\ IF Head(queue) = NULL THEN Go(w, "pass", NULL) ELSE Go(w, "handle", Head(queue))
    /\ UNCHANGED <<lifecycle, events, threads, conns>>

Pop(w) ==
    /\ pc[w] = "wait" /\ queue # <<>>
    /\ queue' = Tail(queue)
    /\ IF Head(queue) = NULL THEN Go(w, "pass", NULL) ELSE Go(w, "handle", Head(queue))
    /\ UNCHANGED <<lifecycle, events, threads, conns>>

\* Handle(): the view or the static file gives a response, or a bodiless 404
\* or 400 is made; each path ends in one SendResponse().
Handle(w, n) ==
    /\ pc[w] = "handle"
    /\ SendResponse(cur[w], n, FALSE, keep[cur[w]])
    /\ Go(w, "wait", NULL)
    /\ UNCHANGED <<lifecycle, events, work, pool, sock, keep, reads>>

\* Mutant: a worker exits without a null connection for the next one.
PassNullKept(w) ==
    /\ pc[w] = "pass"
    /\ Go(w, "out", NULL)
    /\ UNCHANGED <<lifecycle, events, work, conns>>

\* A null connection: pass one on to the next worker and exit.
PassNull(w) ==
    /\ pc[w] = "pass"
    /\ queue' = Append(queue, NULL)
    /\ Go(w, "out", NULL)
    /\ UNCHANGED <<lifecycle, events, threads, conns>>

---------------------------------------------------------------------------
\* Stopping: Stop() holds state_mutex_, the signal handler does not

CallStop(a) ==
    /\ pc[a] = "idle" /\ mutex = NULL /\ stops < MaxStops
    /\ mutex' = a /\ stops' = stops + 1
    /\ Go(a, "close", NULL)
    /\ UNCHANGED <<running, stopped, acceptorOpen, runs, events, work, conns>>

\* A signal completes every wait on signals_, one handler each.
Signal ==
    /\ sigPending > 0
    /\ sigReady' = sigReady + sigPending /\ sigPending' = 0
    /\ UNCHANGED <<lifecycle, acceptPending, acceptAborted, accepted, work, conns, thread>>

OnSignal(l) ==
    /\ Polling(l) /\ sigReady > 0
    /\ sigReady' = sigReady - 1
    /\ Go(l, "close", NULL)
    /\ UNCHANGED <<lifecycle, acceptPending, acceptAborted, accepted, sigPending, work, conns>>

\* DoStop(), in the threads that may run it
CloseAcceptor(t) ==
    /\ Stopping(t) /\ pc[t] = "close"
    /\ acceptorOpen' = FALSE
    /\ acceptPending' = 0 /\ acceptAborted' = acceptAborted + acceptPending
    /\ Go(t, "clear", NULL)
    /\ UNCHANGED <<running, stopped, mutex, runs, stops, accepted, sigPending, sigReady,
                   work, conns>>

\* StopWorkers(): drop what is queued...
ClearQueue(t) ==
    /\ Stopping(t) /\ pc[t] = "clear"
    /\ queue' = <<>>
    /\ Go(t, "null", NULL)
    /\ UNCHANGED <<lifecycle, events, threads, conns>>

\* ... queue a null connection for the first worker...
PushNull(t) ==
    /\ Stopping(t) /\ pc[t] = "null"
    /\ queue' = Append(queue, NULL)
    /\ Go(t, "join", NULL)
    /\ UNCHANGED <<lifecycle, events, threads, conns>>

\* ... join each worker that is joinable, one at a time.  No lock is common to
\* Stop() and the signal handler, so two threads may be in this loop.
InJoin(t) == t \in Apps \cup Loops /\ pc[t] = "joining"

JoinThread(t) ==
    /\ Stopping(t) /\ pc[t] = "join" /\ threads # {}
    /\ \A u \in Apps \cup Loops : ~InJoin(u)
    /\ Go(t, "joining", NULL)
    /\ UNCHANGED <<lifecycle, events, work, conns>>

\* Both walk worker_threads_ from its front: a joinable thread that another
\* thread waits for is joined twice.  join() then throws, out of Stop() or out
\* of the handler, and nothing in webcc catches it.
JoinTwice(t) ==
    /\ Stopping(t) /\ pc[t] = "join" /\ threads # {}
    /\ \E u \in Apps \cup Loops : InJoin(u)
    /\ Go(t, "thrown", NULL)
    /\ UNCHANGED <<lifecycle, events, work, conns>>

\* Mutant: join() does not wait.
ThreadJoinedEarly(t) ==
    /\ Stopping(t) /\ pc[t] = "joining"
    /\ \E w \in threads : threads' = threads \ {w}
    /\ Go(t, "join", NULL)
    /\ UNCHANGED <<lifecycle, events, queue, conns>>

\* join() returns once its thread has ended.
ThreadJoined(t) ==
    /\ Stopping(t) /\ pc[t] = "joining"
    /\ \E w \in threads : pc[w] = "out" /\ threads' = threads \ {w}
    /\ Go(t, "join", NULL)
    /\ UNCHANGED <<lifecycle, events, queue, conns>>

\* None is joinable: worker_threads_ is cleared.
ClearThreads(t) ==
    /\ Stopping(t) /\ pc[t] = "join" /\ threads = {}
    /\ Go(t, "drain", NULL)
    /\ UNCHANGED <<lifecycle, events, work, conns>>

\* Mutant: the last queue_.Clear() of StopWorkers() is missing.
DrainQueueNot(t) ==
    /\ Stopping(t) /\ pc[t] = "drain"
    /\ Go(t, "pool", NULL)
    /\ UNCHANGED <<lifecycle, events, work, conns>>

\* ... and drop the null connection the last of them left.
DrainQueue(t) ==
    /\ Stopping(t) /\ pc[t] = "drain"
    /\ queue' = <<>>
    /\ Go(t, "pool", NULL)
    /\ UNCHANGED <<lifecycle, events, threads, conns>>

\* Mutant: the pool is emptied, its connections are not closed.
ClearPoolOpen(t) ==
    /\ Stopping(t) /\ pc[t] = "pool"
    /\ pool' = {}
    /\ Go(t, "finish", NULL)
    /\ UNCHANGED <<lifecycle, events, work, sock, async, exchange>>

\* ConnectionPool::Clear, all of it under the pool's mutex
ClearPool(t) ==
    /\ Stopping(t) /\ pc[t] = "pool"
    /\ CloseSockets(pool)
    /\ pool' = {}
    /\ Go(t, "finish", NULL)
    /\ UNCHANGED <<lifecycle, events, work, exchange>>

\* Mutant: DoStop() forgets io_context_.stop().
FinishStopLooping(t) ==
    /\ Stopping(t) /\ pc[t] = "finish"
    /\ running' = FALSE
    /\ mutex' = IF t \in Apps THEN NULL ELSE mutex
    /\ Go(t, IF t \in Apps THEN "idle" ELSE "poll", NULL)
    /\ UNCHANGED <<stopped, acceptorOpen, runs, stops, events, work, conns>>

FinishStop(t) ==
    /\ Stopping(t) /\ pc[t] = "finish"
    /\ stopped' = TRUE /\ running' = FALSE
    /\ mutex' = IF t \in Apps THEN NULL ELSE mutex
    /\ Go(t, IF t \in Apps THEN "idle" ELSE "poll", NULL)
    /\ UNCHANGED <<acceptorOpen, runs, stops, events, work, conns>>

---------------------------------------------------------------------------
WorkerStep(w) == Pop(w) \/ PassNull(w) \/ \E n \in 0..MaxPayloads : Handle(w, n)

JoinWorkers(t) == JoinThread(t) \/ JoinTwice(t) \/ ThreadJoined(t) \/ ClearThreads(t)

StopStep(t) == \/ CloseAcceptor(t) \/ ClearQueue(t) \/ PushNull(t) \/ JoinWorkers(t)
               \/ DrainQueue(t) \/ ClearPool(t) \/ FinishStop(t)

\* The rest of a handler that has begun
HandlerStep(l) == PoolInsert(l) \/ ConnectionStart(l) \/ QueuePush(l)
                  \/ PoolErase(l) \/ ConnectionClose(l)

ConnHandler(l, c) == \/ AcceptDropped(l, c) \/ OnAccept(l, c) \/ OnAborted(l, c)
                     \/ OnError(l, c) \/ OnReadMore(l, c) \/ DoWriteBody(l, c)
                     \/ OnWriteOK(l, c)
                     \/ \E k \in BOOLEAN : OnReadBad(l, c, k) \/ OnReadFinished(l, c, k)

Client(c) == ClientConnects(c) \/ ClientSends(c) \/ ClientReceives(c) \/ ClientCloses(c)

\* The exception of a thread joined twice has ended the process.
Ended == \E t \in Apps \cup Loops : pc[t] = "thrown"

Next ==
    /\ ~Ended
    /\ \/ \E r \in Runners : RunRefused(r) \/ RunNotListening(r) \/ Run(r) \/ RunReturns(r)
       \/ \E a \in Apps : CallStop(a)
       \/ Signal
       \/ \E l \in Loops : LeaveLoop(l) \/ OnAcceptAborted(l) \/ OnSignal(l) \/ HandlerStep(l)
       \/ \E l \in Loops, c \in Conns : ConnHandler(l, c)
       \/ \E t \in Apps \cup Loops : StopStep(t)
       \/ \E w \in Workers : WorkerStep(w)
       \/ \E c \in Conns : Client(c)

\* Fairness: a thread that can go on does, while the process lives.  asio runs
\* ready handlers in the order they became ready, so a handler that stays ready
\* while the loop runs is not passed over for ever (strong fairness: the loop
\* threads come and go from their poll).
Fairness ==
    /\ \A r \in Runners : WF_vars(~Ended /\ RunReturns(r))
    /\ \A l \in Loops : WF_vars(~Ended /\ (LeaveLoop(l) \/ HandlerStep(l) \/ StopStep(l)))
    /\ \A a \in Apps : WF_vars(~Ended /\ StopStep(a))
    /\ \A w \in Workers : WF_vars(~Ended /\ WorkerStep(w))
    /\ \A c \in Conns : SF_vars(~Ended /\ \E l \in Loops : ConnHandler(l, c))
    /\ SF_vars(~Ended /\ \E l \in Loops : OnSignal(l))

Spec == Init /\ [][Next]_vars
FairSpec == Spec /\ Fairness

---------------------------------------------------------------------------
\* Properties

TypeOK ==
    /\ running \in BOOLEAN /\ stopped \in BOOLEAN /\ acceptorOpen \in BOOLEAN
    /\ mutex \in Apps \cup {NULL}
    /\ runs \in Nat /\ stops \in Nat
    /\ acceptPending \in Nat /\ acceptAborted \in Nat /\ accepted \subseteq Conns
    /\ sigPending \in Nat /\ sigReady \in Nat
    /\ queue \in Seq(Conns \cup {NULL}) /\ threads \subseteq Workers
    /\ pool \subseteq Conns /\ sock \in [Conns -> {"none", "open", "closed"}]
    /\ op \in [Conns -> {"none", "read"} \cup Writes]
    /\ res \in [Conns -> {"none", "pending", "ok", "err", "aborted"}]
    /\ keep \in [Conns -> BOOLEAN] /\ resp \in [Conns -> {"none", "Keep-Alive", "Close"}]
    /\ left \in [Conns -> Nat] /\ reads \in [Conns -> Nat]
    /\ pc \in [ThreadIds -> StopSteps \cup UsingSteps \cup ClosingSteps
                             \cup {"idle", "running", "out", "poll", "wait", "pass", "thrown"}]
    /\ cur \in [ThreadIds -> Conns \cup {NULL}]
    /\ \A t \in ThreadIds : pc[t] \in UsingSteps \cup ClosingSteps => cur[t] \in Conns

Queued(c)    == \E i \in 1..Len(queue) : queue[i] = c
Holds(t, c)  == cur[t] = c /\ pc[t] \in UsingSteps
Closing(c)   == \E l \in Loops : cur[l] = c /\ pc[l] \in ClosingSteps
NoStopper    == \A t \in Apps \cup Loops : ~Stopping(t)

\* A connection is in one place at a time: it waits for one asynchronous
\* operation, or is in the queue once, or is in the hands of one thread.  What
\* Start, OnRead, WorkerRoutine and SendResponse hand to one another is never
\* duplicated, so no two threads use its request and response at once.
QueuedOnce == \A i, j \in 1..Len(queue) : queue[i] = queue[j] /\ queue[i] \in Conns => i = j

InOnePlace(c) ==
    /\ Queued(c) => op[c] = "none"
    /\ \A t \in ThreadIds : Holds(t, c) => ~Queued(c) /\ op[c] = "none"
    /\ \A t, u \in ThreadIds : Holds(t, c) /\ Holds(u, c) => t = u

OneOwner == QueuedOnce /\ \A c \in Conns : InOnePlace(c)

\* What OneOwner rests on: a socket that is not open yet has no connection,
\* and so is nowhere; only such sockets wait for their accept handler.
Fresh(c) ==
    /\ c \in accepted => sock[c] = "none"
    /\ sock[c] = "none" => /\ op[c] = "none" /\ ~Queued(c) /\ c \notin pool
                           /\ \A t \in ThreadIds : cur[t] # c

FreshSockets == \A c \in Conns : Fresh(c)

\* An open connection of the pool that nothing drives any more (no operation,
\* not queued, in no thread's hands) is about to be closed: by pool_->Close(),
\* or by the pool_.Clear() of the DoStop() that dropped it from the queue.
NoLostConnection ==
    \A c \in pool : \/ op[c] # "none"
                    \/ Queued(c)
                    \/ \E t \in ThreadIds : Holds(t, c)
                    \/ Closing(c)
                    \/ \E t \in Apps \cup Loops : pc[t] \in {"null", "join", "joining", "drain", "pool"}

\* Unless a DoStop() is under way, no worker of the run has taken a null
\* connection and none is left for one to take: also in the runs after a stop.
WorkersServe ==
    NoStopper => /\ \A w \in threads : pc[w] \in {"wait", "handle"}
                 /\ \A i \in 1..Len(queue) : queue[i] # NULL

\* The server uses its queue as WorkQueue, whose promise MessageQueue shows
\* queue.h to keep: messages leave in the order they came, each for one worker,
\* whoever pushes or clears meanwhile.
WQ == INSTANCE WorkQueue WITH
        Messages <- Conns \cup {NULL}, Callers <- Workers,
        list <- queue, calling <- {w \in Workers : pc[w] = "wait"}
UsesWorkQueue == WQ!Init /\ [][WQ!Next]_<<queue, {w \in Workers : pc[w] = "wait"}>>

\* server.cc:68: "While the server is running, there is always at least one
\* asynchronous operation outstanding: the asynchronous accept call".
AcceptAlive ==
    IsRunning /\ threads # {} /\ NoStopper =>
        \/ acceptPending + acceptAborted > 0
        \/ accepted # {}
        \/ \E l \in Loops : pc[l] \in {"insert", "start"}

\* server.h:71: DoStop() closes "all pending connections": when a stopped
\* server's loops have ended no connection is open.
StopClosesAll ==
    stopped /\ ~running /\ NoStopper /\ (\A l \in Loops : pc[l] = "out")
        => \A c \in Conns : sock[c] # "open"

\* connection.cc:114: a 400 for what could not be parsed means "no
\* Keep-Alive": a connection that was told Connection: Close has no further
\* request queued or handled.
CloseIsKept ==
    \A c \in Conns : resp[c] = "Close" =>
        ~Queued(c) /\ \A t \in ThreadIds : ~Holds(t, c)

\* server.h:120: the pool "owns all live connections": a worker handles the
\* request of a connection only while the pool has it.
HandledIsPooled == \A w \in Workers : pc[w] = "handle" => cur[w] \in pool

\* DoStop() ends: the null connection reaches every worker, whatever they
\* were doing and whoever else stops the server, unless two overlapping stops
\* join the same worker and the exception ends the process.
StopCompletes == \A t \in Apps \cup Loops : Stopping(t) ~> ~Stopping(t) \/ Ended

\* Once a DoStop() has begun, Run() returns: the loop threads leave whatever
\* asynchronous operations are still outstanding.
RunReturnsEventually ==
    \A r \in Runners : pc[r] = "running" /\ ~NoStopper ~> pc[r] # "running" \/ Ended

\* While the server runs, a connection whose peer has gone leaves the pool
\* (or the server is stopped first).
DeadLeavesPool ==
    \A c \in Conns :
        res[c] = "err" /\ threads # {} ~> (c \notin pool \/ ~NoStopper \/ stopped)

---------------------------------------------------------------------------
\* The abstract connection of ConnectionProtocol.  An aborted operation has
\* nothing left to do: its connection is gone.

Phase(c) ==
    CASE op[c] = "read" /\ res[c] # "aborted" -> "reading"
      [] op[c] \in Writes /\ res[c] # "aborted" -> "writing"
      [] Queued(c) \/ \E l \in Loops : Holds(l, c) /\ pc[l] = "push" -> "queued"
      [] \E w \in Workers : Holds(w, c) -> "handling"
      [] sock[c] = "none" \/ \E l \in Loops : Holds(l, c) /\ pc[l] # "push" -> "new"
      [] OTHER -> "gone"

Protocol == INSTANCE ConnectionProtocol WITH phase <- [c \in Conns |-> Phase(c)]

\* However many threads run the loop, the workers and Stop(), every connection
\* follows the protocol.
ImplementsProtocol == Protocol!Spec

\* Stopped by its signal handler alone, with one loop thread, the server also
\* answers or drops every request it has read.
ServesProtocol == Protocol!FairSpec
=============================================================================
