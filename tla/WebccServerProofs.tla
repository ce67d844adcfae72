------------------------- MODULE WebccServerProofs -------------------------
(***************************************************************************)
(* Theorems about WebccServer, for any number of connections, workers,     *)
(* loop threads, stoppers and restarts: its types, that a connection is in *)
(* one place at a time, and that the whole server uses its queue as        *)
(* WorkQueue, so that what MessageQueueProofs shows queue.h to promise is  *)
(* all that Server and Connection ask of it.                               *)
(*                                                                         *)
(* From "Stopping the server" on: the null connection that makes the       *)
(* workers exit is never left for the workers of the next run, between     *)
(* stops an accept is always on its way, and no connection is forgotten:   *)
(* what nothing drives any more, the pool lets go.                         *)
(*                                                                         *)
(* From "What the server promises a connection" on: ConnectionProtocol,    *)
(* and what the one loop thread of the default adds.                       *)
(***************************************************************************)
EXTENDS WebccServer, TLAPS

---------------------------------------------------------------------------
\* Type correctness

\* What the steps of the join have in common: they move their own thread, and
\* threads only shrinks.
Joins == {"join", "joining"}

LEMMA JoinMoves ==
    ASSUME NEW t \in Apps \cup Loops, JoinWorkers(t)
    PROVE  /\ pc[t] \in Joins
           /\ \E at \in Joins \cup {"thrown", "drain"} : Go(t, at, NULL)
           /\ threads' \subseteq threads
           /\ UNCHANGED <<lifecycle, events, queue, conns>>
  <1> USE DEF work, Joins
  <1>1. CASE JoinThread(t)
    BY <1>1 DEF JoinThread
  <1>2. CASE JoinTwice(t)
    BY <1>2 DEF JoinTwice
  <1>3. CASE ThreadJoined(t)
    BY <1>3 DEF ThreadJoined
  <1>4. CASE ClearThreads(t)
    BY <1>4 DEF ClearThreads
  <1> QED  BY <1>1, <1>2, <1>3, <1>4 DEF JoinWorkers

LEMMA TypeInit == Init => TypeOK
  <1> SUFFICES ASSUME Init PROVE TypeOK
    OBVIOUS
  <1> USE NullIsNothing DEF Init, ThreadIds, StopSteps, UsingSteps, ClosingSteps, Writes
  <1>1. pc \in [ThreadIds -> {"idle", "out"}]
    OBVIOUS
  <1>2. queue \in Seq(Conns \cup {NULL}) /\ cur \in [ThreadIds -> Conns \cup {NULL}]
    OBVIOUS
  <1>3. \A t \in ThreadIds : pc[t] \notin UsingSteps \cup ClosingSteps
    BY <1>1
  <1> QED  BY <1>1, <1>2, <1>3 DEF TypeOK

LEMMA TypeStep == TypeOK /\ [Next]_vars => TypeOK'
  <1> SUFFICES ASSUME TypeOK, [Next]_vars PROVE TypeOK'
    OBVIOUS
  <1> USE NullIsNothing DEF TypeOK, lifecycle, events, work, exchange, conns, thread, Go,
          ThreadIds, StopSteps, UsingSteps, ClosingSteps, async, Writes
  <1>1. ASSUME NEW r \in Runners, RunRefused(r) PROVE TypeOK'
    BY <1>1 DEF RunRefused, MayRun
  <1>2. ASSUME NEW r \in Runners, RunNotListening(r) PROVE TypeOK'
    <2>1. acceptorOpen' \in BOOLEAN /\ running' \in BOOLEAN /\ stopped' \in BOOLEAN
      BY <1>2, Zenon DEF RunNotListening
    <2> QED  BY <1>2, <2>1 DEF RunNotListening
  <1>3. ASSUME NEW r \in Runners, Run(r) PROVE TypeOK'
    <2>1. pc' \in [ThreadIds -> StopSteps \cup UsingSteps \cup ClosingSteps
                                 \cup {"idle", "running", "out", "poll", "wait", "pass", "thrown"}]
      BY <1>3 DEF Run
    <2>2. \A t \in ThreadIds : pc'[t] \in UsingSteps \cup ClosingSteps => cur'[t] \in Conns
      BY <1>3 DEF Run
    <2>3. acceptPending' \in Nat /\ sigPending' \in Nat /\ runs' \in Nat /\ threads' \subseteq Workers
      BY <1>3 DEF Run, MayRun
    <2>4. running' = TRUE /\ stopped' = FALSE /\ acceptorOpen' = TRUE
      BY <1>3 DEF Run
    <2>5. UNCHANGED <<mutex, stops, acceptAborted, accepted, sigReady, queue, conns, cur>>
      BY <1>3 DEF Run
    <2> QED  BY <2>1, <2>2, <2>3, <2>4, <2>5
  <1>4. ASSUME NEW r \in Runners, RunReturns(r) PROVE TypeOK'
    BY <1>4 DEF RunReturns
  <1>5. ASSUME NEW a \in Apps, CallStop(a) PROVE TypeOK'
    BY <1>5 DEF CallStop
  <1>6. ASSUME Signal PROVE TypeOK'
    BY <1>6 DEF Signal
  <1>7. ASSUME NEW l \in Loops, LeaveLoop(l) PROVE TypeOK'
    BY <1>7 DEF LeaveLoop
  <1>8. ASSUME NEW l \in Loops, OnAcceptAborted(l) PROVE TypeOK'
    BY <1>8 DEF OnAcceptAborted
  <1>9. ASSUME NEW l \in Loops, OnSignal(l) PROVE TypeOK'
    BY <1>9 DEF OnSignal
  <1>10. ASSUME NEW l \in Loops, HandlerStep(l) PROVE TypeOK'
    <2>1. CASE PoolInsert(l)
      BY <2>1 DEF PoolInsert
    <2>2. CASE ConnectionStart(l)
      BY <2>2 DEF ConnectionStart, Begin
    <2>3. CASE QueuePush(l)
      BY <2>3 DEF QueuePush
    <2>4. CASE PoolErase(l)
      BY <2>4 DEF PoolErase
    <2>5. CASE ConnectionClose(l)
      BY <2>5 DEF ConnectionClose, CloseSockets
    <2> QED  BY <1>10, <2>1, <2>2, <2>3, <2>4, <2>5 DEF HandlerStep
  <1>11. ASSUME NEW l \in Loops, NEW c \in Conns, ConnHandler(l, c) PROVE TypeOK'
    <2>1. CASE AcceptDropped(l, c)
      BY <2>1 DEF AcceptDropped
    <2>2. CASE OnAccept(l, c)
      BY <2>2 DEF OnAccept
    <2>3. CASE OnAborted(l, c)
      BY <2>3 DEF OnAborted, Done
    <2>4. CASE OnError(l, c)
      BY <2>4 DEF OnError, Done
    <2>5. CASE OnReadMore(l, c)
      BY <2>5 DEF OnReadMore, Begin
    <2>6. CASE DoWriteBody(l, c)
      BY <2>6 DEF DoWriteBody, Begin
    <2>7. CASE OnWriteOK(l, c)
      <3> HIDE DEF Go
      <3>1. \/ Begin(c, "read") /\ UNCHANGED <<pc, cur>>
            \/ Done(c) /\ Go(l, "erase", c)
        BY <2>7 DEF OnWriteOK
      <3>2. UNCHANGED <<lifecycle, events, work, pool, sock, exchange>>
        BY <2>7 DEF OnWriteOK
      <3>3. CASE Begin(c, "read") /\ UNCHANGED <<pc, cur>>
        BY <3>2, <3>3 DEF Begin
      <3>4. CASE Done(c) /\ Go(l, "erase", c)
        BY <3>2, <3>4 DEF Done, Go
      <3> QED  BY <3>1, <3>3, <3>4
    <2>8. ASSUME NEW k \in BOOLEAN, OnReadBad(l, c, k) PROVE TypeOK'
      BY <2>8 DEF OnReadBad, SendResponse, Begin
    <2>9. ASSUME NEW k \in BOOLEAN, OnReadFinished(l, c, k) PROVE TypeOK'
      BY <2>9 DEF OnReadFinished, Done
    <2> QED  BY <1>11, <2>1, <2>2, <2>3, <2>4, <2>5, <2>6, <2>7, <2>8, <2>9 DEF ConnHandler
  <1>12. ASSUME NEW t \in Apps \cup Loops, StopStep(t) PROVE TypeOK'
    <2>1. CASE CloseAcceptor(t)
      <3>1. acceptAborted' \in Nat /\ acceptPending' \in Nat
        BY <2>1 DEF CloseAcceptor
      <3> QED  BY <2>1, <3>1 DEF CloseAcceptor
    <2>2. CASE ClearQueue(t)
      BY <2>2 DEF ClearQueue
    <2>3. CASE PushNull(t)
      BY <2>3 DEF PushNull
    <2>4. CASE JoinWorkers(t)
      <3>1. PICK at \in Joins \cup {"thrown", "drain"} : Go(t, at, NULL)
        BY <2>4, JoinMoves
      <3>2. threads' \subseteq threads /\ UNCHANGED <<lifecycle, events, queue, conns>>
        BY <2>4, JoinMoves
      <3> QED  BY <3>1, <3>2 DEF Joins
    <2>5. CASE DrainQueue(t)
      BY <2>5 DEF DrainQueue
    <2>6. CASE ClearPool(t)
      BY <2>6 DEF ClearPool, CloseSockets
    <2>7. CASE FinishStop(t)
      BY <2>7 DEF FinishStop
    <2> QED  BY <1>12, <2>1, <2>2, <2>3, <2>4, <2>5, <2>6, <2>7 DEF StopStep
  <1>13. ASSUME NEW w \in Workers, WorkerStep(w) PROVE TypeOK'
    <2>1. CASE Pop(w)
      <3>1. Head(queue) \in Conns \cup {NULL} /\ Tail(queue) \in Seq(Conns \cup {NULL})
        BY <2>1 DEF Pop
      <3> HIDE DEF Go
      <3>2. queue' = Tail(queue) /\ UNCHANGED <<lifecycle, events, threads, conns>>
        BY <2>1 DEF Pop
      <3>3. Go(w, "pass", NULL) \/ (Head(queue) \in Conns /\ Go(w, "handle", Head(queue)))
        BY <2>1, <3>1 DEF Pop
      <3>4. CASE Go(w, "pass", NULL)
        BY <3>1, <3>2, <3>4 DEF Go
      <3>5. CASE Head(queue) \in Conns /\ Go(w, "handle", Head(queue))
        BY <3>1, <3>2, <3>5 DEF Go
      <3> QED  BY <3>3, <3>4, <3>5
    <2>2. CASE PassNull(w)
      BY <2>2 DEF PassNull
    <2>3. ASSUME NEW n \in 0..MaxPayloads, Handle(w, n) PROVE TypeOK'
      BY <2>3, BoundsAreNat DEF Handle, SendResponse, Begin
    <2> QED  BY <1>13, <2>1, <2>2, <2>3 DEF WorkerStep
  <1>14. ASSUME NEW c \in Conns, Client(c) PROVE TypeOK'
    <2>1. CASE ClientConnects(c)
      BY <2>1 DEF ClientConnects
    <2>2. CASE ClientSends(c)
      BY <2>2 DEF ClientSends, Completes
    <2>3. CASE ClientReceives(c)
      BY <2>3 DEF ClientReceives, Completes
    <2>4. CASE ClientCloses(c)
      BY <2>4 DEF ClientCloses, Completes
    <2> QED  BY <1>14, <2>1, <2>2, <2>3, <2>4 DEF Client
  <1>15. CASE UNCHANGED vars
    BY <1>15 DEF vars
  <1> QED  BY <1>1, <1>2, <1>3, <1>4, <1>5, <1>6, <1>7, <1>8, <1>9, <1>10, <1>11, <1>12,
              <1>13, <1>14, <1>15 DEF Next

\* Every variable keeps its type.
THEOREM TypeCorrect == Spec => []TypeOK
  <1>1. Init => TypeOK  BY TypeInit
  <1>2. TypeOK /\ [Next]_vars => TypeOK'  BY TypeStep
  <1> QED  BY <1>1, <1>2, PTL DEF Spec

---------------------------------------------------------------------------
\* A connection is in one place at a time

OwnerInv == TypeOK /\ OneOwner /\ FreshSockets

LEMMA OwnerInit == Init => OneOwner /\ FreshSockets
  BY NullIsNothing DEF Init, OneOwner, QueuedOnce, InOnePlace, FreshSockets, Fresh, Queued, Holds,
                       UsingSteps, ThreadIds

\* A step that gives a connection no new place keeps it in at most one.
Kept(d) ==
    /\ Queued(d)' => Queued(d)
    /\ \A t \in ThreadIds : Holds(t, d)' => Holds(t, d)
    /\ op'[d] # "none" => op[d] # "none"
    /\ sock'[d] = "none" => sock[d] = "none" /\ d \notin pool' /\ \A u \in ThreadIds : cur'[u] # d
    /\ d \in accepted' => sock'[d] = "none"

LEMMA KeptPlace ==
    ASSUME OwnerInv, NEW d \in Conns, Kept(d)
    PROVE  InOnePlace(d)' /\ Fresh(d)'
  BY DEF OwnerInv, OneOwner, FreshSockets, InOnePlace, Fresh, Kept

\* What Go does to the hands of the threads.
LEMMA GoHolds ==
    ASSUME TypeOK, NEW t \in ThreadIds, NEW at, NEW x, Go(t, at, x)
    PROVE  \A u \in ThreadIds, d \in Conns :
              Holds(u, d)' <=> IF u = t THEN d = x /\ at \in UsingSteps ELSE Holds(u, d)
  BY DEF TypeOK, Go, Holds

LEMMA GoCur ==
    ASSUME TypeOK, NEW t \in ThreadIds, NEW at, NEW x, Go(t, at, x)
    PROVE  \A u \in ThreadIds : cur'[u] = IF u = t THEN x ELSE cur[u]
  BY DEF TypeOK, Go

\* What the operations of the queue do to the places of the connections.
LEMMA SameQueue ==
    ASSUME QueuedOnce, queue' = queue
    PROVE  QueuedOnce' /\ \A d \in Conns : Queued(d)' <=> Queued(d)
  BY DEF QueuedOnce, Queued

LEMMA EmptyQueue ==
    ASSUME queue' = <<>>
    PROVE  QueuedOnce' /\ \A d \in Conns : ~Queued(d)'
  BY DEF QueuedOnce, Queued

LEMMA PushQueue ==
    ASSUME TypeOK, QueuedOnce, NEW x \in Conns \cup {NULL}, queue' = Append(queue, x),
           x \in Conns => ~Queued(x)
    PROVE  QueuedOnce' /\ \A d \in Conns : Queued(d)' <=> Queued(d) \/ d = x
  BY DEF TypeOK, QueuedOnce, Queued

LEMMA PopQueue ==
    ASSUME TypeOK, QueuedOnce, queue # <<>>, queue' = Tail(queue)
    PROVE  /\ QueuedOnce' /\ Head(queue) \in Conns \cup {NULL}
           /\ \A d \in Conns : Queued(d)' <=> Queued(d) /\ d # Head(queue)
           /\ Head(queue) \in Conns => Queued(Head(queue))
  <1> USE DEF TypeOK
  <1>1. /\ Len(queue') = Len(queue) - 1 /\ Len(queue) \in Nat \ {0}
        /\ \A i \in 1..Len(queue') : queue'[i] = queue[i + 1]
        /\ Head(queue) = queue[1]
    OBVIOUS
  <1>2. QueuedOnce'
    BY <1>1 DEF QueuedOnce
  <1>3. ASSUME NEW d \in Conns, Queued(d)' PROVE Queued(d) /\ d # Head(queue)
    <2>1. PICK i \in 1..Len(queue') : queue'[i] = d
      BY <1>3 DEF Queued
    <2>2. i + 1 \in 1..Len(queue) /\ queue[i + 1] = d /\ i + 1 # 1 /\ 1 \in 1..Len(queue)
      BY <2>1, <1>1
    <2> QED  BY <2>2, <1>1 DEF Queued, QueuedOnce
  <1>4. ASSUME NEW d \in Conns, Queued(d), d # Head(queue) PROVE Queued(d)'
    <2>1. PICK i \in 1..Len(queue) : queue[i] = d
      BY <1>4 DEF Queued
    <2>2. i - 1 \in 1..Len(queue') /\ queue'[i - 1] = d
      BY <2>1, <1>1, <1>4
    <2> QED  BY <2>2 DEF Queued
  <1>5. Head(queue) \in Conns \cup {NULL} /\ (Head(queue) \in Conns => Queued(Head(queue)))
    BY <1>1 DEF Queued
  <1> QED  BY <1>2, <1>3, <1>4, <1>5

LEMMA OwnerStep == OwnerInv /\ [Next]_vars => OneOwner' /\ FreshSockets'
  <1> SUFFICES ASSUME OwnerInv, [Next]_vars
               PROVE  QueuedOnce' /\ \A d \in Conns : InOnePlace(d)' /\ Fresh(d)'
    BY DEF OneOwner, FreshSockets
  <1> DEFINE Goal == QueuedOnce' /\ \A d \in Conns : InOnePlace(d)' /\ Fresh(d)'
  <1>a. TypeOK /\ QueuedOnce /\ \A c \in Conns : InOnePlace(c) /\ Fresh(c)
    BY DEF OwnerInv, OneOwner, FreshSockets
  <1>b. Apps \cup Loops \cup Workers \cup Runners \subseteq ThreadIds /\ NULL \notin Conns
    BY NullIsNothing DEF ThreadIds
  \* the steps that give no connection a new place
  <1>k. ASSUME QueuedOnce', \A d \in Conns : Kept(d) PROVE Goal
    BY <1>k, KeptPlace
  <1> USE DEF lifecycle, events, work, exchange, conns, thread, async
  <1> HIDE DEF Goal
  <1>1. ASSUME NEW r \in Runners, RunRefused(r) PROVE Goal
    <2>1. queue' = queue
      BY <1>1 DEF RunRefused
    <2>2. QueuedOnce' /\ \A d \in Conns : Queued(d)' => Queued(d)
      BY <1>a, <2>1, SameQueue
    <2>3. \A t \in ThreadIds, d \in Conns : Holds(t, d)' => Holds(t, d)
      BY <1>1 DEF Holds, RunRefused
    <2>4. \A d \in Conns : sock'[d] = "none" => sock[d] = "none" /\ d \notin pool'
      BY <1>1, <1>a, <1>b DEF TypeOK, Fresh, Holds, UsingSteps, RunRefused
    <2>5. \A d \in Conns : sock'[d] = "none" => \A u \in ThreadIds : cur'[u] # d
      BY <1>1, <2>4, <1>a, <1>b DEF Fresh, RunRefused
    <2>6. \A d \in Conns : (op'[d] # "none" => op[d] # "none") /\ (d \in accepted' => sock'[d] = "none")
      BY <1>1, <1>a, <1>b DEF TypeOK, Fresh, RunRefused
    <2>7. \A d \in Conns : Kept(d)
      BY <2>2, <2>3, <2>4, <2>5, <2>6 DEF Kept
    <2> QED  BY <2>2, <2>7, <1>k
  <1>2. ASSUME NEW r \in Runners, RunNotListening(r) PROVE Goal
    <2>1. queue' = queue
      BY <1>2 DEF RunNotListening
    <2>2. QueuedOnce' /\ \A d \in Conns : Queued(d)' => Queued(d)
      BY <1>a, <2>1, SameQueue
    <2>3. \A t \in ThreadIds, d \in Conns : Holds(t, d)' => Holds(t, d)
      BY <1>2 DEF Holds, RunNotListening
    <2>4. \A d \in Conns : sock'[d] = "none" => sock[d] = "none" /\ d \notin pool'
      BY <1>2, <1>a, <1>b DEF TypeOK, Fresh, Holds, UsingSteps, RunNotListening
    <2>5. \A d \in Conns : sock'[d] = "none" => \A u \in ThreadIds : cur'[u] # d
      BY <1>2, <2>4, <1>a, <1>b DEF Fresh, RunNotListening
    <2>6. \A d \in Conns : (op'[d] # "none" => op[d] # "none") /\ (d \in accepted' => sock'[d] = "none")
      BY <1>2, <1>a, <1>b DEF TypeOK, Fresh, RunNotListening
    <2>7. \A d \in Conns : Kept(d)
      BY <2>2, <2>3, <2>4, <2>5, <2>6 DEF Kept
    <2> QED  BY <2>2, <2>7, <1>k
  <1>3. ASSUME NEW r \in Runners, Run(r) PROVE Goal
    <2>1. queue' = queue
      BY <1>3 DEF Run
    <2>2. QueuedOnce' /\ \A d \in Conns : Queued(d)' => Queued(d)
      BY <1>a, <2>1, SameQueue
    <2>3. \A t \in ThreadIds, d \in Conns : Holds(t, d)' => Holds(t, d)
      BY <1>3 DEF Holds, UsingSteps, Run
    <2>4. \A d \in Conns : sock'[d] = "none" => sock[d] = "none" /\ d \notin pool'
      BY <1>3, <1>a, <1>b DEF TypeOK, Fresh, Holds, UsingSteps, Run
    <2>5. \A d \in Conns : sock'[d] = "none" => \A u \in ThreadIds : cur'[u] # d
      BY <1>3, <2>4, <1>a, <1>b DEF Fresh, Run
    <2>6. \A d \in Conns : (op'[d] # "none" => op[d] # "none") /\ (d \in accepted' => sock'[d] = "none")
      BY <1>3, <1>a, <1>b DEF TypeOK, Fresh, Run
    <2>7. \A d \in Conns : Kept(d)
      BY <2>2, <2>3, <2>4, <2>5, <2>6 DEF Kept
    <2> QED  BY <2>2, <2>7, <1>k
  <1>4. ASSUME NEW r \in Runners, RunReturns(r) PROVE Goal
    <2>1. queue' = queue
      BY <1>4 DEF RunReturns
    <2>2. QueuedOnce' /\ \A d \in Conns : Queued(d)' => Queued(d)
      BY <1>a, <2>1, SameQueue
    <2>3. \A u \in ThreadIds, d \in Conns : Holds(u, d)' => Holds(u, d)
      BY <1>4, <1>a, <1>b, GoHolds DEF UsingSteps, Holds, RunReturns
    <2>4. \A d \in Conns : sock'[d] = "none" => sock[d] = "none" /\ d \notin pool'
      BY <1>4, <1>a, <1>b DEF TypeOK, Fresh, Holds, UsingSteps, RunReturns
    <2>5. \A d \in Conns : sock'[d] = "none" => \A u \in ThreadIds : cur'[u] # d
      BY <1>4, <2>4, <1>a, <1>b, GoCur DEF Fresh, RunReturns
    <2>6. \A d \in Conns : (op'[d] # "none" => op[d] # "none") /\ (d \in accepted' => sock'[d] = "none")
      BY <1>4, <1>a, <1>b DEF TypeOK, Fresh, RunReturns
    <2>7. \A d \in Conns : Kept(d)
      BY <2>2, <2>3, <2>4, <2>5, <2>6 DEF Kept
    <2> QED  BY <2>2, <2>7, <1>k
  <1>5. ASSUME NEW a \in Apps, CallStop(a) PROVE Goal
    <2>1. queue' = queue
      BY <1>5 DEF CallStop
    <2>2. QueuedOnce' /\ \A d \in Conns : Queued(d)' => Queued(d)
      BY <1>a, <2>1, SameQueue
    <2>3. \A u \in ThreadIds, d \in Conns : Holds(u, d)' => Holds(u, d)
      BY <1>5, <1>a, <1>b, GoHolds DEF UsingSteps, Holds, CallStop
    <2>4. \A d \in Conns : sock'[d] = "none" => sock[d] = "none" /\ d \notin pool'
      BY <1>5, <1>a, <1>b DEF TypeOK, Fresh, Holds, UsingSteps, CallStop
    <2>5. \A d \in Conns : sock'[d] = "none" => \A u \in ThreadIds : cur'[u] # d
      BY <1>5, <2>4, <1>a, <1>b, GoCur DEF Fresh, CallStop
    <2>6. \A d \in Conns : (op'[d] # "none" => op[d] # "none") /\ (d \in accepted' => sock'[d] = "none")
      BY <1>5, <1>a, <1>b DEF TypeOK, Fresh, CallStop
    <2>7. \A d \in Conns : Kept(d)
      BY <2>2, <2>3, <2>4, <2>5, <2>6 DEF Kept
    <2> QED  BY <2>2, <2>7, <1>k
  <1>6. ASSUME Signal PROVE Goal
    <2>1. queue' = queue
      BY <1>6 DEF Signal
    <2>2. QueuedOnce' /\ \A d \in Conns : Queued(d)' => Queued(d)
      BY <1>a, <2>1, SameQueue
    <2>3. \A t \in ThreadIds, d \in Conns : Holds(t, d)' => Holds(t, d)
      BY <1>6 DEF Holds, Signal
    <2>4. \A d \in Conns : sock'[d] = "none" => sock[d] = "none" /\ d \notin pool'
      BY <1>6, <1>a, <1>b DEF TypeOK, Fresh, Holds, UsingSteps, Signal
    <2>5. \A d \in Conns : sock'[d] = "none" => \A u \in ThreadIds : cur'[u] # d
      BY <1>6, <2>4, <1>a, <1>b DEF Fresh, Signal
    <2>6. \A d \in Conns : (op'[d] # "none" => op[d] # "none") /\ (d \in accepted' => sock'[d] = "none")
      BY <1>6, <1>a, <1>b DEF TypeOK, Fresh, Signal
    <2>7. \A d \in Conns : Kept(d)
      BY <2>2, <2>3, <2>4, <2>5, <2>6 DEF Kept
    <2> QED  BY <2>2, <2>7, <1>k
  <1>7. ASSUME NEW l \in Loops, LeaveLoop(l) PROVE Goal
    <2>1. queue' = queue
      BY <1>7 DEF LeaveLoop
    <2>2. QueuedOnce' /\ \A d \in Conns : Queued(d)' => Queued(d)
      BY <1>a, <2>1, SameQueue
    <2>3. \A u \in ThreadIds, d \in Conns : Holds(u, d)' => Holds(u, d)
      BY <1>7, <1>a, <1>b, GoHolds DEF UsingSteps, Holds, LeaveLoop
    <2>4. \A d \in Conns : sock'[d] = "none" => sock[d] = "none" /\ d \notin pool'
      BY <1>7, <1>a, <1>b DEF TypeOK, Fresh, Holds, UsingSteps, LeaveLoop
    <2>5. \A d \in Conns : sock'[d] = "none" => \A u \in ThreadIds : cur'[u] # d
      BY <1>7, <2>4, <1>a, <1>b, GoCur DEF Fresh, LeaveLoop
    <2>6. \A d \in Conns : (op'[d] # "none" => op[d] # "none") /\ (d \in accepted' => sock'[d] = "none")
      BY <1>7, <1>a, <1>b DEF TypeOK, Fresh, LeaveLoop
    <2>7. \A d \in Conns : Kept(d)
      BY <2>2, <2>3, <2>4, <2>5, <2>6 DEF Kept
    <2> QED  BY <2>2, <2>7, <1>k
  <1>8. ASSUME NEW l \in Loops, OnAcceptAborted(l) PROVE Goal
    <2>1. queue' = queue
      BY <1>8 DEF OnAcceptAborted
    <2>2. QueuedOnce' /\ \A d \in Conns : Queued(d)' => Queued(d)
      BY <1>a, <2>1, SameQueue
    <2>3. \A t \in ThreadIds, d \in Conns : Holds(t, d)' => Holds(t, d)
      BY <1>8 DEF Holds, OnAcceptAborted
    <2>4. \A d \in Conns : sock'[d] = "none" => sock[d] = "none" /\ d \notin pool'
      BY <1>8, <1>a, <1>b DEF TypeOK, Fresh, Holds, UsingSteps, OnAcceptAborted
    <2>5. \A d \in Conns : sock'[d] = "none" => \A u \in ThreadIds : cur'[u] # d
      BY <1>8, <2>4, <1>a, <1>b DEF Fresh, OnAcceptAborted
    <2>6. \A d \in Conns : (op'[d] # "none" => op[d] # "none") /\ (d \in accepted' => sock'[d] = "none")
      BY <1>8, <1>a, <1>b DEF TypeOK, Fresh, OnAcceptAborted
    <2>7. \A d \in Conns : Kept(d)
      BY <2>2, <2>3, <2>4, <2>5, <2>6 DEF Kept
    <2> QED  BY <2>2, <2>7, <1>k
  <1>9. ASSUME NEW l \in Loops, OnSignal(l) PROVE Goal
    <2>1. queue' = queue
      BY <1>9 DEF OnSignal
    <2>2. QueuedOnce' /\ \A d \in Conns : Queued(d)' => Queued(d)
      BY <1>a, <2>1, SameQueue
    <2>3. \A u \in ThreadIds, d \in Conns : Holds(u, d)' => Holds(u, d)
      BY <1>9, <1>a, <1>b, GoHolds DEF UsingSteps, Holds, OnSignal
    <2>4. \A d \in Conns : sock'[d] = "none" => sock[d] = "none" /\ d \notin pool'
      BY <1>9, <1>a, <1>b DEF TypeOK, Fresh, Holds, UsingSteps, OnSignal
    <2>5. \A d \in Conns : sock'[d] = "none" => \A u \in ThreadIds : cur'[u] # d
      BY <1>9, <2>4, <1>a, <1>b, GoCur DEF Fresh, OnSignal
    <2>6. \A d \in Conns : (op'[d] # "none" => op[d] # "none") /\ (d \in accepted' => sock'[d] = "none")
      BY <1>9, <1>a, <1>b DEF TypeOK, Fresh, OnSignal
    <2>7. \A d \in Conns : Kept(d)
      BY <2>2, <2>3, <2>4, <2>5, <2>6 DEF Kept
    <2> QED  BY <2>2, <2>7, <1>k
  <1>10. ASSUME NEW l \in Loops, HandlerStep(l) PROVE Goal
    <2>1. CASE PoolInsert(l)
      <3>1. queue' = queue
        BY <2>1 DEF PoolInsert
      <3>2. QueuedOnce' /\ \A d \in Conns : Queued(d)' => Queued(d)
        BY <1>a, <3>1, SameQueue
      <3>3. \A u \in ThreadIds, d \in Conns : Holds(u, d)' => Holds(u, d)
        BY <2>1, <1>a, <1>b, GoHolds DEF UsingSteps, Holds, PoolInsert
      <3>4. \A d \in Conns : sock'[d] = "none" => sock[d] = "none" /\ d \notin pool'
        BY <2>1, <1>a, <1>b DEF TypeOK, Fresh, Holds, UsingSteps, PoolInsert
      <3>5. \A d \in Conns : sock'[d] = "none" => \A u \in ThreadIds : cur'[u] # d
        BY <2>1, <3>4, <1>a, <1>b, GoCur DEF Fresh, PoolInsert
      <3>6. \A d \in Conns : (op'[d] # "none" => op[d] # "none") /\ (d \in accepted' => sock'[d] = "none")
        BY <2>1, <1>a, <1>b DEF TypeOK, Fresh, PoolInsert
      <3>7. \A d \in Conns : Kept(d)
        BY <3>2, <3>3, <3>4, <3>5, <3>6 DEF Kept
      <3> QED  BY <3>2, <3>7, <1>k
    <2>2. CASE ConnectionStart(l)
      <3>0. PICK c \in Conns : c = cur[l]
        BY <2>2, <1>a, <1>b DEF ConnectionStart, QueuePush, Handle, TypeOK, UsingSteps
      <3>1. c \in Conns /\ Holds(l, c) /\ ~Queued(c) /\ sock[c] # "none"
        BY <2>2, <3>0, <1>a, <1>b DEF ConnectionStart, TypeOK, Holds, UsingSteps, InOnePlace, Fresh
      <3>2. QueuedOnce' /\ \A d \in Conns : Queued(d)' <=> Queued(d)
        BY <2>2, <1>a, SameQueue DEF ConnectionStart
      <3>3. Go(l, "poll", NULL) /\ Begin(c, "read") /\ UNCHANGED <<pool, sock, accepted>>
        BY <2>2, <3>0 DEF ConnectionStart
      <3>4. \A u \in ThreadIds, d \in Conns : Holds(u, d)' => Holds(u, d) /\ u # l
        BY <3>3, <1>a, <1>b, GoHolds DEF UsingSteps
      <3>5. \A u \in ThreadIds : ~Holds(u, c)'
        BY <3>1, <3>4, <1>a, <1>b DEF InOnePlace
      <3>6. \A d \in Conns \ {c} : Kept(d)
        BY <3>2, <3>3, <3>4, <1>a, <1>b, GoCur DEF Kept, Begin, Fresh, TypeOK
      <3>7. InOnePlace(c)' /\ Fresh(c)'
        BY <3>1, <3>2, <3>3, <3>5, <1>a DEF InOnePlace, Fresh
      <3>8. \A d \in Conns \ {c} : InOnePlace(d)' /\ Fresh(d)'
        BY <3>6, KeptPlace
      <3> QED  BY <3>2, <3>7, <3>8 DEF Goal
    <2>3. CASE QueuePush(l)
      <3>0. PICK c \in Conns : c = cur[l]
        BY <2>3, <1>a, <1>b DEF ConnectionStart, QueuePush, Handle, TypeOK, UsingSteps
      <3>1. c \in Conns /\ Holds(l, c) /\ ~Queued(c) /\ op[c] = "none" /\ sock[c] # "none"
        BY <2>3, <3>0, <1>a, <1>b DEF QueuePush, TypeOK, Holds, UsingSteps, InOnePlace, Fresh
      <3>2. Go(l, "poll", NULL) /\ queue' = Append(queue, c) /\ UNCHANGED <<op, pool, sock, accepted>>
        BY <2>3, <3>0 DEF QueuePush
      <3>3. QueuedOnce' /\ \A d \in Conns : Queued(d)' <=> Queued(d) \/ d = c
        BY <3>1, <3>2, <1>a, PushQueue
      <3>4. \A u \in ThreadIds, d \in Conns : Holds(u, d)' => Holds(u, d) /\ u # l
        BY <3>2, <1>a, <1>b, GoHolds DEF UsingSteps
      <3>5. \A u \in ThreadIds : ~Holds(u, c)'
        BY <3>1, <3>4, <1>a, <1>b DEF InOnePlace
      <3>6. \A d \in Conns \ {c} : Kept(d)
        BY <3>2, <3>3, <3>4, <1>a, <1>b, GoCur DEF Kept, Fresh
      <3>7. InOnePlace(c)' /\ Fresh(c)'
        BY <3>1, <3>2, <3>5, <1>a DEF InOnePlace, Fresh
      <3>8. \A d \in Conns \ {c} : InOnePlace(d)' /\ Fresh(d)'
        BY <3>6, KeptPlace
      <3> QED  BY <3>3, <3>7, <3>8 DEF Goal
    <2>4. CASE PoolErase(l)
      <3>1. queue' = queue
        BY <2>4 DEF PoolErase
      <3>2. QueuedOnce' /\ \A d \in Conns : Queued(d)' => Queued(d)
        BY <1>a, <3>1, SameQueue
      <3>3. \A u \in ThreadIds, d \in Conns : Holds(u, d)' => Holds(u, d)
        BY <2>4, <1>a, <1>b, GoHolds DEF UsingSteps, Holds, PoolErase
      <3>4. \A d \in Conns : sock'[d] = "none" => sock[d] = "none" /\ d \notin pool'
        BY <2>4, <1>a, <1>b DEF TypeOK, Fresh, Holds, UsingSteps, PoolErase
      <3>5. \A d \in Conns : sock'[d] = "none" => \A u \in ThreadIds : cur'[u] # d
        BY <2>4, <3>4, <1>a, <1>b, GoCur DEF Fresh, PoolErase
      <3>6. \A d \in Conns : (op'[d] # "none" => op[d] # "none") /\ (d \in accepted' => sock'[d] = "none")
        BY <2>4, <1>a, <1>b DEF TypeOK, Fresh, PoolErase
      <3>7. \A d \in Conns : Kept(d)
        BY <3>2, <3>3, <3>4, <3>5, <3>6 DEF Kept
      <3> QED  BY <3>2, <3>7, <1>k
    <2>5. CASE ConnectionClose(l)
      <3>1. queue' = queue
        BY <2>5 DEF ConnectionClose, CloseSockets
      <3>2. QueuedOnce' /\ \A d \in Conns : Queued(d)' => Queued(d)
        BY <1>a, <3>1, SameQueue
      <3>3. \A u \in ThreadIds, d \in Conns : Holds(u, d)' => Holds(u, d)
        BY <2>5, <1>a, <1>b, GoHolds DEF UsingSteps, Holds, ConnectionClose, CloseSockets
      <3>4. \A d \in Conns : sock'[d] = "none" => sock[d] = "none" /\ d \notin pool'
        BY <2>5, <1>a, <1>b DEF TypeOK, Fresh, Holds, UsingSteps, ConnectionClose, CloseSockets
      <3>5. \A d \in Conns : sock'[d] = "none" => \A u \in ThreadIds : cur'[u] # d
        BY <2>5, <3>4, <1>a, <1>b, GoCur DEF Fresh, ConnectionClose, CloseSockets
      <3>6. \A d \in Conns : (op'[d] # "none" => op[d] # "none") /\ (d \in accepted' => sock'[d] = "none")
        BY <2>5, <1>a, <1>b DEF TypeOK, Fresh, ConnectionClose, CloseSockets
      <3>7. \A d \in Conns : Kept(d)
        BY <3>2, <3>3, <3>4, <3>5, <3>6 DEF Kept
      <3> QED  BY <3>2, <3>7, <1>k
    <2> QED  BY <1>10, <2>1, <2>2, <2>3, <2>4, <2>5 DEF HandlerStep
  <1>11. ASSUME NEW l \in Loops, NEW c \in Conns, ConnHandler(l, c) PROVE Goal
    <2>1. CASE AcceptDropped(l, c)
      <3>1. queue' = queue
        BY <2>1 DEF AcceptDropped
      <3>2. QueuedOnce' /\ \A d \in Conns : Queued(d)' => Queued(d)
        BY <1>a, <3>1, SameQueue
      <3>3. \A t \in ThreadIds, d \in Conns : Holds(t, d)' => Holds(t, d)
        BY <2>1 DEF Holds, AcceptDropped
      <3>4. \A d \in Conns : sock'[d] = "none" => sock[d] = "none" /\ d \notin pool'
        BY <2>1, <1>a, <1>b DEF TypeOK, Fresh, Holds, UsingSteps, AcceptDropped
      <3>5. \A d \in Conns : sock'[d] = "none" => \A u \in ThreadIds : cur'[u] # d
        BY <2>1, <3>4, <1>a, <1>b DEF Fresh, AcceptDropped
      <3>6. \A d \in Conns : (op'[d] # "none" => op[d] # "none") /\ (d \in accepted' => sock'[d] = "none")
        BY <2>1, <1>a, <1>b DEF TypeOK, Fresh, AcceptDropped
      <3>7. \A d \in Conns : Kept(d)
        BY <3>2, <3>3, <3>4, <3>5, <3>6 DEF Kept
      <3> QED  BY <3>2, <3>7, <1>k
    <2>2. CASE OnAccept(l, c)
      <3>1. ~Queued(c) /\ op[c] = "none" /\ \A t \in ThreadIds : ~Holds(t, c)
        BY <2>2, <1>a DEF OnAccept, Fresh, Holds
      <3>2. QueuedOnce' /\ \A d \in Conns : Queued(d)' <=> Queued(d)
        BY <2>2, <1>a, SameQueue DEF OnAccept
      <3>3. /\ Go(l, "insert", c) /\ op' = op /\ pool' = pool
            /\ accepted' = accepted \ {c} /\ sock' = [sock EXCEPT ![c] = "open"]
        BY <2>2 DEF OnAccept
      <3>4. \A u \in ThreadIds, d \in Conns : Holds(u, d)' <=> IF u = l THEN d = c ELSE Holds(u, d)
        BY <3>3, <1>a, <1>b, GoHolds DEF UsingSteps
      <3>5. \A d \in Conns \ {c} : Kept(d)
        BY <3>2, <3>3, <3>4, <1>a, <1>b, GoCur DEF Kept, Fresh, TypeOK
      <3>6. InOnePlace(c)' /\ Fresh(c)'
        BY <3>1, <3>2, <3>3, <3>4, <1>a DEF InOnePlace, Fresh, TypeOK
      <3>7. \A d \in Conns \ {c} : InOnePlace(d)' /\ Fresh(d)'
        BY <3>5, KeptPlace
      <3> QED  BY <3>2, <3>6, <3>7 DEF Goal
    <2>3. CASE OnAborted(l, c)
      <3>1. queue' = queue
        BY <2>3 DEF OnAborted, Done, Ready, Polling
      <3>2. QueuedOnce' /\ \A d \in Conns : Queued(d)' => Queued(d)
        BY <1>a, <3>1, SameQueue
      <3>3. \A t \in ThreadIds, d \in Conns : Holds(t, d)' => Holds(t, d)
        BY <2>3 DEF Holds, OnAborted, Done, Ready, Polling
      <3>4. \A d \in Conns : sock'[d] = "none" => sock[d] = "none" /\ d \notin pool'
        BY <2>3, <1>a, <1>b DEF TypeOK, Fresh, Holds, UsingSteps, OnAborted, Done, Ready, Polling
      <3>5. \A d \in Conns : sock'[d] = "none" => \A u \in ThreadIds : cur'[u] # d
        BY <2>3, <3>4, <1>a, <1>b DEF Fresh, OnAborted, Done, Ready, Polling
      <3>6. \A d \in Conns : (op'[d] # "none" => op[d] # "none") /\ (d \in accepted' => sock'[d] = "none")
        BY <2>3, <1>a, <1>b DEF TypeOK, Fresh, OnAborted, Done, Ready, Polling
      <3>7. \A d \in Conns : Kept(d)
        BY <3>2, <3>3, <3>4, <3>5, <3>6 DEF Kept
      <3> QED  BY <3>2, <3>7, <1>k
    <2>4. CASE OnError(l, c)
      <3>1. queue' = queue
        BY <2>4 DEF OnError, Done, Ready, Polling
      <3>2. QueuedOnce' /\ \A d \in Conns : Queued(d)' => Queued(d)
        BY <1>a, <3>1, SameQueue
      <3>3. \A u \in ThreadIds, d \in Conns : Holds(u, d)' => Holds(u, d)
        BY <2>4, <1>a, <1>b, GoHolds DEF UsingSteps, Holds, OnError, Done, Ready, Polling
      <3>4. \A d \in Conns : sock'[d] = "none" => sock[d] = "none" /\ d \notin pool'
        BY <2>4, <1>a, <1>b DEF TypeOK, Fresh, Holds, UsingSteps, OnError, Done, Ready, Polling
      <3>5. \A d \in Conns : sock'[d] = "none" => \A u \in ThreadIds : cur'[u] # d
        <4>1. op[c] # "none" /\ sock' = sock /\ Go(l, "erase", c)
          BY <2>4 DEF OnError, Ready, Writes
        <4>2. sock[c] # "none"
          BY <4>1, <1>a DEF Fresh
        <4> QED  BY <4>1, <4>2, <1>a, <1>b, GoCur DEF Fresh
      <3>6. \A d \in Conns : (op'[d] # "none" => op[d] # "none") /\ (d \in accepted' => sock'[d] = "none")
        BY <2>4, <1>a, <1>b DEF TypeOK, Fresh, OnError, Done, Ready, Polling
      <3>7. \A d \in Conns : Kept(d)
        BY <3>2, <3>3, <3>4, <3>5, <3>6 DEF Kept
      <3> QED  BY <3>2, <3>7, <1>k
    <2>5. CASE OnReadMore(l, c)
      <3>1. queue' = queue
        BY <2>5 DEF OnReadMore, Begin, Ready, Polling
      <3>2. QueuedOnce' /\ \A d \in Conns : Queued(d)' => Queued(d)
        BY <1>a, <3>1, SameQueue
      <3>3. \A t \in ThreadIds, d \in Conns : Holds(t, d)' => Holds(t, d)
        BY <2>5 DEF Holds, OnReadMore, Begin, Ready, Polling
      <3>4. \A d \in Conns : sock'[d] = "none" => sock[d] = "none" /\ d \notin pool'
        BY <2>5, <1>a, <1>b DEF TypeOK, Fresh, Holds, UsingSteps, OnReadMore, Begin, Ready, Polling
      <3>5. \A d \in Conns : sock'[d] = "none" => \A u \in ThreadIds : cur'[u] # d
        BY <2>5, <3>4, <1>a, <1>b DEF Fresh, OnReadMore, Begin, Ready, Polling
      <3>6. \A d \in Conns : (op'[d] # "none" => op[d] # "none") /\ (d \in accepted' => sock'[d] = "none")
        BY <2>5, <1>a, <1>b DEF TypeOK, Fresh, OnReadMore, Begin, Ready, Polling
      <3>7. \A d \in Conns : Kept(d)
        BY <3>2, <3>3, <3>4, <3>5, <3>6 DEF Kept
      <3> QED  BY <3>2, <3>7, <1>k
    <2>6. CASE DoWriteBody(l, c)
      <3>1. queue' = queue
        BY <2>6 DEF DoWriteBody, Begin, Writes, Ready, Polling
      <3>2. QueuedOnce' /\ \A d \in Conns : Queued(d)' => Queued(d)
        BY <1>a, <3>1, SameQueue
      <3>3. \A t \in ThreadIds, d \in Conns : Holds(t, d)' => Holds(t, d)
        BY <2>6 DEF Holds, DoWriteBody, Begin, Writes, Ready, Polling
      <3>4. \A d \in Conns : sock'[d] = "none" => sock[d] = "none" /\ d \notin pool'
        BY <2>6, <1>a, <1>b DEF TypeOK, Fresh, Holds, UsingSteps, DoWriteBody, Begin, Writes, Ready, Polling
      <3>5. \A d \in Conns : sock'[d] = "none" => \A u \in ThreadIds : cur'[u] # d
        BY <2>6, <3>4, <1>a, <1>b DEF Fresh, DoWriteBody, Begin, Writes, Ready, Polling
      <3>6. \A d \in Conns : (op'[d] # "none" => op[d] # "none") /\ (d \in accepted' => sock'[d] = "none")
        BY <2>6, <1>a, <1>b DEF TypeOK, Fresh, DoWriteBody, Begin, Writes, Ready, Polling
      <3>7. \A d \in Conns : Kept(d)
        BY <3>2, <3>3, <3>4, <3>5, <3>6 DEF Kept
      <3> QED  BY <3>2, <3>7, <1>k
    <2>7. CASE OnWriteOK(l, c)
      <3>1. queue' = queue
        BY <2>7 DEF OnWriteOK, Done, Begin, Writes, Ready, Polling
      <3>2. QueuedOnce' /\ \A d \in Conns : Queued(d)' => Queued(d)
        BY <1>a, <3>1, SameQueue
      <3>3. \A u \in ThreadIds, d \in Conns : Holds(u, d)' => Holds(u, d)
        BY <2>7, <1>a, <1>b, GoHolds DEF UsingSteps, Holds, OnWriteOK, Done, Begin, Writes, Ready, Polling
      <3>4. \A d \in Conns : sock'[d] = "none" => sock[d] = "none" /\ d \notin pool'
        BY <2>7, <1>a, <1>b DEF TypeOK, Fresh, Holds, UsingSteps, OnWriteOK, Done, Begin, Writes, Ready, Polling
      <3>5. \A d \in Conns : sock'[d] = "none" => \A u \in ThreadIds : cur'[u] # d
        BY <2>7, <3>4, <1>a, <1>b, GoCur DEF Fresh, OnWriteOK, Done, Begin, Writes, Ready, Polling
      <3>6. \A d \in Conns : (op'[d] # "none" => op[d] # "none") /\ (d \in accepted' => sock'[d] = "none")
        BY <2>7, <1>a, <1>b DEF TypeOK, Fresh, OnWriteOK, Done, Begin, Writes, Ready, Polling
      <3>7. \A d \in Conns : Kept(d)
        BY <3>2, <3>3, <3>4, <3>5, <3>6 DEF Kept
      <3> QED  BY <3>2, <3>7, <1>k
    <2>8. ASSUME NEW k \in BOOLEAN, OnReadBad(l, c, k) PROVE Goal
      <3>1. queue' = queue
        BY <2>8 DEF OnReadBad, SendResponse, Begin, Ready, Polling
      <3>2. QueuedOnce' /\ \A d \in Conns : Queued(d)' => Queued(d)
        BY <1>a, <3>1, SameQueue
      <3>3. \A u \in ThreadIds, d \in Conns : Holds(u, d)' => Holds(u, d)
        BY <2>8, <1>a, <1>b, GoHolds DEF UsingSteps, Holds, OnReadBad, SendResponse, Begin, Ready, Polling
      <3>4. \A d \in Conns : sock'[d] = "none" => sock[d] = "none" /\ d \notin pool'
        BY <2>8, <1>a, <1>b DEF TypeOK, Fresh, Holds, UsingSteps, OnReadBad, SendResponse, Begin, Ready, Polling
      <3>5. \A d \in Conns : sock'[d] = "none" => \A u \in ThreadIds : cur'[u] # d
        BY <2>8, <3>4, <1>a, <1>b, GoCur DEF Fresh, OnReadBad, SendResponse, Begin, Ready, Polling
      <3>6. \A d \in Conns : (op'[d] # "none" => op[d] # "none") /\ (d \in accepted' => sock'[d] = "none")
        BY <2>8, <1>a, <1>b DEF TypeOK, Fresh, OnReadBad, SendResponse, Begin, Ready, Polling
      <3>7. \A d \in Conns : Kept(d)
        BY <3>2, <3>3, <3>4, <3>5, <3>6 DEF Kept
      <3> QED  BY <3>2, <3>7, <1>k
    <2>9. ASSUME NEW k \in BOOLEAN, OnReadFinished(l, c, k) PROVE Goal
      <3>1. ~Queued(c) /\ (\A t \in ThreadIds : ~Holds(t, c)) /\ sock[c] # "none"
        BY <2>9, <1>a DEF OnReadFinished, Ready, InOnePlace, Fresh
      <3>2. QueuedOnce' /\ \A d \in Conns : Queued(d)' <=> Queued(d)
        BY <2>9, <1>a, SameQueue DEF OnReadFinished
      <3>3. Go(l, "push", c) /\ Done(c) /\ UNCHANGED <<pool, sock, accepted>>
        BY <2>9 DEF OnReadFinished
      <3>4. \A u \in ThreadIds, d \in Conns : Holds(u, d)' <=> IF u = l THEN d = c ELSE Holds(u, d)
        BY <3>3, <1>a, <1>b, GoHolds DEF UsingSteps
      <3>5. \A d \in Conns \ {c} : Kept(d)
        BY <3>2, <3>3, <3>4, <1>a, <1>b, GoCur DEF Kept, Done, Fresh, TypeOK
      <3>6. InOnePlace(c)' /\ Fresh(c)'
        BY <3>1, <3>2, <3>3, <3>4, <1>a DEF InOnePlace, Fresh, Done, TypeOK
      <3>7. \A d \in Conns \ {c} : InOnePlace(d)' /\ Fresh(d)'
        BY <3>5, KeptPlace
      <3> QED  BY <3>2, <3>6, <3>7 DEF Goal
    <2> QED  BY <1>11, <2>1, <2>2, <2>3, <2>4, <2>5, <2>6, <2>7, <2>8, <2>9 DEF ConnHandler
  <1>12. ASSUME NEW t \in Apps \cup Loops, StopStep(t) PROVE Goal
    <2>1. CASE CloseAcceptor(t)
      <3>1. queue' = queue
        BY <2>1 DEF CloseAcceptor
      <3>2. QueuedOnce' /\ \A d \in Conns : Queued(d)' => Queued(d)
        BY <1>a, <3>1, SameQueue
      <3>3. \A u \in ThreadIds, d \in Conns : Holds(u, d)' => Holds(u, d)
        BY <2>1, <1>a, <1>b, GoHolds DEF UsingSteps, Holds, CloseAcceptor
      <3>4. \A d \in Conns : sock'[d] = "none" => sock[d] = "none" /\ d \notin pool'
        BY <2>1, <1>a, <1>b DEF TypeOK, Fresh, Holds, UsingSteps, CloseAcceptor
      <3>5. \A d \in Conns : sock'[d] = "none" => \A u \in ThreadIds : cur'[u] # d
        BY <2>1, <3>4, <1>a, <1>b, GoCur DEF Fresh, CloseAcceptor
      <3>6. \A d \in Conns : (op'[d] # "none" => op[d] # "none") /\ (d \in accepted' => sock'[d] = "none")
        BY <2>1, <1>a, <1>b DEF TypeOK, Fresh, CloseAcceptor
      <3>7. \A d \in Conns : Kept(d)
        BY <3>2, <3>3, <3>4, <3>5, <3>6 DEF Kept
      <3> QED  BY <3>2, <3>7, <1>k
    <2>2. CASE ClearQueue(t)
      <3>1. queue' = <<>>
        BY <2>2 DEF ClearQueue
      <3>2. QueuedOnce' /\ \A d \in Conns : Queued(d)' => Queued(d)
        BY <1>a, <3>1, EmptyQueue
      <3>3. \A u \in ThreadIds, d \in Conns : Holds(u, d)' => Holds(u, d)
        BY <2>2, <1>a, <1>b, GoHolds DEF UsingSteps, Holds, ClearQueue
      <3>4. \A d \in Conns : sock'[d] = "none" => sock[d] = "none" /\ d \notin pool'
        BY <2>2, <1>a, <1>b DEF TypeOK, Fresh, Holds, UsingSteps, ClearQueue
      <3>5. \A d \in Conns : sock'[d] = "none" => \A u \in ThreadIds : cur'[u] # d
        BY <2>2, <3>4, <1>a, <1>b, GoCur DEF Fresh, ClearQueue
      <3>6. \A d \in Conns : (op'[d] # "none" => op[d] # "none") /\ (d \in accepted' => sock'[d] = "none")
        BY <2>2, <1>a, <1>b DEF TypeOK, Fresh, ClearQueue
      <3>7. \A d \in Conns : Kept(d)
        BY <3>2, <3>3, <3>4, <3>5, <3>6 DEF Kept
      <3> QED  BY <3>2, <3>7, <1>k
    <2>3. CASE PushNull(t)
      <3>1. queue' = Append(queue, NULL)
        BY <2>3 DEF PushNull
      <3>2. QueuedOnce' /\ \A d \in Conns : Queued(d)' => Queued(d)
        BY <1>a, <1>b, <3>1, PushQueue
      <3>3. \A u \in ThreadIds, d \in Conns : Holds(u, d)' => Holds(u, d)
        BY <2>3, <1>a, <1>b, GoHolds DEF UsingSteps, Holds, PushNull
      <3>4. \A d \in Conns : sock'[d] = "none" => sock[d] = "none" /\ d \notin pool'
        BY <2>3, <1>a, <1>b DEF TypeOK, Fresh, Holds, UsingSteps, PushNull
      <3>5. \A d \in Conns : sock'[d] = "none" => \A u \in ThreadIds : cur'[u] # d
        BY <2>3, <3>4, <1>a, <1>b, GoCur DEF Fresh, PushNull
      <3>6. \A d \in Conns : (op'[d] # "none" => op[d] # "none") /\ (d \in accepted' => sock'[d] = "none")
        BY <2>3, <1>a, <1>b DEF TypeOK, Fresh, PushNull
      <3>7. \A d \in Conns : Kept(d)
        BY <3>2, <3>3, <3>4, <3>5, <3>6 DEF Kept
      <3> QED  BY <3>2, <3>7, <1>k
    <2>4. CASE JoinWorkers(t)
      <3>1. queue' = queue /\ UNCHANGED <<lifecycle, events, conns>>
        BY <2>4, JoinMoves
      <3>2. QueuedOnce' /\ \A d \in Conns : Queued(d)' => Queued(d)
        BY <1>a, <3>1, SameQueue
      <3>3. \A u \in ThreadIds, d \in Conns : Holds(u, d)' => Holds(u, d)
        <4>1. PICK at \in Joins \cup {"thrown", "drain"} : Go(t, at, NULL)
          BY <2>4, JoinMoves
        <4> QED  BY <4>1, <1>a, <1>b, GoHolds DEF UsingSteps, Holds, Joins
      <3>4. \A d \in Conns : sock'[d] = "none" => sock[d] = "none" /\ d \notin pool'
        BY <3>1, <1>a DEF TypeOK, Fresh, conns
      <3>5. \A d \in Conns : sock'[d] = "none" => \A u \in ThreadIds : cur'[u] # d
        BY <2>4, <3>4, <1>a, <1>b, GoCur, JoinMoves DEF Fresh
      <3>6. \A d \in Conns : (op'[d] # "none" => op[d] # "none") /\ (d \in accepted' => sock'[d] = "none")
        BY <3>1, <1>a DEF TypeOK, Fresh, conns, async, events
      <3>7. \A d \in Conns : Kept(d)
        BY <3>2, <3>3, <3>4, <3>5, <3>6 DEF Kept
      <3> QED  BY <3>2, <3>7, <1>k
    <2>5. CASE DrainQueue(t)
      <3>1. queue' = <<>>
        BY <2>5 DEF DrainQueue
      <3>2. QueuedOnce' /\ \A d \in Conns : Queued(d)' => Queued(d)
        BY <1>a, <3>1, EmptyQueue
      <3>3. \A u \in ThreadIds, d \in Conns : Holds(u, d)' => Holds(u, d)
        BY <2>5, <1>a, <1>b, GoHolds DEF UsingSteps, Holds, DrainQueue
      <3>4. \A d \in Conns : sock'[d] = "none" => sock[d] = "none" /\ d \notin pool'
        BY <2>5, <1>a, <1>b DEF TypeOK, Fresh, Holds, UsingSteps, DrainQueue
      <3>5. \A d \in Conns : sock'[d] = "none" => \A u \in ThreadIds : cur'[u] # d
        BY <2>5, <3>4, <1>a, <1>b, GoCur DEF Fresh, DrainQueue
      <3>6. \A d \in Conns : (op'[d] # "none" => op[d] # "none") /\ (d \in accepted' => sock'[d] = "none")
        BY <2>5, <1>a, <1>b DEF TypeOK, Fresh, DrainQueue
      <3>7. \A d \in Conns : Kept(d)
        BY <3>2, <3>3, <3>4, <3>5, <3>6 DEF Kept
      <3> QED  BY <3>2, <3>7, <1>k
    <2>6. CASE ClearPool(t)
      <3>1. queue' = queue
        BY <2>6 DEF ClearPool, CloseSockets
      <3>2. QueuedOnce' /\ \A d \in Conns : Queued(d)' => Queued(d)
        BY <1>a, <3>1, SameQueue
      <3>3. \A u \in ThreadIds, d \in Conns : Holds(u, d)' => Holds(u, d)
        BY <2>6, <1>a, <1>b, GoHolds DEF UsingSteps, Holds, ClearPool, CloseSockets
      <3>4. \A d \in Conns : sock'[d] = "none" => sock[d] = "none" /\ d \notin pool'
        BY <2>6, <1>a, <1>b DEF TypeOK, Fresh, Holds, UsingSteps, ClearPool, CloseSockets
      <3>5. \A d \in Conns : sock'[d] = "none" => \A u \in ThreadIds : cur'[u] # d
        BY <2>6, <3>4, <1>a, <1>b, GoCur DEF Fresh, ClearPool, CloseSockets
      <3>6. \A d \in Conns : (op'[d] # "none" => op[d] # "none") /\ (d \in accepted' => sock'[d] = "none")
        BY <2>6, <1>a, <1>b DEF TypeOK, Fresh, ClearPool, CloseSockets
      <3>7. \A d \in Conns : Kept(d)
        BY <3>2, <3>3, <3>4, <3>5, <3>6 DEF Kept
      <3> QED  BY <3>2, <3>7, <1>k
    <2>7. CASE FinishStop(t)
      <3>1. queue' = queue
        BY <2>7 DEF FinishStop
      <3>2. QueuedOnce' /\ \A d \in Conns : Queued(d)' => Queued(d)
        BY <1>a, <3>1, SameQueue
      <3>3. \A u \in ThreadIds, d \in Conns : Holds(u, d)' => Holds(u, d)
        BY <2>7, <1>a, <1>b, GoHolds DEF UsingSteps, Holds, FinishStop
      <3>4. \A d \in Conns : sock'[d] = "none" => sock[d] = "none" /\ d \notin pool'
        BY <2>7, <1>a, <1>b DEF TypeOK, Fresh, Holds, UsingSteps, FinishStop
      <3>5. \A d \in Conns : sock'[d] = "none" => \A u \in ThreadIds : cur'[u] # d
        BY <2>7, <3>4, <1>a, <1>b, GoCur DEF Fresh, FinishStop
      <3>6. \A d \in Conns : (op'[d] # "none" => op[d] # "none") /\ (d \in accepted' => sock'[d] = "none")
        BY <2>7, <1>a, <1>b DEF TypeOK, Fresh, FinishStop
      <3>7. \A d \in Conns : Kept(d)
        BY <3>2, <3>3, <3>4, <3>5, <3>6 DEF Kept
      <3> QED  BY <3>2, <3>7, <1>k
    <2> QED  BY <1>12, <2>1, <2>2, <2>3, <2>4, <2>5, <2>6, <2>7 DEF StopStep
  <1>13. ASSUME NEW w \in Workers, WorkerStep(w) PROVE Goal
    <2>1. CASE Pop(w)
      <3>0. PICK c \in Conns \cup {NULL} : c = Head(queue)
        BY <2>1, <1>a, PopQueue DEF Pop
      <3>1. queue # <<>> /\ queue' = Tail(queue) /\ UNCHANGED <<op, pool, sock, accepted>>
        BY <2>1 DEF Pop
      <3>2. /\ QueuedOnce' /\ c \in Conns \cup {NULL}
            /\ \A d \in Conns : Queued(d)' <=> Queued(d) /\ d # c
            /\ c \in Conns => Queued(c)
        BY <3>0, <3>1, <1>a, PopQueue
      <3>3. IF c = NULL THEN Go(w, "pass", NULL) ELSE Go(w, "handle", c)
        BY <2>1, <3>0 DEF Pop
      <3>4. CASE c = NULL
        <4>1. \A u \in ThreadIds, d \in Conns : Holds(u, d)' => Holds(u, d)
          BY <3>3, <3>4, <1>a, <1>b, GoHolds DEF UsingSteps
        <4>2. \A d \in Conns : Kept(d)
          BY <3>3, <3>4, <3>1, <3>2, <4>1, <1>a, <1>b, GoCur DEF Kept, Fresh
        <4> QED  BY <3>2, <4>2, <1>k
      <3>5. CASE c # NULL
        <4>1. c \in Conns /\ op[c] = "none" /\ sock[c] # "none" /\ \A t \in ThreadIds : ~Holds(t, c)
          BY <3>2, <3>5, <1>a DEF InOnePlace, Fresh
        <4>2. \A u \in ThreadIds, d \in Conns :
                 Holds(u, d)' <=> IF u = w THEN d = c ELSE Holds(u, d)
          BY <3>3, <3>5, <1>a, <1>b, GoHolds DEF UsingSteps
        <4>3. \A d \in Conns \ {c} : Kept(d)
          BY <3>3, <3>5, <3>1, <3>2, <4>2, <1>a, <1>b, GoCur DEF Kept, Fresh
        <4>4. InOnePlace(c)' /\ Fresh(c)'
          BY <3>1, <3>2, <4>1, <4>2, <1>a DEF InOnePlace, Fresh
        <4>5. \A d \in Conns \ {c} : InOnePlace(d)' /\ Fresh(d)'
          BY <4>3, KeptPlace
        <4> QED  BY <3>2, <4>4, <4>5 DEF Goal
      <3> QED  BY <3>4, <3>5
    <2>2. CASE PassNull(w)
      <3>1. queue' = Append(queue, NULL)
        BY <2>2 DEF PassNull
      <3>2. QueuedOnce' /\ \A d \in Conns : Queued(d)' => Queued(d)
        BY <1>a, <1>b, <3>1, PushQueue
      <3>3. \A u \in ThreadIds, d \in Conns : Holds(u, d)' => Holds(u, d)
        BY <2>2, <1>a, <1>b, GoHolds DEF UsingSteps, Holds, PassNull
      <3>4. \A d \in Conns : sock'[d] = "none" => sock[d] = "none" /\ d \notin pool'
        BY <2>2, <1>a, <1>b DEF TypeOK, Fresh, Holds, UsingSteps, PassNull
      <3>5. \A d \in Conns : sock'[d] = "none" => \A u \in ThreadIds : cur'[u] # d
        BY <2>2, <3>4, <1>a, <1>b, GoCur DEF Fresh, PassNull
      <3>6. \A d \in Conns : (op'[d] # "none" => op[d] # "none") /\ (d \in accepted' => sock'[d] = "none")
        BY <2>2, <1>a, <1>b DEF TypeOK, Fresh, PassNull
      <3>7. \A d \in Conns : Kept(d)
        BY <3>2, <3>3, <3>4, <3>5, <3>6 DEF Kept
      <3> QED  BY <3>2, <3>7, <1>k
    <2>3. ASSUME NEW n \in 0..MaxPayloads, Handle(w, n) PROVE Goal
      <3>0. PICK c \in Conns : c = cur[w]
        BY <2>3, <1>a, <1>b DEF ConnectionStart, QueuePush, Handle, TypeOK, UsingSteps
      <3>1. c \in Conns /\ Holds(w, c) /\ ~Queued(c) /\ sock[c] # "none"
        BY <2>3, <3>0, <1>a, <1>b DEF Handle, TypeOK, Holds, UsingSteps, InOnePlace, Fresh
      <3>2. QueuedOnce' /\ \A d \in Conns : Queued(d)' <=> Queued(d)
        BY <2>3, <1>a, SameQueue DEF Handle
      <3>3. Go(w, "wait", NULL) /\ Begin(c, "headers") /\ UNCHANGED <<pool, sock, accepted>>
        BY <2>3, <3>0 DEF Handle, SendResponse
      <3>4. \A u \in ThreadIds, d \in Conns : Holds(u, d)' => Holds(u, d) /\ u # w
        BY <3>3, <1>a, <1>b, GoHolds DEF UsingSteps
      <3>5. \A u \in ThreadIds : ~Holds(u, c)'
        BY <3>1, <3>4, <1>a, <1>b DEF InOnePlace
      <3>6. \A d \in Conns \ {c} : Kept(d)
        BY <3>2, <3>3, <3>4, <1>a, <1>b, GoCur DEF Kept, Begin, Fresh, TypeOK
      <3>7. InOnePlace(c)' /\ Fresh(c)'
        BY <3>1, <3>2, <3>3, <3>5, <1>a DEF InOnePlace, Fresh
      <3>8. \A d \in Conns \ {c} : InOnePlace(d)' /\ Fresh(d)'
        BY <3>6, KeptPlace
      <3> QED  BY <3>2, <3>7, <3>8 DEF Goal
    <2> QED  BY <1>13, <2>1, <2>2, <2>3 DEF WorkerStep
  <1>14. ASSUME NEW c \in Conns, Client(c) PROVE Goal
    <2>1. CASE ClientConnects(c)
      <3>1. queue' = queue
        BY <2>1 DEF ClientConnects
      <3>2. QueuedOnce' /\ \A d \in Conns : Queued(d)' => Queued(d)
        BY <1>a, <3>1, SameQueue
      <3>3. \A t \in ThreadIds, d \in Conns : Holds(t, d)' => Holds(t, d)
        BY <2>1 DEF Holds, ClientConnects
      <3>4. \A d \in Conns : sock'[d] = "none" => sock[d] = "none" /\ d \notin pool'
        BY <2>1, <1>a, <1>b DEF TypeOK, Fresh, Holds, UsingSteps, ClientConnects
      <3>5. \A d \in Conns : sock'[d] = "none" => \A u \in ThreadIds : cur'[u] # d
        BY <2>1, <3>4, <1>a, <1>b DEF Fresh, ClientConnects
      <3>6. \A d \in Conns : (op'[d] # "none" => op[d] # "none") /\ (d \in accepted' => sock'[d] = "none")
        BY <2>1, <1>a, <1>b DEF TypeOK, Fresh, ClientConnects
      <3>7. \A d \in Conns : Kept(d)
        BY <3>2, <3>3, <3>4, <3>5, <3>6 DEF Kept
      <3> QED  BY <3>2, <3>7, <1>k
    <2>2. CASE ClientSends(c)
      <3>1. queue' = queue
        BY <2>2 DEF ClientSends, Completes
      <3>2. QueuedOnce' /\ \A d \in Conns : Queued(d)' => Queued(d)
        BY <1>a, <3>1, SameQueue
      <3>3. \A t \in ThreadIds, d \in Conns : Holds(t, d)' => Holds(t, d)
        BY <2>2 DEF Holds, ClientSends, Completes
      <3>4. \A d \in Conns : sock'[d] = "none" => sock[d] = "none" /\ d \notin pool'
        BY <2>2, <1>a, <1>b DEF TypeOK, Fresh, Holds, UsingSteps, ClientSends, Completes
      <3>5. \A d \in Conns : sock'[d] = "none" => \A u \in ThreadIds : cur'[u] # d
        BY <2>2, <3>4, <1>a, <1>b DEF Fresh, ClientSends, Completes
      <3>6. \A d \in Conns : (op'[d] # "none" => op[d] # "none") /\ (d \in accepted' => sock'[d] = "none")
        BY <2>2, <1>a, <1>b DEF TypeOK, Fresh, ClientSends, Completes
      <3>7. \A d \in Conns : Kept(d)
        BY <3>2, <3>3, <3>4, <3>5, <3>6 DEF Kept
      <3> QED  BY <3>2, <3>7, <1>k
    <2>3. CASE ClientReceives(c)
      <3>1. queue' = queue
        BY <2>3 DEF ClientReceives, Completes
      <3>2. QueuedOnce' /\ \A d \in Conns : Queued(d)' => Queued(d)
        BY <1>a, <3>1, SameQueue
      <3>3. \A t \in ThreadIds, d \in Conns : Holds(t, d)' => Holds(t, d)
        BY <2>3 DEF Holds, ClientReceives, Completes
      <3>4. \A d \in Conns : sock'[d] = "none" => sock[d] = "none" /\ d \notin pool'
        BY <2>3, <1>a, <1>b DEF TypeOK, Fresh, Holds, UsingSteps, ClientReceives, Completes
      <3>5. \A d \in Conns : sock'[d] = "none" => \A u \in ThreadIds : cur'[u] # d
        BY <2>3, <3>4, <1>a, <1>b DEF Fresh, ClientReceives, Completes
      <3>6. \A d \in Conns : (op'[d] # "none" => op[d] # "none") /\ (d \in accepted' => sock'[d] = "none")
        BY <2>3, <1>a, <1>b DEF TypeOK, Fresh, ClientReceives, Completes
      <3>7. \A d \in Conns : Kept(d)
        BY <3>2, <3>3, <3>4, <3>5, <3>6 DEF Kept
      <3> QED  BY <3>2, <3>7, <1>k
    <2>4. CASE ClientCloses(c)
      <3>1. queue' = queue
        BY <2>4 DEF ClientCloses, Completes
      <3>2. QueuedOnce' /\ \A d \in Conns : Queued(d)' => Queued(d)
        BY <1>a, <3>1, SameQueue
      <3>3. \A t \in ThreadIds, d \in Conns : Holds(t, d)' => Holds(t, d)
        BY <2>4 DEF Holds, ClientCloses, Completes
      <3>4. \A d \in Conns : sock'[d] = "none" => sock[d] = "none" /\ d \notin pool'
        BY <2>4, <1>a, <1>b DEF TypeOK, Fresh, Holds, UsingSteps, ClientCloses, Completes
      <3>5. \A d \in Conns : sock'[d] = "none" => \A u \in ThreadIds : cur'[u] # d
        BY <2>4, <3>4, <1>a, <1>b DEF Fresh, ClientCloses, Completes
      <3>6. \A d \in Conns : (op'[d] # "none" => op[d] # "none") /\ (d \in accepted' => sock'[d] = "none")
        BY <2>4, <1>a, <1>b DEF TypeOK, Fresh, ClientCloses, Completes
      <3>7. \A d \in Conns : Kept(d)
        BY <3>2, <3>3, <3>4, <3>5, <3>6 DEF Kept
      <3> QED  BY <3>2, <3>7, <1>k
    <2> QED  BY <1>14, <2>1, <2>2, <2>3, <2>4 DEF Client
  <1>15. ASSUME UNCHANGED vars PROVE Goal
    <2>1. queue' = queue
      BY <1>15 DEF vars
    <2>2. QueuedOnce' /\ \A d \in Conns : Queued(d)' => Queued(d)
      BY <1>a, <2>1, SameQueue
    <2>3. \A t \in ThreadIds, d \in Conns : Holds(t, d)' => Holds(t, d)
      BY <1>15 DEF Holds, vars
    <2>4. \A d \in Conns : sock'[d] = "none" => sock[d] = "none" /\ d \notin pool'
      BY <1>15, <1>a, <1>b DEF TypeOK, Fresh, Holds, UsingSteps, vars
    <2>5. \A d \in Conns : sock'[d] = "none" => \A u \in ThreadIds : cur'[u] # d
      BY <1>15, <2>4, <1>a, <1>b DEF Fresh, vars
    <2>6. \A d \in Conns : (op'[d] # "none" => op[d] # "none") /\ (d \in accepted' => sock'[d] = "none")
      BY <1>15, <1>a, <1>b DEF TypeOK, Fresh, vars
    <2>7. \A d \in Conns : Kept(d)
      BY <2>2, <2>3, <2>4, <2>5, <2>6 DEF Kept
    <2> QED  BY <2>2, <2>7, <1>k
  <1> QED  BY <1>1, <1>2, <1>3, <1>4, <1>5, <1>6, <1>7, <1>8, <1>9,
              <1>10, <1>11, <1>12, <1>13, <1>14, <1>15 DEF Next, Goal

\* Every connection is in one place at a time: in the queue once, in one
\* thread's hands, or behind one asynchronous operation.
THEOREM OneOwnerAlways == Spec => []OneOwner
  <1>1. Init => OwnerInv  BY TypeInit, OwnerInit DEF OwnerInv
  <1>2. OwnerInv /\ [Next]_vars => OwnerInv'  BY TypeStep, OwnerStep DEF OwnerInv
  <1>3. OwnerInv => OneOwner  BY DEF OwnerInv
  <1> QED  BY <1>1, <1>2, <1>3, PTL DEF Spec

---------------------------------------------------------------------------
\* The server and WorkQueue

\* The workers inside PopOrWait()
Waiting == {w \in Workers : pc[w] = "wait"}

\* The view of the server through the queue does not change.
Elsewhere == UNCHANGED <<queue, Waiting>>

\* Only a worker can be in PopOrWait(): what the other threads do leaves the
\* waiting workers alone.
LEMMA OthersGo ==
    ASSUME TypeOK, NEW t \in ThreadIds \ Workers, NEW at, NEW x, Go(t, at, x)
    PROVE  Waiting' = Waiting
  BY DEF TypeOK, Go, Waiting

LEMMA WorkerGoes ==
    ASSUME TypeOK, NEW w \in Workers, NEW at, NEW x, Go(w, at, x)
    PROVE  Waiting' = IF at = "wait" THEN Waiting \cup {w} ELSE Waiting \ {w}
  BY DEF TypeOK, Go, Waiting, ThreadIds

LEMMA SamePlaces ==
    ASSUME UNCHANGED thread
    PROVE  Waiting' = Waiting
  BY DEF thread, Waiting

\* What the threads of the event loop do in a handler.
LEMMA LoopUsesQueue ==
    ASSUME TypeOK, NEW l \in Loops, NEW c \in Conns, HandlerStep(l) \/ ConnHandler(l, c)
    PROVE  Elsewhere \/ \E m \in Conns : WQ!Put(m)
  <1>l. l \in ThreadIds \ Workers
    BY ThreadsDisjoint DEF ThreadIds
  <1>1. CASE QueuePush(l)
    <2>1. cur[l] \in Conns
      BY <1>1, <1>l DEF QueuePush, TypeOK, UsingSteps
    <2>2. Waiting' = Waiting
      BY <1>1, <1>l, OthersGo DEF QueuePush
    <2>3. WQ!Put(cur[l])
      BY <1>1, <2>2 DEF QueuePush, WQ!Put, Waiting
    <2> QED  BY <2>1, <2>3
  <1>2. CASE PoolInsert(l) \/ ConnectionStart(l) \/ PoolErase(l) \/ ConnectionClose(l)
    <2>1. queue' = queue /\ \E at, x : Go(l, at, x)
      BY <1>2 DEF PoolInsert, ConnectionStart, PoolErase, ConnectionClose, work
    <2> QED  BY <2>1, <1>l, OthersGo DEF Elsewhere
  <1>3. CASE ConnHandler(l, c)
    <2>1. queue' = queue
      BY <1>3 DEF ConnHandler, AcceptDropped, OnAccept, OnAborted, OnError, OnReadMore,
                  DoWriteBody, OnWriteOK, OnReadBad, OnReadFinished, work
    <2>2. UNCHANGED thread \/ \E at, x : Go(l, at, x)
      BY <1>3 DEF ConnHandler, AcceptDropped, OnAccept, OnAborted, OnError, OnReadMore,
                  DoWriteBody, OnWriteOK, OnReadBad, OnReadFinished
    <2> QED  BY <2>1, <2>2, <1>l, OthersGo, SamePlaces DEF Elsewhere
  <1> QED  BY <1>1, <1>2, <1>3 DEF HandlerStep

\* What DoStop() does.
LEMMA StopUsesQueue ==
    ASSUME TypeOK, NEW t \in Apps \cup Loops, StopStep(t)
    PROVE  Elsewhere \/ WQ!Empty \/ WQ!Put(NULL)
  <1>t. t \in ThreadIds \ Workers
    BY ThreadsDisjoint DEF ThreadIds
  <1>1. \E at, x : Go(t, at, x)
    BY DEF StopStep, CloseAcceptor, ClearQueue, PushNull, JoinWorkers, JoinThread, JoinTwice,
       ThreadJoined, ClearThreads, DrainQueue, ClearPool, FinishStop
  <1>2. Waiting' = Waiting
    BY <1>1, <1>t, OthersGo
  <1>3. queue' = queue \/ queue' = <<>> \/ queue' = Append(queue, NULL)
    BY DEF StopStep, CloseAcceptor, ClearQueue, PushNull, JoinWorkers, JoinThread, JoinTwice,
       ThreadJoined, ClearThreads, DrainQueue, ClearPool, FinishStop, work
  <1> QED  BY <1>2, <1>3 DEF Elsewhere, Waiting, WQ!Empty, WQ!Put

\* What a worker does.
LEMMA WorkerUsesQueue ==
    ASSUME TypeOK, NEW w \in Workers, WorkerStep(w)
    PROVE  WQ!Take(w) \/ WQ!Put(NULL) \/ WQ!Come
  <1>1. CASE Pop(w)
    <2>1. w \in Waiting /\ queue # <<>> /\ queue' = Tail(queue)
      BY <1>1 DEF Pop, Waiting
    <2>2. Go(w, "pass", NULL) \/ Go(w, "handle", Head(queue))
      BY <1>1 DEF Pop
    <2>3. Waiting' = Waiting \ {w}
      BY <2>2, WorkerGoes
    <2> QED  BY <2>1, <2>3 DEF WQ!Take, Waiting
  <1>2. CASE PassNull(w)
    <2>1. w \notin Waiting /\ queue' = Append(queue, NULL)
      BY <1>2 DEF PassNull, Waiting
    <2>2. Waiting' = Waiting \ {w}
      BY <1>2, WorkerGoes DEF PassNull
    <2> QED  BY <2>1, <2>2 DEF WQ!Put, Waiting
  <1>3. ASSUME NEW n \in 0..MaxPayloads, Handle(w, n) PROVE WQ!Come
    <2>1. queue' = queue
      BY <1>3 DEF Handle, work
    <2>2. Waiting' = Waiting \cup {w}
      BY <1>3, WorkerGoes DEF Handle
    <2>3. Waiting \subseteq Waiting' /\ Waiting' \subseteq Workers
      BY <2>2 DEF Waiting
    <2> QED  BY <2>1, <2>3 DEF WQ!Come, Waiting
  <1> QED  BY <1>1, <1>2, <1>3 DEF WorkerStep

LEMMA ServerUsesQueue ==
    TypeOK /\ [Next]_vars => [WQ!Next]_<<queue, {w \in Workers : pc[w] = "wait"}>>
  <1> SUFFICES ASSUME TypeOK, [Next]_vars PROVE WQ!Next \/ Elsewhere
    BY DEF Elsewhere, Waiting
  <1>0. /\ \A c \in Conns : WQ!Put(c) => WQ!Next
        /\ WQ!Put(NULL) => WQ!Next
        /\ WQ!Empty => WQ!Next
        /\ WQ!Come => WQ!Next
        /\ \A w \in Workers : WQ!Take(w) => WQ!Next
    BY DEF WQ!Next, WQ!TakeSome
  <1>1. ASSUME NEW r \in Runners,
               RunRefused(r) \/ RunNotListening(r) \/ Run(r) \/ RunReturns(r)
        PROVE  WQ!Come \/ Elsewhere
    <2>1. CASE RunRefused(r) \/ RunNotListening(r)
      BY <2>1, SamePlaces DEF RunRefused, RunNotListening, work, Elsewhere
    <2>2. CASE Run(r)
      <3>1. queue' = queue
        BY <2>2 DEF Run
      <3>2. \A w \in Workers : pc'[w] = "wait"
        BY <2>2, ThreadsDisjoint DEF Run, ThreadIds
      <3>3. Waiting \subseteq Waiting' /\ Waiting' \subseteq Workers
        BY <3>2 DEF Waiting
      <3> QED  BY <3>1, <3>3 DEF WQ!Come, Waiting
    <2>3. CASE RunReturns(r)
      <3>1. queue' = queue /\ Go(r, "idle", NULL) /\ r \in ThreadIds \ Workers
        BY <2>3, ThreadsDisjoint DEF RunReturns, work, ThreadIds
      <3> QED  BY <3>1, OthersGo DEF Elsewhere
    <2> QED  BY <1>1, <2>1, <2>2, <2>3
  <1>2. ASSUME NEW a \in Apps, CallStop(a) PROVE Elsewhere
    <2>1. queue' = queue /\ Go(a, "close", NULL) /\ a \in ThreadIds \ Workers
      BY <1>2, ThreadsDisjoint DEF CallStop, work, ThreadIds
    <2> QED  BY <2>1, OthersGo DEF Elsewhere
  <1>3. CASE Signal
    BY <1>3, SamePlaces DEF Signal, work, Elsewhere
  <1>4. ASSUME NEW l \in Loops, LeaveLoop(l) \/ OnAcceptAborted(l) \/ OnSignal(l)
        PROVE  Elsewhere
    <2>1. queue' = queue /\ l \in ThreadIds \ Workers
      BY <1>4, ThreadsDisjoint DEF LeaveLoop, OnAcceptAborted, OnSignal, work, ThreadIds
    <2>2. UNCHANGED thread \/ Go(l, "out", NULL) \/ Go(l, "close", NULL)
      BY <1>4 DEF LeaveLoop, OnAcceptAborted, OnSignal
    <2> QED  BY <2>1, <2>2, OthersGo, SamePlaces DEF Elsewhere
  <1>5. ASSUME NEW l \in Loops, NEW c \in Conns, HandlerStep(l) \/ ConnHandler(l, c)
        PROVE  WQ!Next \/ Elsewhere
    BY <1>5, <1>0, LoopUsesQueue
  <1>6. ASSUME NEW l \in Loops, HandlerStep(l) PROVE \E c \in Conns : TRUE
    <2>1. pc[l] \in UsingSteps \cup ClosingSteps /\ l \in ThreadIds
      BY <1>6 DEF HandlerStep, PoolInsert, ConnectionStart, QueuePush, PoolErase,
                  ConnectionClose, UsingSteps, ClosingSteps, ThreadIds
    <2> QED  BY <2>1 DEF TypeOK
  <1>7. ASSUME NEW t \in Apps \cup Loops, StopStep(t) PROVE WQ!Next \/ Elsewhere
    BY <1>7, <1>0, StopUsesQueue
  <1>8. ASSUME NEW w \in Workers, WorkerStep(w) PROVE WQ!Next
    BY <1>8, <1>0, WorkerUsesQueue
  <1>9. ASSUME NEW c \in Conns, Client(c) PROVE Elsewhere
    BY <1>9, SamePlaces DEF Client, ClientConnects, ClientSends, ClientReceives, ClientCloses,
                            work, Elsewhere
  <1>10. CASE UNCHANGED vars
    BY <1>10, SamePlaces DEF vars, work, Elsewhere
  <1> QED  BY <1>0, <1>1, <1>2, <1>3, <1>4, <1>5, <1>6, <1>7, <1>8, <1>9, <1>10 DEF Next

\* Whoever pushes, takes, clears or starts anew, in whatever order: a message
\* is put at the end, taken from the front by one worker, or dropped with all
\* the others, and no worker leaves PopOrWait() without one.
THEOREM ServerKeepsToQueue == Spec => UsesWorkQueue
  <1>1. Init => WQ!Init
    BY DEF Init, WQ!Init
  <1> QED  BY <1>1, TypeCorrect, ServerUsesQueue, PTL DEF Spec, UsesWorkQueue

---------------------------------------------------------------------------
(* Stopping the server                                                     *)

Stoppers == Apps \cup Loops

\* The steps of DoStop() from the join of the workers on, and after it
Late   == {"join", "joining", "drain", "pool", "finish"}
Joined == {"drain", "pool", "finish"}

NullQueued == \E i \in 1..Len(queue) : queue[i] = NULL
AllOut     == \A w \in Workers : pc[w] = "out"

\* A worker that has not exited is one that DoStop() joins.
WorkersJoined ==
    \A w \in Workers : /\ pc[w] \in {"wait", "handle", "pass", "out"}
                       /\ pc[w] # "out" => w \in threads

\* No worker runs between a join and the next Run(); Run() waits for the end
\* of a Stop(), and a signal handler is in a loop thread, which has to be out.
NoneAfterJoin ==
    /\ ~IsRunning => AllOut
    /\ \A t \in Stoppers : pc[t] \in Joined => AllOut
    /\ \A a \in Apps : Stopping(a) => mutex = a

\* A null connection, or a worker it made exit, is the work of a DoStop()
\* that still has to join the workers or to clear the queue.
NullsHaveStopper ==
    /\ NullQueued => \E t \in Stoppers : pc[t] \in Joins \cup {"drain"}
    /\ \A w \in threads : pc[w] \in {"pass", "out"} => \E t \in Stoppers : pc[t] \in Joins

StopInv == WorkersJoined /\ NoneAfterJoin /\ NullsHaveStopper

---------------------------------------------------------------------------
\* Steps that do not bear on stopping

Keeps ==
    /\ \A w \in Workers : pc'[w] = pc[w]
    /\ \A t \in Stoppers : pc[t] \in Late \/ pc'[t] \in Late => pc'[t] = pc[t]
    /\ \A a \in Apps : Stopping(a)' => Stopping(a)
    /\ NullQueued' => NullQueued
    /\ threads' = threads /\ mutex' = mutex
    /\ IsRunning => IsRunning'

LEMMA KeepsStopInv ==
    ASSUME TypeOK, StopInv, Keeps
    PROVE  StopInv'
  <1>1. AllOut' <=> AllOut
    BY DEF Keeps, AllOut
  <1>2. WorkersJoined'
    BY DEF StopInv, WorkersJoined, Keeps
  <1>3. NoneAfterJoin'
    <2>1. ~IsRunning' => AllOut'
      BY <1>1 DEF StopInv, NoneAfterJoin, Keeps
    <2>2. \A t \in Stoppers : pc'[t] \in Joined => AllOut'
      BY <1>1 DEF StopInv, NoneAfterJoin, Keeps, Late, Joined
    <2>3. \A a \in Apps : Stopping(a)' => mutex' = a
      BY DEF StopInv, NoneAfterJoin, Keeps
    <2> QED  BY <2>1, <2>2, <2>3 DEF NoneAfterJoin
  <1>4. NullsHaveStopper'
    <2>1. \A t \in Stoppers : pc[t] \in Joins \cup {"drain"} => pc'[t] = pc[t]
      BY DEF Keeps, Late, Joins
    <2>2. NullQueued' => \E t \in Stoppers : pc'[t] \in Joins \cup {"drain"}
      BY <2>1 DEF StopInv, NullsHaveStopper, Keeps
    <2>3. \A w \in threads : pc'[w] = pc[w]
      BY DEF Keeps, TypeOK
    <2>4. \A t \in Stoppers : pc[t] \in Joins => pc'[t] \in Joins
      BY <2>1
    <2>5. threads' = threads
      BY DEF Keeps
    <2> QED  BY <2>2, <2>3, <2>4, <2>5 DEF StopInv, NullsHaveStopper
  <1> QED  BY <1>2, <1>3, <1>4 DEF StopInv

\* What a thread does that is not a worker, before its DoStop() joins them.
LEMMA EarlyGo ==
    ASSUME TypeOK, NEW t \in ThreadIds \ Workers, NEW at, NEW x, Go(t, at, x),
           pc[t] \notin Late, at \notin Late,
           t \in Apps /\ at \in StopSteps => Stopping(t)
    PROVE  /\ \A w \in Workers : pc'[w] = pc[w]
           /\ \A u \in Stoppers : pc[u] \in Late \/ pc'[u] \in Late => pc'[u] = pc[u]
           /\ \A a \in Apps : Stopping(a)' => Stopping(a)
  BY DEF TypeOK, Go, Stopping

LEMMA SameQueueNull == queue' = queue => (NullQueued' => NullQueued)
  BY DEF NullQueued

LEMMA PushedNull ==
    ASSUME TypeOK, NEW x \in Conns \cup {NULL}, queue' = Append(queue, x)
    PROVE  NullQueued' <=> NullQueued \/ x = NULL
  <1>1. /\ Len(queue) \in Nat /\ Len(queue') = Len(queue) + 1
        /\ \A i \in 1..Len(queue) : queue'[i] = queue[i]
        /\ queue'[Len(queue) + 1] = x
    BY DEF TypeOK
  <1>2. 1..Len(queue') = (1..Len(queue)) \cup {Len(queue) + 1}
    BY <1>1
  <1> QED  BY <1>1, <1>2 DEF NullQueued

LEMMA ClearedNull == queue' = <<>> => ~NullQueued'
  BY DEF NullQueued

LEMMA PoppedNull ==
    ASSUME TypeOK, queue # <<>>, queue' = Tail(queue)
    PROVE  /\ NullQueued' => NullQueued
           /\ Head(queue) = NULL => NullQueued
  <1>1. /\ Len(queue') = Len(queue) - 1 /\ Len(queue) \in Nat \ {0}
        /\ \A i \in 1..Len(queue') : queue'[i] = queue[i + 1]
        /\ Head(queue) = queue[1]
    BY DEF TypeOK
  <1>2. ASSUME NEW i \in 1..Len(queue'), queue'[i] = NULL PROVE NullQueued
    <2>1. i + 1 \in 1..Len(queue) /\ queue[i + 1] = NULL
      BY <1>1, <1>2
    <2> QED  BY <2>1 DEF NullQueued
  <1> QED  BY <1>1, <1>2 DEF NullQueued

LEMMA StillRunning == running' = running /\ stopped' = stopped => (IsRunning <=> IsRunning')
  BY DEF IsRunning

\* The handlers of a connection, and the part of DoStop() before the join,
\* leave the workers and the null connections as they are.
LEMMA LoopKeeps ==
    ASSUME TypeOK, NEW l \in Loops, NEW c \in Conns, HandlerStep(l) \/ ConnHandler(l, c)
    PROVE  Keeps
  <1>l. l \in ThreadIds \ Workers /\ l \notin Apps /\ l \in Stoppers
    BY ThreadsDisjoint DEF ThreadIds, Stoppers
  <1>1. threads' = threads /\ mutex' = mutex /\ running' = running /\ stopped' = stopped
    BY DEF HandlerStep, PoolInsert, ConnectionStart, QueuePush, PoolErase, ConnectionClose,
           ConnHandler, AcceptDropped, OnAccept, OnAborted, OnError, OnReadMore, DoWriteBody,
           OnWriteOK, OnReadBad, OnReadFinished, work, lifecycle
  <1>2. NullQueued' => NullQueued
    <2>1. CASE QueuePush(l)
      <3>1. cur[l] \in Conns /\ cur[l] # NULL /\ queue' = Append(queue, cur[l])
        BY <2>1, <1>l, NullIsNothing DEF QueuePush, TypeOK, UsingSteps
      <3> QED  BY <3>1, PushedNull
    <2>2. CASE ~QueuePush(l)
      <3>1. queue' = queue
        BY <2>2 DEF HandlerStep, PoolInsert, ConnectionStart, PoolErase, ConnectionClose,
               ConnHandler, AcceptDropped, OnAccept, OnAborted, OnError, OnReadMore, DoWriteBody,
               OnWriteOK, OnReadBad, OnReadFinished, work
      <3> QED  BY <3>1, SameQueueNull
    <2> QED  BY <2>1, <2>2
  <1>3. CASE HandlerStep(l)
    <2>1. pc[l] \notin Late
      BY <1>3 DEF HandlerStep, PoolInsert, ConnectionStart, QueuePush, PoolErase,
                  ConnectionClose, Late
    <2>2. \E at \in {"start", "poll", "shut"} : \E x : Go(l, at, x)
      BY <1>3 DEF HandlerStep, PoolInsert, ConnectionStart, QueuePush, PoolErase, ConnectionClose
    <2>3. PICK at \in {"start", "poll", "shut"} : \E x : Go(l, at, x)
      BY <2>2
    <2>4. at \notin Late
      BY <2>3 DEF Late
    <2> QED  BY <1>1, <1>2, <1>l, <2>1, <2>3, <2>4, EarlyGo, StillRunning DEF Keeps
  <1>4. CASE ConnHandler(l, c)
    <2>1. pc[l] = "poll" /\ pc[l] \notin Late
      BY <1>4 DEF ConnHandler, AcceptDropped, OnAccept, OnAborted, OnError, OnReadMore,
                  DoWriteBody, OnWriteOK, OnReadBad, OnReadFinished, Ready, Polling, Late
    <2>2. UNCHANGED thread \/ \E at \in {"insert", "erase", "push"} : Go(l, at, c)
      BY <1>4 DEF ConnHandler, AcceptDropped, OnAccept, OnAborted, OnError, OnReadMore,
                  DoWriteBody, OnWriteOK, OnReadBad, OnReadFinished
    <2>3. CASE UNCHANGED thread
      BY <1>1, <1>2, <2>3, StillRunning DEF Keeps, thread, Stopping
    <2>4. ASSUME NEW at \in {"insert", "erase", "push"}, Go(l, at, c) PROVE Keeps
      <3>1. at \notin Late
        BY <2>4 DEF Late
      <3> QED  BY <1>1, <1>2, <1>l, <2>1, <2>4, <3>1, EarlyGo, StillRunning DEF Keeps
    <2> QED  BY <2>2, <2>3, <2>4
  <1> QED  BY <1>3, <1>4

---------------------------------------------------------------------------
\* The steps that do

LEMMA StopInit == Init => StopInv
  <1> SUFFICES ASSUME Init PROVE StopInv
    OBVIOUS
  <1>1. \A w \in Workers : pc[w] = "out"
    BY ThreadsDisjoint DEF Init, ThreadIds
  <1>2. \A t \in Stoppers : pc[t] \in {"idle", "out"}
    BY DEF Init, ThreadIds, Stoppers
  <1>3. ~NullQueued /\ threads = {}
    BY DEF Init, NullQueued
  <1> QED  BY <1>1, <1>2, <1>3 DEF StopInv, WorkersJoined, NoneAfterJoin, NullsHaveStopper,
              AllOut, Joined, Stopping, StopSteps, Stoppers

\* Run() begins with all the workers, no stopper and no null connection.
LEMMA RunStops ==
    ASSUME TypeOK, StopInv, NEW r \in Runners, Run(r)
    PROVE  StopInv'
  <1>1. \A a \in Apps : ~Stopping(a)
    BY NullIsNothing DEF StopInv, NoneAfterJoin, Run, MayRun, ThreadIds
  <1>2. \A l \in Loops : pc[l] = "out"
    BY DEF Run, MayRun
  <1>3. \A t \in Stoppers : pc[t] \notin StopSteps
    BY <1>1, <1>2 DEF Stoppers, Stopping, StopSteps
  <1>4. \A w \in Workers : pc'[w] = "wait"
    BY ThreadsDisjoint DEF Run, ThreadIds
  <1>5. \A l \in Loops : pc'[l] = "poll"
    BY ThreadsDisjoint DEF Run, ThreadIds
  <1>6. \A a \in Apps : pc'[a] = pc[a]
    BY ThreadsDisjoint DEF Run, ThreadIds
  <1>7. \A t \in Stoppers : pc'[t] \notin StopSteps
    BY <1>3, <1>5, <1>6 DEF Stoppers, StopSteps
  <1>8. threads' = Workers /\ queue' = queue /\ IsRunning'
    BY DEF Run, IsRunning, TypeOK
  <1>9. ~NullQueued
    BY <1>3 DEF StopInv, NullsHaveStopper, StopSteps, Joins
  <1> QED  BY <1>4, <1>7, <1>8, <1>9, SameQueueNull DEF StopInv, WorkersJoined, NoneAfterJoin,
              NullsHaveStopper, Stopping, StopSteps, Joined, Stoppers

\* DoStop(): a join ends when all the workers are out, and the null connection
\* the last of them queued goes with the clearing that follows.
LEMMA StopStops ==
    ASSUME TypeOK, StopInv, NEW t \in Stoppers, StopStep(t)
    PROVE  StopInv'
  <1>t. t \in ThreadIds \ Workers /\ t \in Apps \cup Loops
    BY ThreadsDisjoint DEF ThreadIds, Stoppers
  <1>g. \E at, x : Go(t, at, x)
    BY DEF StopStep, CloseAcceptor, ClearQueue, PushNull, JoinWorkers, JoinThread, JoinTwice,
       ThreadJoined, ClearThreads, DrainQueue, ClearPool, FinishStop
  <1>w. \A w \in Workers : pc'[w] = pc[w]
    BY <1>t, <1>g DEF Go, TypeOK, ThreadIds
  <1>u. \A u \in Stoppers : u # t => pc'[u] = pc[u]
    BY <1>t, <1>g DEF Go, TypeOK, Stoppers, ThreadIds
  <1>o. AllOut' <=> AllOut
    BY <1>w DEF AllOut
  <1>s. Stopping(t)
    BY DEF StopStep, CloseAcceptor, ClearQueue, PushNull, JoinWorkers, JoinThread, JoinTwice,
       ThreadJoined, ClearThreads, DrainQueue, ClearPool, FinishStop
  <1>1. CASE CloseAcceptor(t) \/ ClearQueue(t)
    <2>1. threads' = threads /\ mutex' = mutex /\ running' = running /\ stopped' = stopped
      BY <1>1 DEF CloseAcceptor, ClearQueue, work, lifecycle
    <2>2. NullQueued' => NullQueued
      BY <1>1, SameQueueNull, ClearedNull DEF CloseAcceptor, ClearQueue, work
    <2>3. pc[t] \notin Late /\ (Go(t, "clear", NULL) \/ Go(t, "null", NULL))
      BY <1>1 DEF CloseAcceptor, ClearQueue, Late
    <2>4. "clear" \notin Late /\ "null" \notin Late
      BY DEF Late
    <2>5. Keeps
      BY <2>1, <2>2, <2>3, <2>4, <1>t, <1>s, EarlyGo, StillRunning DEF Keeps
    <2> QED  BY <2>5, KeepsStopInv
  <1>m. \A a \in Apps : Stopping(a) => mutex = a
    BY DEF StopInv, NoneAfterJoin
  <1>p. \A a \in Apps : a # t => (Stopping(a)' => Stopping(a))
    BY <1>u DEF Stopping, Stoppers
  <1>2. CASE PushNull(t)
    <2>1. pc[t] = "null" /\ pc'[t] = "join"
      BY <1>2, <1>t DEF PushNull, Go, TypeOK
    <2>2. threads' = threads /\ mutex' = mutex /\ running' = running /\ stopped' = stopped
      BY <1>2 DEF PushNull, lifecycle
    <2>3. WorkersJoined'
      BY <1>w, <2>2 DEF StopInv, WorkersJoined
    <2>4. NoneAfterJoin'
      <3>1. ~IsRunning' => AllOut'
        BY <2>2, <1>o, StillRunning DEF StopInv, NoneAfterJoin
      <3>2. \A u \in Stoppers : pc'[u] \in Joined => AllOut'
        BY <2>1, <1>u, <1>o DEF StopInv, NoneAfterJoin, Joined
      <3>3. \A a \in Apps : Stopping(a)' => mutex' = a
        BY <2>2, <1>m, <1>p, <1>s
      <3> QED  BY <3>1, <3>2, <3>3 DEF NoneAfterJoin
    <2>5. NullsHaveStopper'
      BY <2>1 DEF NullsHaveStopper, Joins
    <2> QED  BY <2>3, <2>4, <2>5 DEF StopInv
  <1>3. CASE JoinThread(t) \/ JoinTwice(t)
    <2>1. threads' = threads /\ mutex' = mutex /\ running' = running /\ stopped' = stopped
      BY <1>3 DEF JoinThread, JoinTwice, work, lifecycle
    <2>2. pc[t] = "join" /\ pc'[t] \in {"joining", "thrown"}
      BY <1>3, <1>t DEF JoinThread, JoinTwice, Go, TypeOK
    <2>3. WorkersJoined'
      BY <1>w, <2>1 DEF StopInv, WorkersJoined
    <2>4. NoneAfterJoin'
      <3>1. ~IsRunning' => AllOut'
        BY <2>1, <1>o, StillRunning DEF StopInv, NoneAfterJoin
      <3>2. \A u \in Stoppers : pc'[u] \in Joined => AllOut'
        BY <2>2, <1>u, <1>o DEF StopInv, NoneAfterJoin, Joined
      <3>3. \A a \in Apps : Stopping(a)' => mutex' = a
        BY <2>1, <1>m, <1>p, <1>s
      <3> QED  BY <3>1, <3>2, <3>3 DEF NoneAfterJoin
    <2>5. \E v \in Stoppers : pc'[v] \in Joins
      <3>1. CASE JoinThread(t)
        BY <3>1, <1>t DEF JoinThread, Go, TypeOK, Joins
      <3>2. CASE JoinTwice(t)
        <4>1. PICK v \in Apps \cup Loops : InJoin(v)
          BY <3>2 DEF JoinTwice
        <4>2. v \in Stoppers /\ v # t /\ pc[v] = "joining"
          BY <4>1, <2>2 DEF InJoin, Stoppers
        <4> QED  BY <4>2, <1>u DEF Joins
      <3> QED  BY <1>3, <3>1, <3>2
    <2>6. NullsHaveStopper'
      BY <2>5 DEF NullsHaveStopper
    <2> QED  BY <2>3, <2>4, <2>6 DEF StopInv
  <1>6. CASE ThreadJoined(t)
    <2>1. PICK v \in threads : pc[v] = "out" /\ threads' = threads \ {v}
      BY <1>6 DEF ThreadJoined
    <2>2. UNCHANGED <<mutex, running, stopped>> /\ pc[t] = "joining" /\ pc'[t] = "join"
      BY <1>6, <1>t DEF ThreadJoined, Go, TypeOK, lifecycle
    <2>3. WorkersJoined'
      BY <1>w, <2>1 DEF StopInv, WorkersJoined
    <2>4. NoneAfterJoin'
      <3>1. ~IsRunning' => AllOut'
        BY <2>2, <1>o, StillRunning DEF StopInv, NoneAfterJoin
      <3>2. \A u \in Stoppers : pc'[u] \in Joined => AllOut'
        BY <2>2, <1>u, <1>o DEF StopInv, NoneAfterJoin, Joined
      <3>3. \A a \in Apps : Stopping(a)' => mutex' = a
        BY <2>2, <1>m, <1>p, <1>s
      <3> QED  BY <3>1, <3>2, <3>3 DEF NoneAfterJoin
    <2>5. NullsHaveStopper'
      BY <2>2 DEF NullsHaveStopper, Joins
    <2> QED  BY <2>3, <2>4, <2>5 DEF StopInv
  <1>7. CASE ClearThreads(t)
    <2>1. pc[t] = "join" /\ pc'[t] = "drain" /\ threads = {} /\ threads' = {}
      BY <1>7, <1>t DEF ClearThreads, Go, TypeOK, work
    <2>2. UNCHANGED <<mutex, running, stopped>>
      BY <1>7 DEF ClearThreads, lifecycle
    <2>3. AllOut
      BY <2>1 DEF StopInv, WorkersJoined, AllOut
    <2>4. WorkersJoined'
      BY <1>w, <2>3 DEF AllOut, WorkersJoined
    <2>5. NoneAfterJoin'
      BY <1>o, <2>2, <2>3, <1>m, <1>p, <1>s DEF NoneAfterJoin
    <2>6. NullsHaveStopper'
      BY <2>1 DEF NullsHaveStopper
    <2> QED  BY <2>4, <2>5, <2>6 DEF StopInv
  <1>4. CASE DrainQueue(t) \/ ClearPool(t)
    <2>1. pc[t] \in Joined /\ pc[t] # "finish" /\ pc[t] \notin Joins /\ pc'[t] \in Joined
      BY <1>4, <1>t DEF DrainQueue, ClearPool, Go, TypeOK, Joined, Joins
    <2>2. threads' = threads /\ mutex' = mutex
      BY <1>4 DEF DrainQueue, ClearPool, lifecycle, work
    <2>3. AllOut
      BY <2>1 DEF StopInv, NoneAfterJoin
    <2>4. WorkersJoined' /\ NoneAfterJoin'
      BY <1>w, <1>o, <2>2, <2>3, <1>m, <1>p, <1>s DEF StopInv, AllOut, WorkersJoined, NoneAfterJoin
    <2>5. \A w \in threads' : pc'[w] \in {"pass", "out"} => \E u \in Stoppers : pc'[u] \in Joins
      <3>1. SUFFICES ASSUME NEW w \in threads, pc[w] \in {"pass", "out"}
                     PROVE  \E u \in Stoppers : pc'[u] \in Joins
        BY <2>2, <1>w DEF TypeOK
      <3>2. PICK u \in Stoppers : pc[u] \in Joins
        BY <3>1 DEF StopInv, NullsHaveStopper
      <3> QED  BY <3>2, <2>1, <1>u
    <2>6. NullQueued' => \E u \in Stoppers : pc'[u] \in Joins \cup {"drain"}
      <3>1. CASE DrainQueue(t)
        BY <3>1, ClearedNull DEF DrainQueue
      <3>2. CASE ClearPool(t)
        <4>1. pc[t] = "pool" /\ (NullQueued' => NullQueued)
          BY <3>2, SameQueueNull DEF ClearPool, work
        <4>2. SUFFICES ASSUME NullQueued PROVE \E u \in Stoppers : pc'[u] \in Joins \cup {"drain"}
          BY <4>1
        <4>3. PICK u \in Stoppers : pc[u] \in Joins \cup {"drain"}
          BY <4>2 DEF StopInv, NullsHaveStopper
        <4> QED  BY <4>1, <4>3, <1>u DEF Joins
      <3> QED  BY <1>4, <3>1, <3>2
    <2> QED  BY <2>4, <2>5, <2>6 DEF StopInv, NullsHaveStopper
  <1>5. CASE FinishStop(t)
    <2>1. pc[t] = "finish" /\ pc'[t] \in {"idle", "poll"}
      BY <1>5, <1>t DEF FinishStop, Go, TypeOK
    <2>2. threads' = threads /\ queue' = queue /\ mutex' = IF t \in Apps THEN NULL ELSE mutex
      BY <1>5 DEF FinishStop, work
    <2>3. AllOut
      BY <2>1 DEF StopInv, NoneAfterJoin, Joined
    <2>4. \A a \in Apps : Stopping(a)' => mutex' = a
      <3>1. SUFFICES ASSUME NEW a \in Apps, Stopping(a)' PROVE mutex' = a
        OBVIOUS
      <3>2. a # t
        BY <2>1, <3>1 DEF Stopping, StopSteps
      <3>3. mutex = a
        BY <3>1, <3>2, <1>m, <1>p
      <3>4. t \notin Apps
        BY <3>2, <3>3, <1>m, <1>s
      <3> QED  BY <2>2, <3>3, <3>4
    <2>5. WorkersJoined' /\ NoneAfterJoin'
      BY <1>w, <1>o, <2>3, <2>4 DEF AllOut, WorkersJoined, NoneAfterJoin
    <2>6. \A u \in Stoppers : pc[u] \in Joins \cup {"drain"} => pc'[u] = pc[u]
      BY <2>1, <1>u DEF Joins
    <2>7. NullsHaveStopper'
      <3>1. NullQueued' => \E u \in Stoppers : pc'[u] \in Joins \cup {"drain"}
        BY <2>2, <2>6, SameQueueNull DEF StopInv, NullsHaveStopper
      <3>2. \A w \in threads' : pc'[w] \in {"pass", "out"} => \E u \in Stoppers : pc'[u] \in Joins
        <4>1. \A w \in threads : pc'[w] = pc[w]
          BY <1>w DEF TypeOK
        <4>2. \A u \in Stoppers : pc[u] \in Joins => pc'[u] \in Joins
          BY <2>6
        <4> QED  BY <2>2, <4>1, <4>2 DEF StopInv, NullsHaveStopper
      <3> QED  BY <3>1, <3>2 DEF NullsHaveStopper
    <2> QED  BY <2>5, <2>7 DEF StopInv
  <1> QED  BY <1>1, <1>2, <1>3, <1>4, <1>5, <1>6, <1>7 DEF StopStep, JoinWorkers

\* A worker that takes the null connection does so while a DoStop() waits to
\* join it: while a worker is there to take it, no DoStop() is past the join.
LEMMA WorkerStops ==
    ASSUME TypeOK, StopInv, NEW w \in Workers, WorkerStep(w)
    PROVE  StopInv'
  <1>w. w \in ThreadIds /\ w \notin Stoppers
    BY ThreadsDisjoint DEF ThreadIds, Stoppers
  <1>1. /\ \A u \in Stoppers : pc'[u] = pc[u]
        /\ \A v \in Workers : v # w => pc'[v] = pc[v]
    <2>1. \E at, x : Go(w, at, x)
      BY DEF WorkerStep, Pop, PassNull, Handle
    <2> QED  BY <2>1, <1>w DEF Go, TypeOK, ThreadIds, Stoppers
  <1>2. threads' = threads /\ mutex' = mutex /\ running' = running /\ stopped' = stopped
    BY DEF WorkerStep, Pop, PassNull, Handle, work, lifecycle
  <1>3. pc[w] # "out" /\ pc'[w] \in {"wait", "handle", "pass", "out"}
    BY <1>w DEF WorkerStep, Pop, PassNull, Handle, Go, TypeOK
  <1>4. w \in threads /\ ~AllOut
    BY <1>3 DEF StopInv, WorkersJoined, AllOut
  <1>5. WorkersJoined'
    BY <1>1, <1>2, <1>3, <1>4 DEF StopInv, WorkersJoined
  <1>6. NoneAfterJoin'
    <2>1. IsRunning' /\ \A u \in Stoppers : pc'[u] \notin Joined
      BY <1>1, <1>2, <1>4, StillRunning DEF StopInv, NoneAfterJoin
    <2>2. \A a \in Apps : Stopping(a)' => mutex' = a
      BY <1>1, <1>2 DEF StopInv, NoneAfterJoin, Stopping, Stoppers
    <2> QED  BY <2>1, <2>2 DEF NoneAfterJoin
  <1>7. NullQueued \/ pc[w] = "pass" => \E u \in Stoppers : pc[u] \in Joins
    <2>1. \A u \in Stoppers : pc[u] # "drain"
      BY <1>4 DEF StopInv, NoneAfterJoin, Joined
    <2> QED  BY <2>1, <1>4 DEF StopInv, NullsHaveStopper
  <1>8. /\ NullQueued' => NullQueued \/ pc[w] = "pass"
        /\ pc'[w] \in {"pass", "out"} => NullQueued \/ pc[w] = "pass"
    <2>1. CASE Pop(w)
      <3>1. NullQueued' => NullQueued
        BY <2>1, PoppedNull DEF Pop
      <3>2. Head(queue) = NULL => NullQueued
        BY <2>1, PoppedNull DEF Pop
      <3>3. Head(queue) # NULL => pc'[w] = "handle"
        BY <2>1, <1>w DEF Pop, Go, TypeOK
      <3> QED  BY <3>1, <3>2, <3>3
    <2>2. CASE PassNull(w)
      BY <2>2 DEF PassNull
    <2>3. ASSUME NEW n \in 0..MaxPayloads, Handle(w, n) PROVE UNCHANGED queue /\ pc'[w] = "wait"
      BY <2>3, <1>w DEF Handle, Go, TypeOK, work
    <2> QED  BY <2>1, <2>2, <2>3, SameQueueNull DEF WorkerStep
  <1>9. NullsHaveStopper'
    <2>1. NullQueued' => \E u \in Stoppers : pc'[u] \in Joins \cup {"drain"}
      BY <1>1, <1>7, <1>8
    <2>2. ASSUME NEW v \in threads', pc'[v] \in {"pass", "out"}
          PROVE  \E u \in Stoppers : pc'[u] \in Joins
      <3>1. v \in threads /\ v \in Workers
        BY <2>2, <1>2 DEF TypeOK
      <3>2. CASE v = w
        BY <3>2, <2>2, <1>1, <1>7, <1>8
      <3>3. CASE v # w
        <4>1. pc[v] \in {"pass", "out"}
          BY <3>3, <3>1, <2>2, <1>1
        <4>2. PICK u \in Stoppers : pc[u] \in Joins
          BY <4>1, <3>1 DEF StopInv, NullsHaveStopper
        <4> QED  BY <4>2, <1>1
      <3> QED  BY <3>2, <3>3
    <2> QED  BY <2>1, <2>2 DEF NullsHaveStopper
  <1> QED  BY <1>5, <1>6, <1>9 DEF StopInv

LEMMA StopInvStep == TypeOK /\ StopInv /\ [Next]_vars => StopInv'
  <1> SUFFICES ASSUME TypeOK, StopInv, [Next]_vars PROVE StopInv'
    OBVIOUS
  <1>1. ASSUME NEW r \in Runners, RunRefused(r) \/ RunNotListening(r) PROVE Keeps
    <2>1. IsRunning => IsRunning'
      BY <1>1 DEF RunRefused, RunNotListening, IsRunning
    <2>2. CASE RunRefused(r)
      <3>1. UNCHANGED <<threads, mutex, queue, pc>>
        BY <2>2 DEF RunRefused, work, thread
      <3> QED  BY <2>1, <3>1, SameQueueNull DEF Keeps, Stopping
    <2>3. CASE RunNotListening(r)
      <3>1. UNCHANGED <<threads, mutex, queue, pc>>
        BY <2>3 DEF RunNotListening, work, thread
      <3> QED  BY <2>1, <3>1, SameQueueNull DEF Keeps, Stopping
    <2> QED  BY <1>1, <2>2, <2>3
  <1>2. ASSUME NEW r \in Runners, Run(r) PROVE StopInv'
    BY <1>2, RunStops
  <1>3. ASSUME NEW r \in Runners, RunReturns(r) PROVE Keeps
    <2>1. UNCHANGED <<threads, mutex, queue, running, stopped>> /\ Go(r, "idle", NULL)
      BY <1>3 DEF RunReturns, lifecycle, work
    <2>2. r \in ThreadIds \ Workers /\ r \notin Apps /\ pc[r] \notin Late /\ "idle" \notin Late
      BY <1>3, ThreadsDisjoint DEF RunReturns, ThreadIds, Late
    <2> QED  BY <2>1, <2>2, EarlyGo, SameQueueNull, StillRunning DEF Keeps
  <1>4. ASSUME NEW a \in Apps, CallStop(a) PROVE StopInv'
    <2>1. UNCHANGED <<threads, queue, running, stopped>> /\ mutex = NULL /\ mutex' = a
      BY <1>4 DEF CallStop, work
    <2>2. a \in ThreadIds \ Workers /\ pc[a] = "idle" /\ pc'[a] = "close"
      BY <1>4, ThreadsDisjoint DEF CallStop, Go, ThreadIds, TypeOK
    <2>3. \A t \in ThreadIds : t # a => pc'[t] = pc[t]
      BY <1>4 DEF CallStop, Go, TypeOK
    <2>4. \A w \in Workers : pc'[w] = pc[w]
      BY <2>2, <2>3 DEF ThreadIds
    <2>5. \A t \in Stoppers : pc[t] \in Late \/ pc'[t] \in Late => pc'[t] = pc[t]
      BY <2>2, <2>3 DEF ThreadIds, Late, Stoppers
    <2>6. \A b \in Apps : b # a => ~Stopping(b)'
      <3>1. SUFFICES ASSUME NEW b \in Apps, b # a, Stopping(b)' PROVE FALSE
        OBVIOUS
      <3>2. Stopping(b)
        BY <3>1, <2>3 DEF Stopping, ThreadIds
      <3> QED  BY <3>2, <2>1, NullIsNothing DEF StopInv, NoneAfterJoin, ThreadIds
    <2>7. WorkersJoined'
      BY <2>1, <2>4 DEF StopInv, WorkersJoined
    <2>8. NoneAfterJoin'
      <3>1. AllOut' <=> AllOut
        BY <2>4 DEF AllOut
      <3>2. \A t \in Stoppers : pc'[t] \in Joined => AllOut'
        BY <3>1, <2>5 DEF StopInv, NoneAfterJoin, Late, Joined
      <3>3. \A b \in Apps : Stopping(b)' => mutex' = b
        BY <2>1, <2>6
      <3>4. ~IsRunning' => AllOut'
        BY <3>1, <2>1, StillRunning DEF StopInv, NoneAfterJoin
      <3> QED  BY <3>2, <3>3, <3>4 DEF NoneAfterJoin
    <2>9. NullsHaveStopper'
      <3>1. \A t \in Stoppers : pc[t] \in Joins \cup {"drain"} => pc'[t] = pc[t]
        BY <2>5 DEF Late, Joins
      <3>2. NullQueued' => \E t \in Stoppers : pc'[t] \in Joins \cup {"drain"}
        BY <3>1, <2>1, SameQueueNull DEF StopInv, NullsHaveStopper
      <3>3. \A w \in threads : pc'[w] = pc[w]
        BY <2>4 DEF TypeOK
      <3>4. \A t \in Stoppers : pc[t] \in Joins => pc'[t] \in Joins
        BY <3>1
      <3> QED  BY <3>2, <3>3, <3>4, <2>1 DEF StopInv, NullsHaveStopper
    <2> QED  BY <2>7, <2>8, <2>9 DEF StopInv
  <1>5. CASE Signal
    <2>1. UNCHANGED <<threads, mutex, queue, pc, running, stopped>>
      BY <1>5 DEF Signal, work, thread, lifecycle
    <2> QED  BY <2>1, SameQueueNull, StillRunning, KeepsStopInv DEF Keeps, Stopping
  <1>6. ASSUME NEW l \in Loops, OnAcceptAborted(l) PROVE Keeps
    <2>1. UNCHANGED <<threads, mutex, queue, pc, running, stopped>>
      BY <1>6 DEF OnAcceptAborted, work, thread, lifecycle
    <2> QED  BY <2>1, SameQueueNull, StillRunning DEF Keeps, Stopping
  <1>7. ASSUME NEW l \in Loops, LeaveLoop(l) \/ OnSignal(l) PROVE Keeps
    <2>1. UNCHANGED <<threads, mutex, queue, running, stopped>>
      BY <1>7 DEF LeaveLoop, OnSignal, work, lifecycle
    <2>2. pc[l] = "poll" /\ (Go(l, "out", NULL) \/ Go(l, "close", NULL))
      BY <1>7 DEF LeaveLoop, OnSignal, Polling
    <2>3. l \in ThreadIds \ Workers /\ l \notin Apps
      BY ThreadsDisjoint DEF ThreadIds
    <2>4. "poll" \notin Late /\ "out" \notin Late /\ "close" \notin Late
      BY DEF Late
    <2> QED  BY <2>1, <2>2, <2>3, <2>4, EarlyGo, SameQueueNull, StillRunning DEF Keeps
  <1>8. ASSUME NEW l \in Loops, NEW c \in Conns, HandlerStep(l) \/ ConnHandler(l, c) PROVE Keeps
    BY <1>8, LoopKeeps
  <1>9. ASSUME NEW l \in Loops, HandlerStep(l) PROVE \E c \in Conns : TRUE
    <2>1. pc[l] \in UsingSteps \cup ClosingSteps /\ l \in ThreadIds
      BY <1>9 DEF HandlerStep, PoolInsert, ConnectionStart, QueuePush, PoolErase,
                  ConnectionClose, UsingSteps, ClosingSteps, ThreadIds
    <2> QED  BY <2>1 DEF TypeOK
  <1>10. ASSUME NEW t \in Apps \cup Loops, StopStep(t) PROVE StopInv'
    BY <1>10, StopStops DEF Stoppers
  <1>11. ASSUME NEW w \in Workers, WorkerStep(w) PROVE StopInv'
    BY <1>11, WorkerStops
  <1>12. ASSUME NEW c \in Conns, Client(c) PROVE Keeps
    <2>1. UNCHANGED <<threads, mutex, queue, pc, running, stopped>>
      BY <1>12 DEF Client, ClientConnects, ClientSends, ClientReceives, ClientCloses,
                   work, thread, lifecycle
    <2> QED  BY <2>1, SameQueueNull, StillRunning DEF Keeps, Stopping
  <1>13. CASE UNCHANGED vars
    <2>1. UNCHANGED <<threads, mutex, queue, pc, running, stopped>>
      BY <1>13 DEF vars, work, thread, lifecycle
    <2> QED  BY <2>1, SameQueueNull, StillRunning, KeepsStopInv DEF Keeps, Stopping
  <1> QED  BY <1>1, <1>2, <1>3, <1>4, <1>5, <1>6, <1>7, <1>8, <1>9, <1>10, <1>11, <1>12, <1>13,
              KeepsStopInv DEF Next

\* Unless a DoStop() is under way, the workers of the run all serve, and no
\* null connection waits for one of them: whatever stops overlapped before.
THEOREM WorkersServeAlways == Spec => []WorkersServe
  <1>1. TypeOK /\ StopInv => WorkersServe
    <2> SUFFICES ASSUME TypeOK, StopInv, NoStopper
                 PROVE  /\ \A w \in threads : pc[w] \in {"wait", "handle"}
                        /\ ~NullQueued
      BY DEF WorkersServe, NullQueued
    <2>1. \A t \in Stoppers : pc[t] \notin StopSteps
      BY DEF NoStopper, Stopping, Stoppers
    <2>2. \A t \in Stoppers : pc[t] \notin Joins \cup {"drain"}
      BY <2>1 DEF StopSteps, Joins
    <2>3. \A w \in threads : pc[w] \in {"wait", "handle", "pass", "out"}
      BY DEF StopInv, WorkersJoined, TypeOK
    <2> QED  BY <2>2, <2>3 DEF StopInv, NullsHaveStopper
  <1> QED  BY <1>1, StopInit, StopInvStep, TypeCorrect, PTL DEF Spec

---------------------------------------------------------------------------
\* The accept chain

AcceptIsArmed ==
    \/ acceptPending + acceptAborted > 0
    \/ accepted # {}
    \/ \E l \in Loops : pc[l] \in {"insert", "start"}

BeforeJoin == {"clear", "null", "join", "joining"}

\* While there are workers, the acceptor is closed only by a DoStop() that has
\* yet to join them, and an open acceptor is armed: by then a handler whose
\* accept was aborted arms it again.
AcceptInv ==
    threads # {} => IF acceptorOpen THEN AcceptIsArmed
                                    ELSE \E t \in Stoppers : pc[t] \in BeforeJoin

LEMMA SameAccept ==
    ASSUME AcceptInv, threads' = threads, acceptorOpen' = acceptorOpen,
           acceptorOpen /\ AcceptIsArmed => AcceptIsArmed',
           \A t \in Stoppers : pc[t] \in BeforeJoin => pc'[t] \in BeforeJoin
    PROVE  AcceptInv'
  BY DEF AcceptInv

\* A thread moves that is in no accept handler and before no join.
LEMMA AwayGo ==
    ASSUME TypeOK, NEW t \in ThreadIds, NEW at, NEW x, Go(t, at, x),
           pc[t] \notin BeforeJoin \cup {"insert", "start"},
           UNCHANGED <<acceptPending, acceptAborted, accepted>>
    PROVE  /\ AcceptIsArmed => AcceptIsArmed'
           /\ \A u \in Stoppers : pc[u] \in BeforeJoin => pc'[u] \in BeforeJoin
  <1>1. \A u \in ThreadIds : u # t => pc'[u] = pc[u]
    BY DEF Go, TypeOK
  <1>2. Loops \subseteq ThreadIds /\ Stoppers \subseteq ThreadIds
    BY DEF ThreadIds, Stoppers
  <1> QED  BY <1>1, <1>2 DEF AcceptIsArmed

LEMMA SameThreads ==
    ASSUME UNCHANGED <<acceptPending, acceptAborted, accepted, pc>>
    PROVE  /\ AcceptIsArmed => AcceptIsArmed'
           /\ \A u \in Stoppers : pc[u] \in BeforeJoin => pc'[u] \in BeforeJoin
  BY DEF AcceptIsArmed

LEMMA AcceptStopStep ==
    ASSUME TypeOK, AcceptInv, NEW t \in Stoppers, StopStep(t)
    PROVE  AcceptInv'
  <1>t. t \in ThreadIds /\ Stoppers \subseteq ThreadIds
    BY DEF ThreadIds, Stoppers
  <1>1. CASE CloseAcceptor(t)
    <2>1. ~acceptorOpen' /\ pc'[t] \in BeforeJoin
      BY <1>1, <1>t DEF CloseAcceptor, Go, TypeOK, BeforeJoin
    <2> QED  BY <2>1 DEF AcceptInv
  <1>2. CASE ClearQueue(t) \/ PushNull(t)
    <2>1. UNCHANGED <<threads, acceptorOpen, acceptPending, acceptAborted, accepted>>
      BY <1>2 DEF ClearQueue, PushNull, lifecycle, events
    <2>2. pc[t] \in BeforeJoin /\ pc'[t] \in BeforeJoin
      BY <1>2, <1>t DEF ClearQueue, PushNull, Go, TypeOK, BeforeJoin
    <2>3. \A u \in ThreadIds : u # t => pc'[u] = pc[u]
      BY <1>2 DEF ClearQueue, PushNull, Go, TypeOK
    <2>4. AcceptIsArmed => AcceptIsArmed'
      BY <2>1, <2>2, <2>3 DEF AcceptIsArmed, BeforeJoin, ThreadIds
    <2> QED  BY <2>1, <2>2, <2>3, <2>4, <1>t, SameAccept
  <1>3. CASE JoinWorkers(t)
    <2>1. UNCHANGED <<acceptorOpen, acceptPending, acceptAborted, accepted>>
      BY <1>3, JoinMoves DEF Stoppers, lifecycle, events
    <2>2. pc[t] \in Joins /\ \A u \in ThreadIds : u # t => pc'[u] = pc[u]
      BY <1>3, JoinMoves DEF Stoppers, Go, TypeOK
    <2>3. AcceptIsArmed => AcceptIsArmed'
      BY <2>1, <2>2 DEF AcceptIsArmed, Joins, ThreadIds
    <2>4. threads' \subseteq threads
      BY <1>3, JoinMoves DEF Stoppers
    <2>5. threads' # {} => \E u \in Stoppers : pc'[u] \in BeforeJoin
      <3>1. CASE JoinThread(t) \/ ThreadJoined(t)
        BY <3>1, <1>t DEF JoinThread, ThreadJoined, Go, TypeOK, BeforeJoin, Joins
      <3>2. CASE JoinTwice(t)
        <4>1. PICK v \in Apps \cup Loops : InJoin(v)
          BY <3>2 DEF JoinTwice
        <4>2. v \in Stoppers /\ v # t /\ pc[v] = "joining"
          BY <4>1, <3>2 DEF InJoin, Stoppers, JoinTwice
        <4> QED  BY <4>2, <2>2, <1>t DEF BeforeJoin, Joins
      <3>3. CASE ClearThreads(t)
        BY <3>3 DEF ClearThreads, work
      <3> QED  BY <1>3, <3>1, <3>2, <3>3 DEF JoinWorkers
    <2> QED  BY <2>1, <2>3, <2>4, <2>5 DEF AcceptInv
  <1>4. CASE DrainQueue(t) \/ ClearPool(t) \/ FinishStop(t)
    <2>1. UNCHANGED <<threads, acceptorOpen, acceptPending, acceptAborted, accepted>>
      BY <1>4 DEF DrainQueue, ClearPool, FinishStop, lifecycle, events, work
    <2>2. pc[t] \notin BeforeJoin \cup {"insert", "start"} /\ \E at : Go(t, at, NULL)
      BY <1>4 DEF DrainQueue, ClearPool, FinishStop, BeforeJoin
    <2> QED  BY <2>1, <2>2, <1>t, AwayGo, SameAccept
  <1> QED  BY <1>1, <1>2, <1>3, <1>4 DEF StopStep

LEMMA AcceptLoopStep ==
    ASSUME TypeOK, AcceptInv, NEW l \in Loops, NEW c \in Conns, HandlerStep(l) \/ ConnHandler(l, c)
    PROVE  AcceptInv'
  <1>l. l \in ThreadIds /\ Loops \subseteq ThreadIds /\ Stoppers \subseteq ThreadIds /\ l \in Stoppers
    BY DEF ThreadIds, Stoppers
  <1>1. threads' = threads /\ acceptorOpen' = acceptorOpen
    BY DEF HandlerStep, PoolInsert, ConnectionStart, QueuePush, PoolErase, ConnectionClose,
           ConnHandler, AcceptDropped, OnAccept, OnAborted, OnError, OnReadMore, DoWriteBody,
           OnWriteOK, OnReadBad, OnReadFinished, work, lifecycle
  <1>2. CASE PoolInsert(l) \/ OnAccept(l, c)
    <2>1. pc[l] \notin BeforeJoin /\ pc'[l] \in {"insert", "start"}
      BY <1>2, <1>l DEF PoolInsert, OnAccept, Polling, Go, TypeOK, BeforeJoin
    <2>2. \A u \in ThreadIds : u # l => pc'[u] = pc[u]
      BY <1>2 DEF PoolInsert, OnAccept, Go, TypeOK
    <2> QED  BY <1>1, <2>1, <2>2, <1>l, SameAccept DEF AcceptIsArmed
  <1>3. CASE ConnectionStart(l)
    <2>1. acceptPending' + acceptAborted' > 0
      BY <1>3 DEF ConnectionStart, TypeOK
    <2>2. pc[l] \notin BeforeJoin /\ \A u \in ThreadIds : u # l => pc'[u] = pc[u]
      BY <1>3 DEF ConnectionStart, Go, TypeOK, BeforeJoin
    <2> QED  BY <1>1, <2>1, <2>2, <1>l, SameAccept DEF AcceptIsArmed
  <1>4. CASE AcceptDropped(l, c)
    <2>1. ~acceptorOpen /\ pc' = pc
      BY <1>4 DEF AcceptDropped, thread
    <2> QED  BY <1>1, <2>1, SameAccept
  <1>5. CASE QueuePush(l) \/ PoolErase(l) \/ ConnectionClose(l)
    <2>1. UNCHANGED <<acceptPending, acceptAborted, accepted>>
      BY <1>5 DEF QueuePush, PoolErase, ConnectionClose, events
    <2>2. pc[l] \notin BeforeJoin \cup {"insert", "start"} /\ \E at, x : Go(l, at, x)
      BY <1>5 DEF QueuePush, PoolErase, ConnectionClose, BeforeJoin
    <2> QED  BY <1>1, <2>1, <2>2, <1>l, AwayGo, SameAccept
  <1>6. CASE ConnHandler(l, c) /\ ~OnAccept(l, c) /\ ~AcceptDropped(l, c)
    <2>1. UNCHANGED <<acceptPending, acceptAborted, accepted>> /\ pc[l] = "poll"
      BY <1>6 DEF ConnHandler, OnAborted, OnError, OnReadMore, DoWriteBody, OnWriteOK, OnReadBad,
                  OnReadFinished, Ready, Polling, events
    <2>2. UNCHANGED thread \/ \E at : Go(l, at, c)
      BY <1>6 DEF ConnHandler, OnAborted, OnError, OnReadMore, DoWriteBody, OnWriteOK, OnReadBad,
                  OnReadFinished
    <2>3. pc[l] \notin BeforeJoin \cup {"insert", "start"}
      BY <2>1 DEF BeforeJoin
    <2>4. CASE UNCHANGED thread
      <3>1. pc' = pc
        BY <2>4 DEF thread
      <3> QED  BY <1>1, <2>1, <3>1, SameThreads, SameAccept
    <2>5. CASE \E at : Go(l, at, c)
      BY <1>1, <2>1, <2>3, <2>5, <1>l, AwayGo, SameAccept
    <2> QED  BY <2>2, <2>4, <2>5
  <1> QED  BY <1>2, <1>3, <1>4, <1>5, <1>6 DEF HandlerStep

LEMMA AcceptStep == TypeOK /\ StopInv /\ AcceptInv /\ [Next]_vars => AcceptInv'
  <1> SUFFICES ASSUME TypeOK, StopInv, AcceptInv, [Next]_vars PROVE AcceptInv'
    OBVIOUS
  <1>l. Loops \cup Apps \cup Runners \cup Workers \subseteq ThreadIds
    BY DEF ThreadIds
  <1>s. UNCHANGED <<threads, acceptorOpen, acceptPending, acceptAborted, accepted, pc>> => AcceptInv'
    BY SameThreads, SameAccept
  <1>m. ASSUME NEW t \in ThreadIds, NEW at, NEW x, Go(t, at, x),
               pc[t] \notin BeforeJoin \cup {"insert", "start"},
               UNCHANGED <<threads, acceptorOpen, acceptPending, acceptAborted, accepted>>
        PROVE  AcceptInv'
    BY <1>m, AwayGo, SameAccept
  <1>1. ASSUME NEW r \in Runners, RunRefused(r) PROVE AcceptInv'
    <2>1. UNCHANGED <<threads, acceptorOpen, acceptPending, acceptAborted, accepted, pc>>
      BY <1>1 DEF RunRefused, work, events, thread
    <2> QED  BY <2>1, <1>s
  <1>2. ASSUME NEW r \in Runners, RunNotListening(r) PROVE AcceptInv'
    <2>1. \A a \in Apps : ~Stopping(a)
      BY <1>2, NullIsNothing DEF StopInv, NoneAfterJoin, RunNotListening, MayRun, ThreadIds
    <2>2. \A t \in Stoppers : pc[t] \notin Joins
      <3>1. \A l \in Loops : pc[l] = "out"
        BY <1>2 DEF RunNotListening, MayRun
      <3> QED  BY <2>1, <3>1 DEF Stoppers, Stopping, StopSteps, Joins
    <2>3. AllOut
      BY <1>2 DEF RunNotListening, StopInv, NoneAfterJoin
    <2>4. threads = {} /\ threads' = threads
      BY <1>2, <2>2, <2>3 DEF StopInv, NullsHaveStopper, AllOut, TypeOK, RunNotListening, work
    <2> QED  BY <2>4 DEF AcceptInv
  <1>3. ASSUME NEW r \in Runners, Run(r) PROVE AcceptInv'
    <2>1. acceptorOpen' /\ acceptPending' + acceptAborted' > 0
      BY <1>3 DEF Run, TypeOK
    <2> QED  BY <2>1 DEF AcceptInv, AcceptIsArmed
  <1>4. ASSUME NEW r \in Runners, RunReturns(r) PROVE AcceptInv'
    <2>1. UNCHANGED <<threads, acceptorOpen, acceptPending, acceptAborted, accepted>>
      BY <1>4 DEF RunReturns, lifecycle, events, work
    <2>2. pc[r] \notin BeforeJoin \cup {"insert", "start"} /\ Go(r, "idle", NULL)
      BY <1>4 DEF RunReturns, BeforeJoin
    <2> QED  BY <2>1, <2>2, <1>l, <1>m
  <1>5. ASSUME NEW a \in Apps, CallStop(a) PROVE AcceptInv'
    <2>1. UNCHANGED <<threads, acceptorOpen, acceptPending, acceptAborted, accepted>>
      BY <1>5 DEF CallStop, events, work
    <2>2. pc[a] \notin BeforeJoin \cup {"insert", "start"} /\ Go(a, "close", NULL)
      BY <1>5 DEF CallStop, BeforeJoin
    <2> QED  BY <2>1, <2>2, <1>l, <1>m
  <1>6. ASSUME Signal PROVE AcceptInv'
    <2>1. UNCHANGED <<threads, acceptorOpen, acceptPending, acceptAborted, accepted, pc>>
      BY <1>6 DEF Signal, lifecycle, work, thread
    <2> QED  BY <2>1, <1>s
  <1>7. ASSUME NEW l \in Loops, OnAcceptAborted(l) PROVE AcceptInv'
    <2>1. UNCHANGED <<threads, acceptorOpen, pc>>
      BY <1>7 DEF OnAcceptAborted, lifecycle, work, thread
    <2>2. acceptorOpen => acceptPending' + acceptAborted' > 0
      BY <1>7 DEF OnAcceptAborted, TypeOK
    <2> QED  BY <2>1, <2>2, SameAccept DEF AcceptIsArmed
  <1>8. ASSUME NEW l \in Loops, LeaveLoop(l) \/ OnSignal(l) PROVE AcceptInv'
    <2>1. UNCHANGED <<threads, acceptorOpen, acceptPending, acceptAborted, accepted>>
      BY <1>8 DEF LeaveLoop, OnSignal, lifecycle, events, work
    <2>2. /\ pc[l] \notin BeforeJoin \cup {"insert", "start"}
          /\ Go(l, "out", NULL) \/ Go(l, "close", NULL)
      BY <1>8 DEF LeaveLoop, OnSignal, Polling, BeforeJoin
    <2> QED  BY <2>1, <2>2, <1>l, <1>m
  <1>9. ASSUME NEW l \in Loops, NEW c \in Conns, HandlerStep(l) \/ ConnHandler(l, c)
        PROVE  AcceptInv'
    BY <1>9, AcceptLoopStep
  <1>10. ASSUME NEW l \in Loops, HandlerStep(l) PROVE \E c \in Conns : TRUE
    <2>1. pc[l] \in UsingSteps \cup ClosingSteps /\ l \in ThreadIds
      BY <1>10 DEF HandlerStep, PoolInsert, ConnectionStart, QueuePush, PoolErase,
                   ConnectionClose, UsingSteps, ClosingSteps, ThreadIds
    <2> QED  BY <2>1 DEF TypeOK
  <1>11. ASSUME NEW t \in Apps \cup Loops, StopStep(t) PROVE AcceptInv'
    BY <1>11, AcceptStopStep DEF Stoppers
  <1>12. ASSUME NEW w \in Workers, WorkerStep(w) PROVE AcceptInv'
    <2>1. UNCHANGED <<threads, acceptorOpen, acceptPending, acceptAborted, accepted>>
      BY <1>12 DEF WorkerStep, Pop, PassNull, Handle, lifecycle, events, work
    <2>2. (\E at, x : Go(w, at, x)) /\ pc[w] \notin BeforeJoin \cup {"insert", "start"}
      BY <1>12 DEF WorkerStep, Pop, PassNull, Handle, BeforeJoin
    <2> QED  BY <2>1, <2>2, <1>l, <1>m
  <1>13. ASSUME NEW c \in Conns, Client(c) PROVE AcceptInv'
    <2>1. UNCHANGED <<threads, acceptorOpen, pc>>
      BY <1>13 DEF Client, ClientConnects, ClientSends, ClientReceives, ClientCloses,
                   lifecycle, work, thread
    <2>2. AcceptIsArmed => AcceptIsArmed'
      <3>1. CASE ClientConnects(c)
        BY <3>1 DEF ClientConnects, AcceptIsArmed
      <3>2. CASE ClientSends(c) \/ ClientReceives(c) \/ ClientCloses(c)
        BY <3>2, <2>1 DEF ClientSends, ClientReceives, ClientCloses, events, AcceptIsArmed
      <3> QED  BY <1>13, <3>1, <3>2 DEF Client
    <2> QED  BY <2>1, <2>2, SameAccept
  <1>14. ASSUME UNCHANGED vars PROVE AcceptInv'
    <2>1. UNCHANGED <<threads, acceptorOpen, acceptPending, acceptAborted, accepted, pc>>
      BY <1>14 DEF vars, lifecycle, work, events, thread
    <2> QED  BY <2>1, <1>s
  <1> QED  BY <1>1, <1>2, <1>3, <1>4, <1>5, <1>6, <1>7, <1>8, <1>9, <1>10, <1>11, <1>12, <1>13,
              <1>14 DEF Next

\* While the server runs and nobody stops it, an accept is outstanding or its
\* handler is on its way to start the next one.
THEOREM AcceptIsAlwaysAlive == Spec => []AcceptAlive
  <1>1. TypeOK /\ AcceptInv => AcceptAlive
    <2> SUFFICES ASSUME AcceptInv, threads # {}, NoStopper PROVE AcceptIsArmed
      BY DEF AcceptAlive, AcceptIsArmed
    <2>1. \A t \in Stoppers : pc[t] \notin BeforeJoin
      BY DEF NoStopper, Stopping, StopSteps, BeforeJoin, Stoppers
    <2> QED  BY <2>1 DEF AcceptInv
  <1>2. Init => AcceptInv
    BY DEF Init, AcceptInv
  <1> QED  BY <1>1, <1>2, StopInit, StopInvStep, AcceptStep, TypeCorrect, PTL DEF Spec

---------------------------------------------------------------------------
\* Where a connection can be, and the pool

Places == UsingSteps \cup ClosingSteps

\* Between the clearing of the queue and that of the pool
ClearSteps == {"null", "join", "joining", "drain", "pool"}
Clearing   == \E t \in Stoppers : pc[t] \in ClearSteps

Driven(c) == op[c] # "none" \/ Queued(c) \/ (\E t \in ThreadIds : Holds(t, c)) \/ Closing(c)

InsertedBy(t, c) == pc[t] = "insert" /\ cur[t] = c
ShutBy(l, c)     == pc[l] = "shut" /\ cur[l] = c

\* A connection whose operation was aborted, or that is being closed, has left
\* the pool; one that is being put there is not being closed yet.
LeftPool(c) ==
    /\ res[c] = "aborted" => c \notin pool
    /\ \A l \in Loops : ShutBy(l, c) => c \notin pool
    /\ Closing(c) => \A t \in ThreadIds : ~InsertedBy(t, c)
    /\ op[c] = "none" => res[c] = "none"

NotLost(c) == c \in pool => Driven(c) \/ Clearing

PoolInv == \A c \in Conns : LeftPool(c) /\ NotLost(c)

---------------------------------------------------------------------------
\* Steps that leave a connection where it is

LEMMA StillPlaces ==
    ASSUME NEW d \in Conns, LeftPool(d), NotLost(d), UNCHANGED thread,
           d \in pool' => d \in pool, Queued(d) => Queued(d)',
           d \in pool' /\ op[d] # "none" => op'[d] # "none",
           res'[d] = "aborted" => res[d] = "aborted", op'[d] = "none" => res'[d] = "none"
    PROVE  LeftPool(d)' /\ NotLost(d)'
  <1>1. /\ Closing(d)' <=> Closing(d)
        /\ \A t \in ThreadIds : Holds(t, d)' <=> Holds(t, d)
        /\ \A t \in ThreadIds : InsertedBy(t, d)' <=> InsertedBy(t, d)
        /\ \A l \in Loops : ShutBy(l, d)' <=> ShutBy(l, d)
        /\ Clearing' <=> Clearing
    BY DEF thread, Closing, Holds, InsertedBy, ShutBy, Clearing
  <1>2. LeftPool(d)'
    BY <1>1 DEF LeftPool
  <1>3. NotLost(d)'
    BY <1>1 DEF NotLost, Driven
  <1> QED  BY <1>2, <1>3

\* A thread moves that neither held the connection nor takes it.
LEMMA OtherMoves ==
    ASSUME TypeOK, NEW d \in Conns, NEW t \in ThreadIds, NEW at, NEW x, Go(t, at, x),
           pc[t] \notin Places \/ cur[t] # d, at \notin Places \/ x # d
    PROVE  /\ Closing(d)' <=> Closing(d)
           /\ \A u \in ThreadIds : Holds(u, d)' <=> Holds(u, d)
           /\ \A u \in ThreadIds : InsertedBy(u, d)' <=> InsertedBy(u, d)
           /\ \A l \in Loops : ShutBy(l, d)' <=> ShutBy(l, d)
  <1>1. /\ pc'[t] = at /\ cur'[t] = x
        /\ \A u \in ThreadIds : u # t => pc'[u] = pc[u] /\ cur'[u] = cur[u]
    BY DEF TypeOK, Go
  <1>2. \A u \in ThreadIds, s \in Places :
            (pc'[u] = s /\ cur'[u] = d) <=> (pc[u] = s /\ cur[u] = d)
    BY <1>1
  <1>3. Loops \subseteq ThreadIds
    BY DEF ThreadIds
  <1>4. \A u \in ThreadIds : Holds(u, d)' <=> Holds(u, d)
    BY <1>2 DEF Holds, Places
  <1>5. Closing(d)' <=> Closing(d)
    BY <1>2, <1>3 DEF Closing, Places
  <1>6. \A u \in ThreadIds : InsertedBy(u, d)' <=> InsertedBy(u, d)
    BY <1>2 DEF InsertedBy, Places, UsingSteps
  <1>7. \A l \in Loops : ShutBy(l, d)' <=> ShutBy(l, d)
    BY <1>2, <1>3 DEF ShutBy, Places, ClosingSteps
  <1> QED  BY <1>4, <1>5, <1>6, <1>7

LEMMA ClearingGoes ==
    ASSUME TypeOK, NEW t \in ThreadIds, NEW at, NEW x, Go(t, at, x),
           pc[t] \notin ClearSteps \/ (t \in Stoppers /\ at \in ClearSteps)
    PROVE  Clearing => Clearing'
  BY DEF TypeOK, Go, Clearing, Stoppers, ThreadIds

LEMMA OtherPlaces ==
    ASSUME TypeOK, NEW d \in Conns, LeftPool(d), NotLost(d),
           NEW t \in ThreadIds, NEW at, NEW x, Go(t, at, x),
           pc[t] \notin Places \/ cur[t] # d, at \notin Places \/ x # d,
           pc[t] \notin ClearSteps,
           op'[d] = op[d], res'[d] = res[d], d \in pool' => d \in pool, Queued(d) => Queued(d)'
    PROVE  LeftPool(d)' /\ NotLost(d)'
  <1>1. Clearing => Clearing'
    BY ClearingGoes
  <1>2. LeftPool(d)'
    BY OtherMoves DEF LeftPool
  <1>3. NotLost(d)'
    BY <1>1, OtherMoves DEF NotLost, Driven
  <1> QED  BY <1>2, <1>3

---------------------------------------------------------------------------
\* The steps of DoStop()

LEMMA StopPlaces ==
    ASSUME TypeOK, PoolInv, NEW t \in Apps \cup Loops, StopStep(t), NEW d \in Conns
    PROVE  LeftPool(d)' /\ NotLost(d)'
  <1>t. t \in ThreadIds /\ t \in Stoppers /\ pc[t] \notin Places
    BY DEF ThreadIds, Stoppers, StopStep, CloseAcceptor, ClearQueue, PushNull, JoinWorkers,
       JoinThread, JoinTwice, ThreadJoined, ClearThreads, DrainQueue, ClearPool, FinishStop,
       Places, UsingSteps, ClosingSteps
  <1>d. LeftPool(d) /\ NotLost(d)
    BY DEF PoolInv
  <1>n. NULL # d
    BY NullIsNothing
  <1>1. CASE CloseAcceptor(t) \/ FinishStop(t)
    <2>1. PICK at : Go(t, at, NULL)
      BY <1>1 DEF CloseAcceptor, FinishStop
    <2>2. UNCHANGED <<op, res, pool, queue>> /\ pc[t] \notin ClearSteps
      BY <1>1 DEF CloseAcceptor, FinishStop, work, conns, async, ClearSteps
    <2> QED  BY <2>1, <2>2, <1>t, <1>d, <1>n, OtherPlaces DEF Queued
  <1>2. CASE ClearQueue(t) \/ PushNull(t) \/ JoinWorkers(t) \/ DrainQueue(t)
    <2>1. PICK at \in ClearSteps \cup {"thrown"} : Go(t, at, NULL)
      BY <1>2, JoinMoves DEF ClearQueue, PushNull, DrainQueue, ClearSteps, Joins
    <2>2. UNCHANGED <<op, res, pool>>
      BY <1>2, JoinMoves DEF ClearQueue, PushNull, DrainQueue, conns, async
    <2>3. Clearing'
      <3>1. CASE JoinTwice(t)
        <4>1. PICK v \in Apps \cup Loops : InJoin(v)
          BY <3>1 DEF JoinTwice
        <4>2. v \in Stoppers /\ v # t /\ pc[v] = "joining" /\ v \in ThreadIds
          BY <4>1, <3>1 DEF InJoin, Stoppers, JoinTwice, ThreadIds
        <4>3. pc'[v] = "joining"
          BY <4>2, <2>1 DEF Go, TypeOK
        <4> QED  BY <4>2, <4>3 DEF Clearing, ClearSteps
      <3>2. CASE ~JoinTwice(t)
        <4>1. PICK to \in ClearSteps : Go(t, to, NULL)
          BY <1>2, <3>2 DEF ClearQueue, PushNull, JoinWorkers, JoinThread, JoinTwice,
             ThreadJoined, ClearThreads, JoinThread, ThreadJoined, ClearThreads, DrainQueue,
             ClearSteps
        <4> QED  BY <4>1, <1>t DEF Clearing, Go, TypeOK
      <3> QED  BY <3>1, <3>2
    <2>4. LeftPool(d)'
      BY <2>1, <2>2, <1>t, <1>d, <1>n, OtherMoves DEF LeftPool, ClearSteps, Places, UsingSteps,
         ClosingSteps
    <2> QED  BY <2>3, <2>4 DEF NotLost
  <1>3. CASE ClearPool(t)
    <2>1. Go(t, "finish", NULL) /\ pool' = {} /\ UNCHANGED op
      BY <1>3 DEF ClearPool, CloseSockets
    <2>2. op'[d] = "none" => res'[d] = "none"
      BY <1>3, <1>d DEF ClearPool, CloseSockets, LeftPool
    <2>3. LeftPool(d)'
      BY <2>1, <2>2, <1>t, <1>d, <1>n, OtherMoves DEF LeftPool
    <2> QED  BY <2>1, <2>3 DEF NotLost
  <1> QED  BY <1>1, <1>2, <1>3 DEF StopStep

\* Run() finds no worker and no loop thread with a connection.
LEMMA RunPlaces ==
    ASSUME TypeOK, StopInv, PoolInv, NEW r \in Runners, Run(r), NEW d \in Conns
    PROVE  LeftPool(d)' /\ NotLost(d)'
  <1>1. UNCHANGED <<op, res, pool, queue, cur>>
    BY DEF Run, conns, async
  <1>2. \A u \in Workers \cup Loops \cup {r} : pc[u] \notin Places \cup ClearSteps
    <2>1. \A w \in Workers : pc[w] = "out"
      BY DEF Run, StopInv, NoneAfterJoin, AllOut
    <2>2. \A l \in Loops : pc[l] = "out"
      BY DEF Run, MayRun
    <2>3. pc[r] = "idle"
      BY DEF Run, MayRun
    <2> QED  BY <2>1, <2>2, <2>3 DEF Places, ClearSteps, UsingSteps, ClosingSteps
  <1>3. \A u \in Workers \cup Loops \cup {r} : pc'[u] \notin Places \cup ClearSteps
    <2>1. \A u \in Workers \cup Loops \cup {r} : pc'[u] \in {"wait", "poll", "running"}
      BY ThreadsDisjoint DEF Run, ThreadIds
    <2> QED  BY <2>1 DEF Places, ClearSteps, UsingSteps, ClosingSteps
  <1>4. \A u \in ThreadIds : u \notin Workers \cup Loops \cup {r} => pc'[u] = pc[u]
    BY DEF Run
  <1>5. \A u \in ThreadIds, s \in Places \cup ClearSteps : pc'[u] = s <=> pc[u] = s
    BY <1>2, <1>3, <1>4
  <1>6. Loops \subseteq ThreadIds /\ Stoppers \subseteq ThreadIds
    BY DEF ThreadIds, Stoppers
  <1>7. \A u \in ThreadIds : Holds(u, d)' <=> Holds(u, d)
    BY <1>1, <1>5 DEF Holds, Places
  <1>8. Closing(d)' <=> Closing(d)
    BY <1>1, <1>5, <1>6 DEF Closing, Places
  <1>9. /\ \A u \in ThreadIds : InsertedBy(u, d)' <=> InsertedBy(u, d)
        /\ \A l \in Loops : ShutBy(l, d)' <=> ShutBy(l, d)
    BY <1>1, <1>5, <1>6 DEF InsertedBy, ShutBy, Places, UsingSteps, ClosingSteps
  <1>10. Clearing' <=> Clearing
    BY <1>5, <1>6 DEF Clearing
  <1>11. LeftPool(d) /\ NotLost(d)
    BY DEF PoolInv
  <1>12. LeftPool(d)'
    BY <1>1, <1>8, <1>9, <1>11 DEF LeftPool
  <1>13. NotLost(d)'
    BY <1>1, <1>7, <1>8, <1>10, <1>11 DEF NotLost, Driven, Queued
  <1> QED  BY <1>12, <1>13

---------------------------------------------------------------------------
\* The workers

LEMMA WorkerPlaces ==
    ASSUME OwnerInv, PoolInv, NEW w \in Workers, WorkerStep(w), NEW d \in Conns
    PROVE  LeftPool(d)' /\ NotLost(d)'
  <1>w. w \in ThreadIds /\ TypeOK /\ QueuedOnce /\ LeftPool(d) /\ NotLost(d) /\ NULL # d
    BY NullIsNothing DEF OwnerInv, OneOwner, ThreadIds, PoolInv
  <1>1. CASE Pop(w)
    <2>1. UNCHANGED <<op, res, pool>> /\ pc[w] \notin Places /\ pc[w] \notin ClearSteps
      BY <1>1 DEF Pop, conns, async, Places, UsingSteps, ClosingSteps, ClearSteps
    <2>2. Queued(d) /\ d # Head(queue) => Queued(d)'
      BY <1>1, <1>w, PopQueue DEF Pop
    <2>3. CASE Head(queue) # d
      <3>1. PICK at, x : Go(w, at, x) /\ x # d
        BY <1>1, <1>w, <2>3 DEF Pop
      <3> QED  BY <3>1, <2>1, <2>2, <2>3, <1>w, OtherPlaces
    <2>4. CASE Head(queue) = d
      <3>1. Go(w, "handle", d)
        BY <1>1, <1>w, <2>4 DEF Pop
      <3>2. /\ pc'[w] = "handle" /\ cur'[w] = d
            /\ \A u \in ThreadIds : u # w => pc'[u] = pc[u] /\ cur'[u] = cur[u]
        BY <3>1, <1>w DEF Go, TypeOK
      <3>3. Holds(w, d)'
        BY <3>2 DEF Holds, UsingSteps
      <3>4. /\ \A u \in ThreadIds : InsertedBy(u, d)' => InsertedBy(u, d)
            /\ \A l \in Loops : ShutBy(l, d)' => ShutBy(l, d)
            /\ Closing(d)' => Closing(d)
        BY <3>2 DEF InsertedBy, ShutBy, Closing, ClosingSteps, ThreadIds
      <3>5. LeftPool(d)'
        BY <3>4, <2>1, <1>w DEF LeftPool
      <3> QED  BY <3>3, <3>5, <1>w DEF NotLost, Driven
    <2> QED  BY <2>3, <2>4
  <1>2. CASE PassNull(w)
    <2>1. UNCHANGED <<op, res, pool>> /\ pc[w] \notin Places /\ pc[w] \notin ClearSteps
      BY <1>2 DEF PassNull, conns, async, Places, UsingSteps, ClosingSteps, ClearSteps
    <2>2. Go(w, "out", NULL) /\ queue' = Append(queue, NULL)
      BY <1>2 DEF PassNull
    <2>3. Queued(d) => Queued(d)'
      BY <2>2, <1>w, PushQueue, NullIsNothing
    <2> QED  BY <2>1, <2>2, <2>3, <1>w, OtherPlaces
  <1>3. ASSUME NEW n \in 0..MaxPayloads, Handle(w, n) PROVE LeftPool(d)' /\ NotLost(d)'
    <2>1. UNCHANGED <<pool, queue>> /\ pc[w] = "handle" /\ Go(w, "wait", NULL) /\ Begin(cur[w], "headers")
      BY <1>3 DEF Handle, SendResponse, work
    <2>2. "wait" \notin Places /\ pc[w] \notin ClearSteps
      BY <2>1 DEF Places, UsingSteps, ClosingSteps, ClearSteps
    <2>3. CASE cur[w] # d
      <3>1. op'[d] = op[d] /\ res'[d] = res[d]
        BY <2>1, <2>3, <1>w DEF Begin, TypeOK
      <3> QED  BY <3>1, <2>1, <2>2, <2>3, <1>w, OtherPlaces DEF Queued
    <2>4. CASE cur[w] = d
      <3>1. op'[d] = "headers" /\ res'[d] # "aborted"
        BY <2>1, <2>4, <1>w DEF Begin, TypeOK
      <3>2. /\ pc'[w] = "wait"
            /\ \A u \in ThreadIds : u # w => pc'[u] = pc[u] /\ cur'[u] = cur[u]
        BY <2>1, <1>w DEF Go, TypeOK
      <3>3. /\ \A u \in ThreadIds : InsertedBy(u, d)' => InsertedBy(u, d)
            /\ \A l \in Loops : ShutBy(l, d)' => ShutBy(l, d)
            /\ Closing(d)' => Closing(d)
        BY <3>2 DEF InsertedBy, ShutBy, Closing, ClosingSteps, ThreadIds
      <3>4. LeftPool(d)'
        BY <3>1, <3>3, <2>1, <1>w DEF LeftPool
      <3> QED  BY <3>1, <3>4 DEF NotLost, Driven
    <2> QED  BY <2>3, <2>4
  <1> QED  BY <1>1, <1>2, <1>3 DEF WorkerStep

---------------------------------------------------------------------------
\* The threads of the event loop

LEMMA Moved ==
    ASSUME TypeOK, NEW l \in Loops, NEW at, NEW x, Go(l, at, x)
    PROVE  /\ l \in ThreadIds /\ pc'[l] = at /\ cur'[l] = x
           /\ \A u \in ThreadIds : u # l => pc'[u] = pc[u] /\ cur'[u] = cur[u]
  BY DEF TypeOK, Go, ThreadIds

\* A loop thread moves on with d, or drops it, other than into the pool.
LEMMA LoopMoves ==
    ASSUME TypeOK, NEW d \in Conns, NEW l \in Loops, NEW at, NEW x, Go(l, at, x)
    PROVE  /\ at # "insert" => \A u \in ThreadIds : InsertedBy(u, d)' => InsertedBy(u, d)
           /\ at # "shut" => \A k \in Loops : ShutBy(k, d)' => ShutBy(k, d)
           /\ at \notin ClosingSteps => (Closing(d)' => Closing(d))
           /\ at \in UsingSteps /\ x = d => \E u \in ThreadIds : Holds(u, d)'
           /\ at \in ClosingSteps /\ x = d => Closing(d)'
  BY Moved DEF InsertedBy, ShutBy, Closing, Holds, ThreadIds

LEMMA Begun ==
    ASSUME TypeOK, NEW c \in Conns, NEW kind \in {"read"} \cup Writes, Begin(c, kind)
    PROVE  /\ op'[c] # "none" /\ res'[c] # "aborted"
           /\ \A d \in Conns : d # c => op'[d] = op[d] /\ res'[d] = res[d]
  BY DEF TypeOK, Begin, Writes

LEMMA Finished ==
    ASSUME TypeOK, NEW c \in Conns, Done(c)
    PROVE  /\ op'[c] = "none" /\ res'[c] = "none"
           /\ \A d \in Conns : d # c => op'[d] = op[d] /\ res'[d] = res[d]
  BY DEF TypeOK, Done

LEMMA LoopSteps ==
    /\ "poll" \notin Places \cup ClearSteps \cup {"insert", "shut"}
    /\ {"insert", "start", "push"} \subseteq UsingSteps
    /\ ClosingSteps = {"erase", "shut"}
    /\ Places \cap ClearSteps = {}
  BY DEF Places, ClearSteps, UsingSteps, ClosingSteps

\* The rest of a handler that has begun, for the connection it is about.
LEMMA HandlerOwn ==
    ASSUME OwnerInv, PoolInv, NEW l \in Loops, HandlerStep(l), NEW d \in Conns, cur[l] = d
    PROVE  LeftPool(d)' /\ NotLost(d)'
  <1>l. /\ l \in ThreadIds /\ TypeOK /\ LeftPool(d) /\ NotLost(d)
        /\ \A t \in ThreadIds : Holds(t, d) => op[d] = "none"
    BY DEF OwnerInv, OneOwner, InOnePlace, ThreadIds, PoolInv
  <1>1. CASE PoolInsert(l)
    <2>1. InsertedBy(l, d) /\ Holds(l, d) /\ Go(l, "start", d) /\ UNCHANGED <<op, res>>
      BY <1>1 DEF PoolInsert, InsertedBy, Holds, UsingSteps, async
    <2>2. op[d] = "none" /\ res[d] = "none" /\ ~Closing(d)
      BY <2>1, <1>l DEF LeftPool
    <2>3. ~Closing(d)' /\ \E u \in ThreadIds : Holds(u, d)'
      BY <2>1, <2>2, <1>l, LoopMoves, LoopSteps
    <2>4. \A k \in Loops : ~ShutBy(k, d)'
      BY <2>3 DEF ShutBy, Closing, ClosingSteps
    <2> QED  BY <2>1, <2>2, <2>3, <2>4 DEF LeftPool, NotLost, Driven
  <1>2. CASE ConnectionStart(l)
    <2>1. Go(l, "poll", NULL) /\ Begin(d, "read") /\ UNCHANGED pool
      BY <1>2 DEF ConnectionStart
    <2>2. op'[d] # "none" /\ res'[d] # "aborted"
      BY <2>1, <1>l, Begun
    <2>3. LeftPool(d)'
      BY <2>1, <2>2, <1>l, LoopMoves, LoopSteps DEF LeftPool
    <2> QED  BY <2>2, <2>3 DEF NotLost, Driven
  <1>3. CASE QueuePush(l)
    <2>1. Go(l, "poll", NULL) /\ queue' = Append(queue, d) /\ UNCHANGED <<op, res, pool>>
      BY <1>3 DEF QueuePush, conns, async
    <2>2. Queued(d)'
      <3>1. Len(queue') \in Nat \ {0} /\ queue'[Len(queue')] = d
        BY <2>1, <1>l DEF TypeOK
      <3> QED  BY <3>1 DEF Queued
    <2>3. LeftPool(d)'
      BY <2>1, <1>l, LoopMoves, LoopSteps DEF LeftPool
    <2> QED  BY <2>2, <2>3 DEF NotLost, Driven
  <1>4. CASE PoolErase(l)
    <2>1. Go(l, "shut", d) /\ d \notin pool' /\ UNCHANGED <<op, res>>
      BY <1>4 DEF PoolErase, async
    <2>2. Closing(d)
      BY <1>4, <1>l DEF PoolErase, Closing, ClosingSteps
    <2>3. \A u \in ThreadIds : ~InsertedBy(u, d)'
      BY <2>1, <2>2, <1>l, LoopMoves DEF LeftPool
    <2> QED  BY <2>1, <2>3, <1>l DEF LeftPool, NotLost
  <1>5. CASE ConnectionClose(l)
    <2>1. Go(l, "poll", NULL) /\ UNCHANGED <<op, pool>> /\ CloseSockets({d})
      BY <1>5 DEF ConnectionClose, CloseSockets
    <2>2. d \notin pool'
      BY <1>5, <2>1, <1>l DEF ConnectionClose, ShutBy, LeftPool
    <2>3. op'[d] = "none" => res'[d] = "none"
      BY <2>1, <1>l DEF CloseSockets, LeftPool
    <2>4. LeftPool(d)'
      BY <2>1, <2>2, <2>3, <1>l, LoopMoves, LoopSteps DEF LeftPool
    <2> QED  BY <2>2, <2>4 DEF NotLost
  <1> QED  BY <1>1, <1>2, <1>3, <1>4, <1>5 DEF HandlerStep

\* ... and for the others.
LEMMA HandlerOthers ==
    ASSUME OwnerInv, PoolInv, NEW l \in Loops, HandlerStep(l), NEW d \in Conns, cur[l] # d
    PROVE  LeftPool(d)' /\ NotLost(d)'
  <1>l. l \in ThreadIds /\ TypeOK /\ LeftPool(d) /\ NotLost(d) /\ NULL # d
    BY NullIsNothing DEF OwnerInv, ThreadIds, PoolInv
  <1>1. pc[l] \in Places /\ pc[l] \notin ClearSteps /\ cur[l] \in Conns
    <2>1. pc[l] \in Places
      BY DEF HandlerStep, PoolInsert, ConnectionStart, QueuePush, PoolErase, ConnectionClose,
             Places, UsingSteps, ClosingSteps
    <2> QED  BY <2>1, <1>l, LoopSteps DEF TypeOK, Places
  <1>2. \E at, x : Go(l, at, x) /\ x # d
    BY <1>l DEF HandlerStep, PoolInsert, ConnectionStart, QueuePush, PoolErase, ConnectionClose
  <1>3. d \in pool' => d \in pool
    BY DEF HandlerStep, PoolInsert, ConnectionStart, QueuePush, PoolErase, ConnectionClose, conns
  <1>4. op'[d] = op[d] /\ res'[d] = res[d]
    <2>1. CASE ConnectionStart(l)
      BY <2>1, <1>1, <1>l, Begun DEF ConnectionStart
    <2>2. CASE ConnectionClose(l)
      BY <2>2, <1>l DEF ConnectionClose, CloseSockets, TypeOK
    <2>3. CASE PoolInsert(l) \/ QueuePush(l) \/ PoolErase(l)
      BY <2>3 DEF PoolInsert, QueuePush, PoolErase, conns, async
    <2> QED  BY <2>1, <2>2, <2>3 DEF HandlerStep
  <1>5. Queued(d) => Queued(d)'
    <2>1. CASE QueuePush(l)
      <3>1. queue' = Append(queue, cur[l])
        BY <2>1 DEF QueuePush
      <3> QED  BY <3>1, <1>1, <1>l DEF TypeOK, Queued
    <2>2. CASE ~QueuePush(l)
      <3>1. queue' = queue
        BY <2>2 DEF HandlerStep, PoolInsert, ConnectionStart, PoolErase, ConnectionClose, work
      <3> QED  BY <3>1 DEF Queued
    <2> QED  BY <2>1, <2>2
  <1> QED  BY <1>1, <1>2, <1>3, <1>4, <1>5, <1>l, OtherPlaces

\* The handlers of a connection, for that connection.
LEMMA ConnOwn ==
    ASSUME OwnerInv, PoolInv, NEW l \in Loops, NEW d \in Conns, ConnHandler(l, d)
    PROVE  LeftPool(d)' /\ NotLost(d)'
  <1>l. /\ l \in ThreadIds /\ TypeOK /\ LeftPool(d) /\ NotLost(d) /\ Fresh(d)
        /\ \A t \in ThreadIds : Holds(t, d) => op[d] = "none"
    BY DEF OwnerInv, OneOwner, FreshSockets, InOnePlace, ThreadIds, PoolInv
  <1>1. CASE AcceptDropped(l, d)
    <2>1. UNCHANGED <<op, res, pool, queue, thread>>
      BY <1>1 DEF AcceptDropped, work, async
    <2> QED  BY <2>1, <1>l, StillPlaces DEF Queued, LeftPool
  <1>2. CASE OnAccept(l, d)
    <2>1. Go(l, "insert", d) /\ UNCHANGED <<op, res, pool>>
      BY <1>2 DEF OnAccept, async
    <2>2. d \notin pool /\ op[d] = "none" /\ \A t \in ThreadIds : cur[t] # d
      BY <1>2, <1>l DEF OnAccept, Fresh
    <2>3. ~Closing(d)'
      <3>1. ~Closing(d)
        BY <2>2 DEF Closing, ThreadIds
      <3> QED  BY <3>1, <2>1, <1>l, LoopMoves, LoopSteps
    <2> QED  BY <2>1, <2>2, <2>3, <1>l DEF LeftPool, NotLost
  <1>r. CASE ~AcceptDropped(l, d) /\ ~OnAccept(l, d)
    <2>1. op[d] # "none" /\ UNCHANGED <<pool, queue>>
      BY <1>r DEF ConnHandler, OnAborted, OnError, OnReadMore, DoWriteBody, OnWriteOK, OnReadBad,
                  OnReadFinished, Ready, Writes, work
    <2>2. \A t \in ThreadIds : ~InsertedBy(t, d)
      BY <2>1, <1>l DEF InsertedBy, Holds, UsingSteps
    <2>3. CASE Begin(d, "read") /\ UNCHANGED thread
      <3>1. op'[d] # "none" /\ res'[d] # "aborted"
        BY <2>3, <1>l, Begun
      <3> QED  BY <3>1, <2>1, <2>3, <1>l, StillPlaces DEF Queued
    <2>4. CASE Begin(d, "body") /\ UNCHANGED thread
      <3>1. op'[d] # "none" /\ res'[d] # "aborted"
        BY <2>4, <1>l, Begun DEF Writes
      <3> QED  BY <3>1, <2>1, <2>4, <1>l, StillPlaces DEF Queued
    <2>5. CASE Done(d) /\ UNCHANGED thread /\ d \notin pool
      <3>1. op'[d] = "none" /\ res'[d] = "none"
        BY <2>5, <1>l, Finished
      <3> QED  BY <3>1, <2>1, <2>5, <1>l, StillPlaces DEF Queued
    <2>6. ASSUME NEW at \in {"erase", "push"}, Done(d) \/ Begin(d, "headers"), Go(l, at, d)
          PROVE  LeftPool(d)' /\ NotLost(d)'
      <3>1. res'[d] # "aborted" /\ (op'[d] = "none" => res'[d] = "none")
        BY <2>6, <1>l, Begun, Finished DEF Writes
      <3>2. at # "insert" /\ at # "shut"
        OBVIOUS
      <3>3. \A u \in ThreadIds : ~InsertedBy(u, d)'
        BY <2>2, <2>6, <3>2, <1>l, LoopMoves
      <3>4. \A k \in Loops : ShutBy(k, d)' => d \notin pool'
        BY <2>1, <2>6, <3>2, <1>l, LoopMoves DEF LeftPool
      <3>5. Driven(d)'
        BY <2>6, <1>l, LoopMoves, LoopSteps DEF Driven
      <3> QED  BY <3>1, <3>3, <3>4, <3>5 DEF LeftPool, NotLost
    <2>7. \/ Begin(d, "read") /\ UNCHANGED thread
          \/ Begin(d, "body") /\ UNCHANGED thread
          \/ Done(d) /\ UNCHANGED thread /\ d \notin pool
          \/ \E at \in {"erase", "push"} : (Done(d) \/ Begin(d, "headers")) /\ Go(l, at, d)
      <3>1. CASE OnAborted(l, d)
        BY <3>1, <1>l DEF OnAborted, Ready, LeftPool
      <3>2. CASE OnError(l, d) \/ \E k \in BOOLEAN : OnReadBad(l, d, k) \/ OnReadFinished(l, d, k)
        BY <3>2 DEF OnError, OnReadBad, OnReadFinished, SendResponse
      <3>3. CASE OnReadMore(l, d) \/ DoWriteBody(l, d) \/ OnWriteOK(l, d)
        BY <3>3 DEF OnReadMore, DoWriteBody, OnWriteOK
      <3> QED  BY <1>r, <3>1, <3>2, <3>3 DEF ConnHandler
    <2> QED  BY <2>3, <2>4, <2>5, <2>6, <2>7
  <1> QED  BY <1>1, <1>2, <1>r

\* ... and for the others.
LEMMA ConnOthers ==
    ASSUME OwnerInv, PoolInv, NEW l \in Loops, NEW c \in Conns, ConnHandler(l, c),
           NEW d \in Conns, c # d
    PROVE  LeftPool(d)' /\ NotLost(d)'
  <1>l. l \in ThreadIds /\ TypeOK /\ LeftPool(d) /\ NotLost(d)
    BY DEF OwnerInv, ThreadIds, PoolInv
  <1>1. pc[l] = "poll" /\ UNCHANGED <<pool, queue>>
    BY DEF ConnHandler, AcceptDropped, OnAccept, OnAborted, OnError, OnReadMore, DoWriteBody,
           OnWriteOK, OnReadBad, OnReadFinished, Ready, Polling, work
  <1>2. UNCHANGED <<op, res>> \/ Done(c) \/ \E kind \in {"read"} \cup Writes : Begin(c, kind)
    BY DEF ConnHandler, AcceptDropped, OnAccept, OnAborted, OnError, OnReadMore, DoWriteBody,
           OnWriteOK, OnReadBad, OnReadFinished, SendResponse, Writes, async
  <1>3. op'[d] = op[d] /\ res'[d] = res[d]
    BY <1>2, <1>l, Begun, Finished
  <1>4. UNCHANGED thread \/ \E at : Go(l, at, c)
    BY DEF ConnHandler, AcceptDropped, OnAccept, OnAborted, OnError, OnReadMore, DoWriteBody,
           OnWriteOK, OnReadBad, OnReadFinished
  <1>5. CASE UNCHANGED thread
    BY <1>1, <1>3, <1>5, <1>l, StillPlaces DEF Queued, LeftPool
  <1>6. ASSUME NEW at, Go(l, at, c) PROVE LeftPool(d)' /\ NotLost(d)'
    BY <1>1, <1>3, <1>6, <1>l, OtherPlaces, LoopSteps DEF Queued
  <1> QED  BY <1>4, <1>5, <1>6

---------------------------------------------------------------------------
\* All the steps

LEMMA PoolInit == Init => PoolInv
  BY NullIsNothing DEF Init, PoolInv, LeftPool, NotLost, Closing, InsertedBy, ShutBy, ThreadIds

LEMMA PoolStep == OwnerInv /\ StopInv /\ PoolInv /\ [Next]_vars => PoolInv'
  <1> SUFFICES ASSUME OwnerInv, StopInv, PoolInv, [Next]_vars, NEW d \in Conns
               PROVE  LeftPool(d)' /\ NotLost(d)'
    BY DEF PoolInv
  <1> DEFINE Goal == LeftPool(d)' /\ NotLost(d)'
  <1>d. TypeOK /\ LeftPool(d) /\ NotLost(d) /\ NULL # d
    BY NullIsNothing DEF OwnerInv, PoolInv
  <1>s. UNCHANGED <<op, res, pool, queue, thread>> => Goal
    BY <1>d, StillPlaces DEF Queued, LeftPool
  <1>m. ASSUME NEW t \in ThreadIds, NEW at, Go(t, at, NULL), pc[t] \in {"running", "idle", "poll"},
               UNCHANGED <<op, res, pool, queue>>
        PROVE  Goal
    <2>1. pc[t] \notin Places /\ pc[t] \notin ClearSteps
      BY <1>m DEF Places, ClearSteps, UsingSteps, ClosingSteps
    <2> QED  BY <2>1, <1>m, <1>d, OtherPlaces DEF Queued
  <1> HIDE DEF Goal
  <1>1. ASSUME NEW r \in Runners, RunRefused(r) \/ RunNotListening(r) PROVE Goal
    <2>1. UNCHANGED <<op, res, pool, queue, thread>>
      <3>1. CASE RunRefused(r)
        BY <3>1 DEF RunRefused, conns, async, work
      <3>2. CASE RunNotListening(r)
        BY <3>2 DEF RunNotListening, conns, async, work
      <3> QED  BY <1>1, <3>1, <3>2
    <2> QED  BY <2>1, <1>s
  <1>2. ASSUME NEW r \in Runners, Run(r) PROVE Goal
    BY <1>2, <1>d, RunPlaces DEF Goal
  <1>3. ASSUME NEW r \in Runners, RunReturns(r) PROVE Goal
    <2>1. UNCHANGED <<op, res, pool, queue>> /\ r \in ThreadIds
      BY <1>3 DEF RunReturns, conns, async, work, ThreadIds
    <2> QED  BY <1>3, <2>1, <1>m DEF RunReturns
  <1>4. ASSUME NEW a \in Apps, CallStop(a) PROVE Goal
    <2>1. UNCHANGED <<op, res, pool, queue>> /\ a \in ThreadIds
      BY <1>4 DEF CallStop, conns, async, work, ThreadIds
    <2> QED  BY <1>4, <2>1, <1>m DEF CallStop
  <1>5. ASSUME Signal PROVE Goal
    <2>1. UNCHANGED <<op, res, pool, queue, thread>>
      BY <1>5 DEF Signal, conns, async, work
    <2> QED  BY <2>1, <1>s
  <1>6. ASSUME NEW l \in Loops, LeaveLoop(l) \/ OnSignal(l) PROVE Goal
    <2>1. UNCHANGED <<op, res, pool, queue>> /\ l \in ThreadIds /\ pc[l] = "poll"
      BY <1>6 DEF LeaveLoop, OnSignal, Polling, conns, async, work, ThreadIds
    <2>2. Go(l, "out", NULL) \/ Go(l, "close", NULL)
      BY <1>6 DEF LeaveLoop, OnSignal
    <2> QED  BY <2>1, <2>2, <1>m
  <1>7. ASSUME NEW l \in Loops, OnAcceptAborted(l) PROVE Goal
    BY <1>7, <1>s DEF OnAcceptAborted, conns, async, work
  <1>8. ASSUME NEW l \in Loops, HandlerStep(l) PROVE Goal
    BY <1>8, HandlerOwn, HandlerOthers DEF Goal
  <1>9. ASSUME NEW l \in Loops, NEW c \in Conns, ConnHandler(l, c) PROVE Goal
    BY <1>9, ConnOwn, ConnOthers DEF Goal
  <1>10. ASSUME NEW t \in Apps \cup Loops, StopStep(t) PROVE Goal
    BY <1>10, <1>d, StopPlaces DEF Goal
  <1>11. ASSUME NEW w \in Workers, WorkerStep(w) PROVE Goal
    BY <1>11, WorkerPlaces DEF Goal
  <1>12. ASSUME NEW c \in Conns, Client(c) PROVE Goal
    <2>1. CASE ClientConnects(c)
      BY <2>1, <1>s DEF ClientConnects, conns, async, work
    <2>2. CASE ClientSends(c) \/ ClientReceives(c) \/ ClientCloses(c)
      <3>1. UNCHANGED <<op, pool, queue, thread>>
        BY <2>2 DEF ClientSends, ClientReceives, ClientCloses, Completes, work
      <3>2. res[c] = "pending" /\ (res' = [res EXCEPT ![c] = "ok"] \/ res' = [res EXCEPT ![c] = "err"])
        BY <2>2 DEF ClientSends, ClientReceives, ClientCloses, Completes
      <3>3. /\ res'[d] = "aborted" => res[d] = "aborted"
            /\ op'[d] = "none" => res'[d] = "none"
        BY <3>1, <3>2, <1>d DEF TypeOK, LeftPool
      <3> QED  BY <3>1, <3>3, <1>d, StillPlaces DEF Queued, Goal
    <2> QED  BY <1>12, <2>1, <2>2 DEF Client
  <1>13. ASSUME UNCHANGED vars PROVE Goal
    <2>1. UNCHANGED <<op, res, pool, queue, thread>>
      BY <1>13 DEF vars, conns, async, work
    <2> QED  BY <2>1, <1>s
  <1> QED  BY <1>1, <1>2, <1>3, <1>4, <1>5, <1>6, <1>7, <1>8, <1>9, <1>10, <1>11, <1>12, <1>13
           DEF Next, Goal

\* A connection of the pool that no operation, no place in the queue and no
\* thread keeps going is on its way out: someone closes it, or a DoStop() that
\* dropped it from the queue has yet to clear the pool.
THEOREM NoConnectionLost == Spec => []NoLostConnection
  <1>1. OwnerInv /\ PoolInv => NoLostConnection
    <2> SUFFICES ASSUME OwnerInv, PoolInv, NEW c \in pool
                 PROVE  \/ op[c] # "none" \/ Queued(c) \/ (\E t \in ThreadIds : Holds(t, c))
                        \/ Closing(c)
                        \/ \E t \in Apps \cup Loops :
                              pc[t] \in {"null", "join", "joining", "drain", "pool"}
      BY DEF NoLostConnection
    <2>1. c \in Conns
      BY DEF OwnerInv, TypeOK
    <2>2. Driven(c) \/ Clearing
      BY <2>1 DEF PoolInv, NotLost
    <2> QED  BY <2>2 DEF Driven, Clearing, Stoppers, ClearSteps
  <1>2. Init => OwnerInv
    BY TypeInit, OwnerInit DEF OwnerInv
  <1>3. OwnerInv /\ [Next]_vars => OwnerInv' /\ TypeOK
    BY TypeStep, OwnerStep DEF OwnerInv
  <1>4. OwnerInv /\ StopInv /\ [Next]_vars => StopInv'
    BY StopInvStep DEF OwnerInv
  <1> QED  BY <1>1, <1>2, <1>3, <1>4, StopInit, PoolInit, PoolStep, PTL DEF Spec

---------------------------------------------------------------------------
(* What the server promises a connection.  WebccServer implements          *)
(* ConnectionProtocol: the theorem behind the property ImplementsProtocol. *)
(* With the one loop thread of the default, what a connection was told,    *)
(* its place in the pool and its end are kept as well.                     *)

phases == [c \in Conns |-> Phase(c)]

---------------------------------------------------------------------------
\* The phase of a connection, from the places it can be in

Reading(c)  == op[c] = "read" /\ res[c] # "aborted"
Writing(c)  == op[c] \in Writes /\ res[c] # "aborted"
InQueue(c)  == Queued(c) \/ \E l \in Loops : Holds(l, c) /\ pc[l] = "push"
InWorker(c) == \E w \in Workers : Holds(w, c)
IsNew(c)    == sock[c] = "none" \/ \E l \in Loops : Holds(l, c) /\ pc[l] # "push"

\* A connection is in one place at a time, so these exclude one another.
LEMMA PlacesExclude ==
    ASSUME OwnerInv, NEW c \in Conns
    PROVE  /\ Reading(c) => ~Writing(c) /\ ~InQueue(c) /\ ~InWorker(c) /\ ~IsNew(c)
           /\ Writing(c) => ~InQueue(c) /\ ~InWorker(c) /\ ~IsNew(c)
           /\ InQueue(c) => ~InWorker(c) /\ ~IsNew(c) /\ op[c] = "none"
           /\ InWorker(c) => ~IsNew(c) /\ op[c] = "none"
           /\ IsNew(c) => op[c] = "none"
  <1>1. InOnePlace(c) /\ Fresh(c)
    BY DEF OwnerInv, OneOwner, FreshSockets
  <1>2. Loops \subseteq ThreadIds /\ Workers \subseteq ThreadIds /\ Workers \cap Loops = {}
    BY ThreadsDisjoint DEF ThreadIds
  <1>3. /\ Queued(c) => op[c] = "none" /\ \A t \in ThreadIds : ~Holds(t, c)
        /\ \A t \in ThreadIds : Holds(t, c) => op[c] = "none"
        /\ \A t, u \in ThreadIds : Holds(t, c) /\ Holds(u, c) => t = u
    BY <1>1 DEF InOnePlace
  <1>4. sock[c] = "none" => op[c] = "none" /\ ~Queued(c) /\ \A t \in ThreadIds : ~Holds(t, c)
    BY <1>1 DEF Fresh, Holds
  <1>5. (Reading(c) => ~Writing(c) /\ op[c] # "none") /\ (Writing(c) => op[c] # "none")
    BY DEF Reading, Writing, Writes
  <1>6. InQueue(c) => ~InWorker(c) /\ ~IsNew(c) /\ op[c] = "none"
    BY <1>2, <1>3, <1>4 DEF InQueue, InWorker, IsNew
  <1>7. InWorker(c) => ~IsNew(c) /\ op[c] = "none"
    BY <1>2, <1>3, <1>4 DEF InWorker, IsNew
  <1>8. IsNew(c) => op[c] = "none"
    BY <1>2, <1>3, <1>4 DEF IsNew
  <1> QED  BY <1>5, <1>6, <1>7, <1>8

PhaseIs(c) ==
    /\ Reading(c) => Phase(c) = "reading"
    /\ Writing(c) => Phase(c) = "writing"
    /\ InQueue(c) => Phase(c) = "queued"
    /\ InWorker(c) => Phase(c) = "handling"
    /\ IsNew(c) => Phase(c) = "new"
    /\ ~Reading(c) /\ ~Writing(c) /\ ~InQueue(c) /\ ~InWorker(c) /\ ~IsNew(c)
         => Phase(c) = "gone"

PhasesAre == \A c \in Conns : PhaseIs(c)

LEMMA PhaseValue == OwnerInv => PhasesAre
  <1> SUFFICES ASSUME OwnerInv, NEW c \in Conns PROVE PhaseIs(c)
    BY DEF PhasesAre
  <1>1. Phase(c) = CASE Reading(c) -> "reading" [] Writing(c) -> "writing"
                     [] InQueue(c) -> "queued" [] InWorker(c) -> "handling"
                     [] IsNew(c) -> "new" [] OTHER -> "gone"
    BY Zenon DEF Phase, Reading, Writing, InQueue, InWorker, IsNew
  <1>2. Reading(c) => Phase(c) = "reading"
    BY <1>1, PlacesExclude, Zenon
  <1>3. Writing(c) => Phase(c) = "writing"
    BY <1>1, PlacesExclude, Zenon
  <1>4. InQueue(c) => Phase(c) = "queued"
    BY <1>1, PlacesExclude, Zenon
  <1>5. InWorker(c) => Phase(c) = "handling"
    BY <1>1, PlacesExclude, Zenon
  <1>6. IsNew(c) => Phase(c) = "new"
    BY <1>1, PlacesExclude, Zenon
  <1>7. ~Reading(c) /\ ~Writing(c) /\ ~InQueue(c) /\ ~InWorker(c) /\ ~IsNew(c)
           => Phase(c) = "gone"
    BY <1>1, Zenon
  <1> QED  BY <1>2, <1>3, <1>4, <1>5, <1>6, <1>7 DEF PhaseIs

LEMMA PhaseNext == OwnerInv' => PhasesAre'
  BY PhaseValue, PTL

---------------------------------------------------------------------------
\* Steps that leave a connection in its phase

SamePlace(d) ==
    \A u \in ThreadIds, s \in UsingSteps :
        pc'[u] = s /\ cur'[u] = d <=> pc[u] = s /\ cur[u] = d

LEMMA MovesElsewhere ==
    ASSUME TypeOK, NEW d \in Conns, NEW t \in ThreadIds, NEW at, NEW x, Go(t, at, x),
           pc[t] \notin UsingSteps \/ cur[t] # d, at \notin UsingSteps \/ x # d
    PROVE  SamePlace(d)
  <1>1. /\ pc'[t] = at /\ cur'[t] = x
        /\ \A u \in ThreadIds : u # t => pc'[u] = pc[u] /\ cur'[u] = cur[u]
    BY DEF TypeOK, Go
  <1> QED  BY <1>1 DEF SamePlace

LEMMA StaysPut ==
    ASSUME UNCHANGED thread, NEW d \in Conns
    PROVE  SamePlace(d)
  BY DEF thread, SamePlace

LEMMA PhaseKept ==
    ASSUME OwnerInv, OwnerInv', NEW d \in Conns, SamePlace(d),
           op'[d] = op[d], res'[d] = "aborted" <=> res[d] = "aborted",
           Queued(d)' <=> Queued(d), sock'[d] = "none" <=> sock[d] = "none"
    PROVE  Phase(d)' = Phase(d)
  <1>1. (Reading(d)' <=> Reading(d)) /\ (Writing(d)' <=> Writing(d))
    BY DEF Reading, Writing
  <1>2. \A u \in ThreadIds : Holds(u, d)' <=> Holds(u, d)
    BY DEF SamePlace, Holds
  <1>3. \A u \in ThreadIds : Holds(u, d) => (pc'[u] = "push" <=> pc[u] = "push")
    BY DEF SamePlace, Holds, UsingSteps
  <1>4. Loops \subseteq ThreadIds /\ Workers \subseteq ThreadIds
    BY DEF ThreadIds
  <1>5. /\ InQueue(d)' <=> InQueue(d)
        /\ InWorker(d)' <=> InWorker(d)
        /\ IsNew(d)' <=> IsNew(d)
    BY <1>2, <1>3, <1>4 DEF InQueue, InWorker, IsNew
  <1>6. PhaseIs(d) /\ PhaseIs(d)'
    BY PhaseValue, PhaseNext DEF PhasesAre
  <1> QED  BY <1>1, <1>5, <1>6 DEF PhaseIs

---------------------------------------------------------------------------
\* Steps of the protocol

Moves(a, b) ==
    \/ a = b
    \/ a = "new" /\ b = "reading"
    \/ a = "reading" /\ b \in {"queued", "writing"}
    \/ a = "queued" /\ b = "handling"
    \/ a = "handling" /\ b = "writing"
    \/ a = "writing" /\ b = "reading"
    \/ a # "handling" /\ b = "gone"

LEMMA OneMoves ==
    ASSUME NEW c \in Conns, \A d \in Conns : d # c => Phase(d)' = Phase(d),
           Moves(Phase(c), Phase(c)')
    PROVE  [Protocol!Next]_phases
  <1>1. phases' = [phases EXCEPT ![c] = Phase(c)'] /\ phases[c] = Phase(c)
    BY DEF phases
  <1>2. CASE Phase(c)' = Phase(c)
    BY <1>1, <1>2 DEF phases
  <1>3. CASE Phase(c) # "handling" /\ Phase(c)' = "gone"
    <2>1. Protocol!Drop({c})
      BY <1>1, <1>3 DEF phases, Protocol!Drop
    <2> QED  BY <2>1 DEF Protocol!Next
  <1>4. CASE Phase(c) = "new" /\ Phase(c)' = "reading"
    BY <1>1, <1>4 DEF phases, Protocol!Accept, Protocol!Move, Protocol!Next
  <1>5. CASE Phase(c) = "reading" /\ Phase(c)' = "queued"
    BY <1>1, <1>5 DEF phases, Protocol!Receive, Protocol!Move, Protocol!Next
  <1>6. CASE Phase(c) = "reading" /\ Phase(c)' = "writing"
    BY <1>1, <1>6 DEF phases, Protocol!Refuse, Protocol!Move, Protocol!Next
  <1>7. CASE Phase(c) = "queued" /\ Phase(c)' = "handling"
    BY <1>1, <1>7 DEF phases, Protocol!Take, Protocol!Move, Protocol!Next
  <1>8. CASE Phase(c) = "handling" /\ Phase(c)' = "writing"
    BY <1>1, <1>8 DEF phases, Protocol!Answer, Protocol!Move, Protocol!Next
  <1>9. CASE Phase(c) = "writing" /\ Phase(c)' = "reading"
    BY <1>1, <1>9 DEF phases, Protocol!Again, Protocol!Move, Protocol!Next
  <1> QED  BY <1>2, <1>3, <1>4, <1>5, <1>6, <1>7, <1>8, <1>9 DEF Moves

LEMMA SomeDropped ==
    ASSUME \A d \in Conns : \/ Phase(d)' = Phase(d)
                            \/ Phase(d) # "handling" /\ Phase(d)' = "gone"
    PROVE  [Protocol!Next]_phases
  <1> DEFINE S == {d \in Conns : Phase(d)' # Phase(d)}
  <1>1. CASE S = {}
    BY <1>1 DEF phases
  <1>2. CASE S # {}
    <2>1. Protocol!Drop(S)
      BY <1>2 DEF phases, Protocol!Drop
    <2> QED  BY <2>1 DEF Protocol!Next
  <1> QED  BY <1>1, <1>2

LEMMA NoneMoves ==
    ASSUME \A d \in Conns : Phase(d)' = Phase(d)
    PROVE  [Protocol!Next]_phases
  BY SomeDropped

---------------------------------------------------------------------------
\* Where a connection can be when its phase ends

NoPlace(c) == ~InQueue(c) /\ ~InWorker(c) /\ ~IsNew(c)
OpAlone    == \A c \in Conns : op[c] # "none" => NoPlace(c)

LEMMA OpIsAlone == OwnerInv => OpAlone
  BY PlacesExclude DEF OpAlone, NoPlace

LEMMA OpStaysAlone == OwnerInv' => OpAlone'
  BY OpIsAlone, PTL

LEMMA PlacesKept ==
    ASSUME NEW d \in Conns, SamePlace(d),
           Queued(d)' <=> Queued(d), sock'[d] = "none" <=> sock[d] = "none"
    PROVE  NoPlace(d)' <=> NoPlace(d)
  <1>1. \A u \in ThreadIds : Holds(u, d)' <=> Holds(u, d)
    BY DEF SamePlace, Holds
  <1>2. \A u \in ThreadIds : Holds(u, d) => (pc'[u] = "push" <=> pc[u] = "push")
    BY DEF SamePlace, Holds, UsingSteps
  <1>3. Loops \subseteq ThreadIds /\ Workers \subseteq ThreadIds
    BY DEF ThreadIds
  <1> QED  BY <1>1, <1>2, <1>3 DEF NoPlace, InQueue, InWorker, IsNew

\* An operation is a read or a write; when it is over, or aborted, and nothing
\* else was made of the connection, the connection is gone.
LEMMA OpPhase ==
    ASSUME OwnerInv, NEW c \in Conns, op[c] # "none"
    PROVE  /\ Reading(c) => Phase(c) = "reading"
           /\ Writing(c) => Phase(c) = "writing"
           /\ res[c] = "aborted" => Phase(c) = "gone"
           /\ res[c] # "aborted" => Reading(c) \/ Writing(c)
           /\ Phase(c) # "handling" /\ NoPlace(c)
  <1>1. PhaseIs(c) /\ NoPlace(c) /\ op[c] \in {"read"} \cup Writes
    BY PhaseValue, OpIsAlone DEF PhasesAre, OpAlone, OwnerInv, TypeOK
  <1>2. res[c] # "aborted" => Reading(c) \/ Writing(c)
    BY <1>1 DEF Reading, Writing
  <1>3. res[c] = "aborted" => ~Reading(c) /\ ~Writing(c)
    BY DEF Reading, Writing
  <1> QED  BY <1>1, <1>2, <1>3 DEF PhaseIs, NoPlace

LEMMA GoneNext ==
    ASSUME OwnerInv', NEW c \in Conns, NoPlace(c)', op'[c] = "none" \/ res'[c] = "aborted"
    PROVE  Phase(c)' = "gone"
  <1>1. PhaseIs(c)'
    BY PhaseNext DEF PhasesAre
  <1>2. ~Reading(c)' /\ ~Writing(c)'
    BY DEF Reading, Writing, Writes
  <1> QED  BY <1>1, <1>2 DEF PhaseIs, NoPlace

LEMMA BegunNext ==
    ASSUME OwnerInv, OwnerInv', NEW c \in Conns, NEW kind \in {"read"} \cup Writes, Begin(c, kind)
    PROVE  Phase(c)' = IF kind = "read" THEN "reading" ELSE "writing"
  <1>1. PhaseIs(c)'
    BY PhaseNext DEF PhasesAre
  <1>2. op'[c] = kind /\ res'[c] # "aborted"
    BY DEF Begin, OwnerInv, TypeOK
  <1>3. (kind = "read" => Reading(c)') /\ (kind # "read" => Writing(c)')
    BY <1>2 DEF Reading, Writing
  <1> QED  BY <1>1, <1>3 DEF PhaseIs

---------------------------------------------------------------------------
\* The event loop

LEMMA HandlerProtocol ==
    ASSUME OwnerInv, OwnerInv', PoolInv, NEW l \in Loops, HandlerStep(l)
    PROVE  [Protocol!Next]_phases
  <1>l. l \in ThreadIds /\ TypeOK /\ NULL \notin Conns
    BY NullIsNothing DEF OwnerInv, ThreadIds
  <1>1. PICK c \in Conns : cur[l] = c
    <2>1. pc[l] \in UsingSteps \cup ClosingSteps
      BY DEF HandlerStep, PoolInsert, ConnectionStart, QueuePush, PoolErase, ConnectionClose,
             UsingSteps, ClosingSteps
    <2> QED  BY <2>1, <1>l DEF TypeOK
  <1>2. InOnePlace(c) /\ Fresh(c) /\ QueuedOnce
    BY DEF OwnerInv, OneOwner, FreshSockets
  <1>3. sock[c] # "none"
    BY <1>1, <1>2, <1>l DEF Fresh
  <1>4. \E at, x : Go(l, at, x) /\ (at \notin UsingSteps \/ x = c)
    BY <1>1 DEF HandlerStep, PoolInsert, ConnectionStart, QueuePush, PoolErase, ConnectionClose,
                UsingSteps
  <1>5. ASSUME NEW d \in Conns, d # c PROVE Phase(d)' = Phase(d)
    <2>1. SamePlace(d)
      BY <1>1, <1>4, <1>5, <1>l, MovesElsewhere
    <2>2. op'[d] = op[d] /\ res'[d] = res[d]
      <3>1. CASE ConnectionStart(l)
        BY <3>1, <1>1, <1>5, <1>l, Begun DEF ConnectionStart
      <3>2. CASE ConnectionClose(l)
        BY <3>2, <1>1, <1>5, <1>l DEF ConnectionClose, CloseSockets, TypeOK
      <3>3. CASE PoolInsert(l) \/ QueuePush(l) \/ PoolErase(l)
        BY <3>3 DEF PoolInsert, QueuePush, PoolErase, conns, async
      <3> QED  BY <3>1, <3>2, <3>3 DEF HandlerStep
    <2>3. sock'[d] = sock[d]
      <3>1. CASE ConnectionClose(l)
        BY <3>1, <1>1, <1>5, <1>l DEF ConnectionClose, CloseSockets
      <3>2. CASE ~ConnectionClose(l)
        BY <3>2 DEF HandlerStep, PoolInsert, ConnectionStart, QueuePush, PoolErase, conns
      <3> QED  BY <3>1, <3>2
    <2>4. Queued(d)' <=> Queued(d)
      <3>1. CASE QueuePush(l)
        <4>1. queue' = Append(queue, c) /\ Holds(l, c)
          BY <3>1, <1>1 DEF QueuePush, Holds, UsingSteps
        <4>2. ~Queued(c)
          BY <4>1, <1>2, <1>l DEF InOnePlace
        <4> QED  BY <4>1, <4>2, <1>2, <1>5, <1>l, PushQueue
      <3>2. CASE ~QueuePush(l)
        <4>1. queue' = queue
          BY <3>2 DEF HandlerStep, PoolInsert, ConnectionStart, PoolErase, ConnectionClose, work
        <4> QED  BY <4>1 DEF Queued
      <3> QED  BY <3>1, <3>2
    <2> QED  BY <2>1, <2>2, <2>3, <2>4, PhaseKept
  <1>p. PhaseIs(c) /\ PhaseIs(c)'
    BY PhaseValue, PhaseNext DEF PhasesAre
  <1>6. CASE PoolInsert(l)
    <2>1. Holds(l, c) /\ pc[l] # "push" /\ Holds(l, c)' /\ pc'[l] # "push"
      BY <1>6, <1>1, <1>l DEF PoolInsert, Go, Holds, UsingSteps, TypeOK
    <2>2. Phase(c) = "new" /\ Phase(c)' = "new"
      BY <2>1, <1>p DEF IsNew, PhaseIs
    <2> QED  BY <2>2, <1>5, OneMoves DEF Moves
  <1>7. CASE ConnectionStart(l)
    <2>1. Holds(l, c) /\ pc[l] # "push"
      BY <1>7, <1>1 DEF ConnectionStart, Holds, UsingSteps
    <2>2. Phase(c) = "new"
      BY <2>1, <1>p DEF IsNew, PhaseIs
    <2>3. Phase(c)' = "reading"
      BY <1>7, <1>1, BegunNext DEF ConnectionStart
    <2> QED  BY <2>2, <2>3, <1>5, OneMoves DEF Moves
  <1>8. CASE QueuePush(l)
    <2>1. Holds(l, c) /\ pc[l] = "push" /\ queue' = Append(queue, c)
      BY <1>8, <1>1 DEF QueuePush, Holds, UsingSteps
    <2>2. ~Queued(c)
      BY <2>1, <1>2, <1>l DEF InOnePlace
    <2>3. Queued(c)'
      BY <2>1, <2>2, <1>2, <1>l, PushQueue
    <2>4. Phase(c) = "queued" /\ Phase(c)' = "queued"
      BY <2>1, <2>3, <1>p DEF InQueue, PhaseIs
    <2> QED  BY <2>4, <1>5, OneMoves DEF Moves
  <1>9. CASE PoolErase(l) \/ ConnectionClose(l)
    <2>1. SamePlace(c)
      <3>1. \E at, x : Go(l, at, x) /\ at \notin UsingSteps /\ pc[l] \notin UsingSteps
        BY <1>9 DEF PoolErase, ConnectionClose, UsingSteps
      <3> QED  BY <3>1, <1>l, MovesElsewhere
    <2>2. op' = op /\ (Queued(c)' <=> Queued(c))
      BY <1>9 DEF PoolErase, ConnectionClose, CloseSockets, work, async, Queued
    <2>3. sock'[c] # "none"
      BY <1>9, <1>3 DEF PoolErase, ConnectionClose, CloseSockets
    <2>4. CASE res'[c] = res[c]
      <3>1. Phase(c)' = Phase(c)
        BY <2>1, <2>2, <2>3, <2>4, <1>3, PhaseKept
      <3> QED  BY <3>1, <1>5, OneMoves DEF Moves
    <2>5. CASE res'[c] # res[c]
      <3>1. res[c] = "pending" /\ res'[c] = "aborted"
        BY <1>9, <1>l, <2>5 DEF PoolErase, ConnectionClose, CloseSockets, async
      <3>2. op[c] # "none"
        BY <3>1 DEF PoolInv, LeftPool
      <3>3. Phase(c) # "handling" /\ NoPlace(c)
        BY <3>2, OpPhase
      <3>4. Phase(c)' = "gone"
        BY <3>1, <3>3, <2>1, <2>2, <2>3, <1>3, PlacesKept, GoneNext
      <3> QED  BY <3>3, <3>4, <1>5, OneMoves DEF Moves
    <2> QED  BY <2>4, <2>5
  <1> QED  BY <1>6, <1>7, <1>8, <1>9 DEF HandlerStep

LEMMA ConnProtocol ==
    ASSUME OwnerInv, OwnerInv', NEW l \in Loops, NEW c \in Conns, ConnHandler(l, c)
    PROVE  [Protocol!Next]_phases
  <1>l. l \in ThreadIds /\ TypeOK /\ Fresh(c)
    BY DEF OwnerInv, FreshSockets, ThreadIds
  <1>0. pc[l] = "poll" /\ UNCHANGED queue
    BY DEF ConnHandler, AcceptDropped, OnAccept, OnAborted, OnError, OnReadMore, DoWriteBody,
           OnWriteOK, OnReadBad, OnReadFinished, Ready, Polling, work
  <1>s. \A d \in Conns : d # c => sock'[d] = sock[d]
    <2>1. CASE AcceptDropped(l, c) \/ OnAccept(l, c)
      BY <2>1, <1>l DEF AcceptDropped, OnAccept, TypeOK
    <2>2. CASE ~AcceptDropped(l, c) /\ ~OnAccept(l, c)
      <3>1. sock' = sock
        BY <2>2 DEF ConnHandler, OnAborted, OnError, OnReadMore, DoWriteBody, OnWriteOK, OnReadBad,
                    OnReadFinished
      <3> QED  BY <3>1
    <2> QED  BY <2>1, <2>2
  <1>1. pc[l] = "poll" /\ UNCHANGED queue /\ \A d \in Conns : d # c => sock'[d] = sock[d]
    BY <1>0, <1>s
  <1>2. UNCHANGED <<op, res>> \/ Done(c) \/ \E kind \in {"read"} \cup Writes : Begin(c, kind)
    BY DEF ConnHandler, AcceptDropped, OnAccept, OnAborted, OnError, OnReadMore, DoWriteBody,
           OnWriteOK, OnReadBad, OnReadFinished, SendResponse, Writes, async
  <1>3. UNCHANGED thread \/ \E at : Go(l, at, c)
    BY DEF ConnHandler, AcceptDropped, OnAccept, OnAborted, OnError, OnReadMore, DoWriteBody,
           OnWriteOK, OnReadBad, OnReadFinished
  <1>4. pc[l] \notin UsingSteps
    BY <1>1 DEF UsingSteps
  <1>5. ASSUME NEW d \in Conns, d # c PROVE Phase(d)' = Phase(d)
    <2>1. SamePlace(d)
      BY <1>3, <1>4, <1>5, <1>l, StaysPut, MovesElsewhere
    <2>2. op'[d] = op[d] /\ res'[d] = res[d]
      BY <1>2, <1>5, <1>l, Begun, Finished
    <2> QED  BY <2>1, <2>2, <1>1, <1>5, PhaseKept DEF Queued
  <1>p. PhaseIs(c) /\ PhaseIs(c)'
    BY PhaseValue, PhaseNext DEF PhasesAre
  <1>6. CASE AcceptDropped(l, c)
    <2>1. sock[c] = "none" /\ op[c] = "none" /\ ~Queued(c) /\ \A t \in ThreadIds : ~Holds(t, c)
      BY <1>6, <1>l DEF AcceptDropped, Fresh, Holds
    <2>2. Phase(c) = "new"
      BY <2>1, <1>p DEF IsNew, PhaseIs
    <2>3. sock'[c] = "closed" /\ op'[c] = "none" /\ ~Queued(c)' /\ \A t \in ThreadIds : ~Holds(t, c)'
      BY <1>6, <1>l, <2>1 DEF AcceptDropped, async, work, Queued, thread, Holds, TypeOK
    <2>4. NoPlace(c)'
      BY <2>3 DEF NoPlace, InQueue, InWorker, IsNew, ThreadIds
    <2>5. Phase(c)' = "gone"
      BY <2>3, <2>4, GoneNext
    <2> QED  BY <2>2, <2>5, <1>5, OneMoves DEF Moves
  <1>7. CASE OnAccept(l, c)
    <2>1. sock[c] = "none"
      BY <1>7, <1>l DEF OnAccept, Fresh
    <2>2. Holds(l, c)' /\ pc'[l] # "push"
      BY <1>7, <1>l DEF OnAccept, Go, Holds, UsingSteps, TypeOK
    <2>3. Phase(c) = "new" /\ Phase(c)' = "new"
      BY <2>1, <2>2, <1>p DEF IsNew, PhaseIs
    <2> QED  BY <2>3, <1>5, OneMoves DEF Moves
  <1>r. CASE ~AcceptDropped(l, c) /\ ~OnAccept(l, c)
    <2>1. op[c] # "none" /\ sock' = sock /\ (Queued(c)' <=> Queued(c))
      BY <1>r DEF ConnHandler, OnAborted, OnError, OnReadMore, DoWriteBody, OnWriteOK, OnReadBad,
                  OnReadFinished, Ready, Writes, work, Queued
    <2>2. Phase(c) # "handling" /\ NoPlace(c)
      BY <2>1, OpPhase
    <2>3. ASSUME Done(c), \E at : at \notin UsingSteps /\ (UNCHANGED thread \/ Go(l, at, c))
          PROVE  Phase(c)' = "gone"
      <3>1. SamePlace(c)
        BY <2>3, <1>4, <1>l, StaysPut, MovesElsewhere
      <3>2. op'[c] = "none"
        BY <2>3, <1>l, Finished
      <3> QED  BY <3>1, <3>2, <2>1, <2>2, PlacesKept, GoneNext
    <2>4. CASE OnAborted(l, c) \/ OnError(l, c)
      <3>1. Phase(c)' = "gone"
        BY <2>3, <2>4 DEF OnAborted, OnError, UsingSteps
      <3> QED  BY <3>1, <2>2, <1>5, OneMoves DEF Moves
    <2>5. ASSUME NEW k \in BOOLEAN, OnReadBad(l, c, k) PROVE [Protocol!Next]_phases
      <3>1. Reading(c) /\ Begin(c, "headers") /\ "headers" \in Writes
        BY <2>5 DEF OnReadBad, SendResponse, Ready, Reading, Writes
      <3>2. Phase(c) = "reading" /\ Phase(c)' = "writing"
        BY <3>1, <2>1, OpPhase, BegunNext
      <3> QED  BY <3>2, <1>5, OneMoves DEF Moves
    <2>6. CASE OnReadMore(l, c)
      <3>1. Reading(c) /\ Begin(c, "read")
        BY <2>6 DEF OnReadMore, Ready, Reading
      <3>2. Phase(c) = "reading" /\ Phase(c)' = "reading"
        BY <3>1, <2>1, OpPhase, BegunNext
      <3> QED  BY <3>2, <1>5, OneMoves DEF Moves
    <2>7. ASSUME NEW k \in BOOLEAN, OnReadFinished(l, c, k) PROVE [Protocol!Next]_phases
      <3>1. Reading(c) /\ Go(l, "push", c)
        BY <2>7 DEF OnReadFinished, Ready, Reading
      <3>2. Holds(l, c)' /\ pc'[l] = "push"
        BY <3>1, <1>l DEF Go, Holds, UsingSteps, TypeOK
      <3>3. Phase(c) = "reading" /\ Phase(c)' = "queued"
        BY <3>1, <3>2, <2>1, <1>p, OpPhase DEF InQueue, PhaseIs
      <3> QED  BY <3>3, <1>5, OneMoves DEF Moves
    <2>8. CASE DoWriteBody(l, c)
      <3>1. Writing(c) /\ Begin(c, "body") /\ "body" \in Writes
        BY <2>8 DEF DoWriteBody, Ready, Writing, Writes
      <3>2. Phase(c) = "writing" /\ Phase(c)' = "writing"
        BY <3>1, <2>1, OpPhase, BegunNext
      <3> QED  BY <3>2, <1>5, OneMoves DEF Moves
    <2>9. CASE OnWriteOK(l, c)
      <3>1. Writing(c) /\ Phase(c) = "writing"
        BY <2>9, <2>1, OpPhase DEF OnWriteOK, Ready, Writing
      <3>2. CASE Begin(c, "read")
        BY <3>1, <3>2, <1>5, OneMoves, BegunNext DEF Moves
      <3>3. CASE Done(c) /\ Go(l, "erase", c)
        <4>1. Phase(c)' = "gone"
          BY <3>3, <2>3 DEF UsingSteps
        <4> QED  BY <3>1, <4>1, <1>5, OneMoves DEF Moves
      <3> QED  BY <2>9, <3>2, <3>3 DEF OnWriteOK
    <2> QED  BY <1>r, <2>4, <2>5, <2>6, <2>7, <2>8, <2>9 DEF ConnHandler
  <1> QED  BY <1>6, <1>7, <1>r

---------------------------------------------------------------------------
\* The workers

LEMMA WorkerProtocol ==
    ASSUME OwnerInv, OwnerInv', NEW w \in Workers, WorkerStep(w)
    PROVE  [Protocol!Next]_phases
  <1>w. w \in ThreadIds /\ TypeOK /\ QueuedOnce /\ NULL \notin Conns
    BY NullIsNothing DEF OwnerInv, OneOwner, ThreadIds
  <1>1. CASE Pop(w)
    <2>1. UNCHANGED <<op, res, sock>> /\ pc[w] \notin UsingSteps /\ queue # <<>> /\ queue' = Tail(queue)
      BY <1>1 DEF Pop, conns, async, UsingSteps
    <2>2. \A d \in Conns : Queued(d)' <=> Queued(d) /\ d # Head(queue)
      BY <2>1, <1>w, PopQueue
    <2>3. ASSUME NEW d \in Conns, d # Head(queue) PROVE Phase(d)' = Phase(d)
      <3>1. \E at, x : Go(w, at, x) /\ x # d
        BY <1>1, <1>w, <2>3 DEF Pop
      <3>2. SamePlace(d)
        BY <3>1, <2>1, <1>w, MovesElsewhere
      <3> QED  BY <3>2, <2>1, <2>2, <2>3, PhaseKept
    <2>4. CASE Head(queue) = NULL
      BY <2>3, <2>4, <1>w, NoneMoves
    <2>5. CASE Head(queue) # NULL
      <3>1. PICK c \in Conns : c = Head(queue)
        BY <2>1, <2>5, <1>w, PopQueue
      <3>2. Queued(c) /\ Go(w, "handle", c)
        BY <1>1, <2>1, <2>5, <3>1, <1>w, PopQueue DEF Pop
      <3>3. Holds(w, c)'
        BY <3>2, <1>w DEF Go, Holds, UsingSteps, TypeOK
      <3>4. PhaseIs(c) /\ PhaseIs(c)'
        BY PhaseValue, PhaseNext DEF PhasesAre
      <3>5. Phase(c) = "queued" /\ Phase(c)' = "handling"
        BY <3>2, <3>3, <3>4 DEF InQueue, InWorker, PhaseIs
      <3> QED  BY <3>1, <3>5, <2>3, OneMoves DEF Moves
    <2> QED  BY <2>4, <2>5
  <1>2. CASE PassNull(w)
    <2>1. UNCHANGED <<op, res, sock>> /\ pc[w] \notin UsingSteps /\ Go(w, "out", NULL)
      BY <1>2 DEF PassNull, conns, async, UsingSteps
    <2>2. \A d \in Conns : Queued(d)' <=> Queued(d)
      BY <1>2, <1>w, PushQueue DEF PassNull
    <2>3. \A d \in Conns : SamePlace(d)
      BY <2>1, <1>w, MovesElsewhere
    <2> QED  BY <2>1, <2>2, <2>3, PhaseKept, NoneMoves
  <1>3. ASSUME NEW n \in 0..MaxPayloads, Handle(w, n) PROVE [Protocol!Next]_phases
    <2>1. pc[w] = "handle" /\ UNCHANGED <<sock, queue>> /\ Go(w, "wait", NULL)
      BY <1>3 DEF Handle, work
    <2>2. PICK c \in Conns : c = cur[w]
      BY <2>1, <1>w DEF TypeOK, UsingSteps
    <2>3. Begin(c, "headers") /\ "headers" \in {"read"} \cup Writes
      BY <1>3, <2>2 DEF Handle, SendResponse, Writes
    <2>4. ASSUME NEW d \in Conns, d # c PROVE Phase(d)' = Phase(d)
      <3>1. SamePlace(d)
        BY <2>1, <2>2, <2>4, <1>w, MovesElsewhere
      <3>2. op'[d] = op[d] /\ res'[d] = res[d]
        BY <2>3, <2>4, <1>w, Begun
      <3> QED  BY <3>1, <3>2, <2>1, PhaseKept DEF Queued
    <2>5. Holds(w, c)
      BY <2>1, <2>2 DEF Holds, UsingSteps
    <2>6. Phase(c) = "handling"
      BY <2>5, PhaseValue DEF PhasesAre, PhaseIs, InWorker
    <2>7. Phase(c)' = "writing"
      BY <2>3, BegunNext
    <2> QED  BY <2>4, <2>6, <2>7, OneMoves DEF Moves
  <1> QED  BY <1>1, <1>2, <1>3 DEF WorkerStep

---------------------------------------------------------------------------
\* DoStop() and Run()

LEMMA StopProtocol ==
    ASSUME OwnerInv, OwnerInv', PoolInv, NEW t \in Apps \cup Loops, StopStep(t)
    PROVE  [Protocol!Next]_phases
  <1>t. t \in ThreadIds /\ TypeOK /\ NULL \notin Conns
    BY NullIsNothing DEF OwnerInv, ThreadIds
  <1>1. pc[t] \notin UsingSteps /\ \E at : Go(t, at, NULL)
    BY DEF StopStep, CloseAcceptor, ClearQueue, PushNull, JoinWorkers, JoinThread, JoinTwice,
       ThreadJoined, ClearThreads, DrainQueue, ClearPool, FinishStop, UsingSteps
  <1>2. \A d \in Conns : SamePlace(d)
    BY <1>1, <1>t, MovesElsewhere
  <1>3. CASE CloseAcceptor(t) \/ PushNull(t) \/ JoinWorkers(t) \/ FinishStop(t)
    <2>1. UNCHANGED <<op, res, sock>>
      BY <1>3 DEF CloseAcceptor, PushNull, JoinWorkers, JoinThread, JoinTwice, ThreadJoined,
         ClearThreads, FinishStop, conns, async
    <2>2. queue' = queue \/ queue' = Append(queue, NULL)
      BY <1>3 DEF CloseAcceptor, PushNull, JoinWorkers, JoinThread, JoinTwice, ThreadJoined,
         ClearThreads, FinishStop, work
    <2>3. QueuedOnce
      BY DEF OwnerInv, OneOwner
    <2>4. \A d \in Conns : Queued(d)' <=> Queued(d)
      BY <2>2, <2>3, <1>t, PushQueue, SameQueue
    <2> QED  BY <1>2, <2>1, <2>4, PhaseKept, NoneMoves
  <1>4. CASE ClearQueue(t) \/ DrainQueue(t)
    <2>1. UNCHANGED <<op, res, sock>> /\ queue' = <<>>
      BY <1>4 DEF ClearQueue, DrainQueue, conns, async
    <2>2. \A d \in Conns : ~Queued(d)'
      BY <2>1 DEF Queued
    <2>3. ASSUME NEW d \in Conns, ~Queued(d) PROVE Phase(d)' = Phase(d)
      BY <1>2, <2>1, <2>2, <2>3, PhaseKept
    <2>4. ASSUME NEW d \in Conns, Queued(d) PROVE Phase(d) # "handling" /\ Phase(d)' = "gone"
      <3>1. InOnePlace(d) /\ Fresh(d)
        BY DEF OwnerInv, OneOwner, FreshSockets
      <3>2. op[d] = "none" /\ sock[d] # "none" /\ \A u \in ThreadIds : ~Holds(u, d)
        BY <2>4, <3>1 DEF InOnePlace, Fresh
      <3>3. \A u \in ThreadIds : ~Holds(u, d)'
        BY <1>2, <3>2 DEF SamePlace, Holds
      <3>4. NoPlace(d)'
        BY <2>1, <2>2, <3>2, <3>3 DEF NoPlace, InQueue, InWorker, IsNew, ThreadIds
      <3>5. Phase(d)' = "gone"
        BY <2>1, <3>2, <3>4, GoneNext
      <3>6. Phase(d) = "queued"
        BY <2>4, PhaseValue DEF PhasesAre, PhaseIs, InQueue
      <3> QED  BY <3>5, <3>6
    <2> QED  BY <2>3, <2>4, SomeDropped
  <1>5. CASE ClearPool(t)
    <2>1. op' = op /\ \A d \in Conns : Queued(d)' <=> Queued(d)
      BY <1>5 DEF ClearPool, CloseSockets, work, Queued
    <2>2. \A d \in Conns : sock'[d] = "none" <=> sock[d] = "none"
      BY <1>5 DEF ClearPool, CloseSockets, OwnerInv, FreshSockets, Fresh
    <2>3. ASSUME NEW d \in Conns, res'[d] = res[d] PROVE Phase(d)' = Phase(d)
      BY <1>2, <2>1, <2>2, <2>3, PhaseKept
    <2>4. ASSUME NEW d \in Conns, res'[d] # res[d] PROVE Phase(d) # "handling" /\ Phase(d)' = "gone"
      <3>1. res[d] = "pending" /\ res'[d] = "aborted"
        BY <1>5, <2>4, <1>t DEF ClearPool, CloseSockets, TypeOK
      <3>2. op[d] # "none"
        BY <3>1 DEF PoolInv, LeftPool
      <3>3. Phase(d) # "handling" /\ NoPlace(d)
        BY <3>2, OpPhase
      <3>4. NoPlace(d)'
        BY <3>3, <1>2, <2>1, <2>2, PlacesKept
      <3> QED  BY <3>1, <3>3, <3>4, GoneNext
    <2> QED  BY <2>3, <2>4, SomeDropped
  <1> QED  BY <1>3, <1>4, <1>5 DEF StopStep

LEMMA RunProtocol ==
    ASSUME OwnerInv, OwnerInv', StopInv, NEW r \in Runners, Run(r)
    PROVE  [Protocol!Next]_phases
  <1>1. UNCHANGED <<op, res, sock, queue, cur>>
    BY DEF Run, conns, async
  <1>2. \A u \in Workers \cup Loops \cup {r} : pc[u] \notin UsingSteps
    <2>1. \A w \in Workers : pc[w] = "out"
      BY DEF Run, StopInv, NoneAfterJoin, AllOut
    <2>2. \A l \in Loops : pc[l] = "out"
      BY DEF Run, MayRun
    <2>3. pc[r] = "idle"
      BY DEF Run, MayRun
    <2> QED  BY <2>1, <2>2, <2>3 DEF UsingSteps
  <1>3. \A u \in Workers \cup Loops \cup {r} : pc'[u] \notin UsingSteps
    <2>1. \A u \in Workers \cup Loops \cup {r} : pc'[u] \in {"wait", "poll", "running"}
      BY ThreadsDisjoint DEF Run, ThreadIds
    <2> QED  BY <2>1 DEF UsingSteps
  <1>4. \A u \in ThreadIds : u \notin Workers \cup Loops \cup {r} => pc'[u] = pc[u]
    BY DEF Run
  <1>5. \A d \in Conns : SamePlace(d)
    BY <1>1, <1>2, <1>3, <1>4 DEF SamePlace
  <1> QED  BY <1>1, <1>5, PhaseKept, NoneMoves DEF Queued

---------------------------------------------------------------------------
\* All the steps

ServerInv == OwnerInv /\ StopInv /\ PoolInv

LEMMA ServerStep == ServerInv /\ [Next]_vars => ServerInv'
  <1>1. OwnerInv /\ [Next]_vars => OwnerInv'
    BY TypeStep, OwnerStep DEF OwnerInv
  <1>2. OwnerInv => TypeOK
    BY DEF OwnerInv
  <1> QED  BY <1>1, <1>2, StopInvStep, PoolStep DEF ServerInv

LEMMA ProtocolInit == Init => Protocol!Init
  <1> SUFFICES ASSUME Init, NEW c \in Conns PROVE Phase(c) = "new"
    BY DEF Protocol!Init
  <1>1. OwnerInv
    BY TypeInit, OwnerInit DEF OwnerInv
  <1>2. IsNew(c)
    BY DEF Init, IsNew
  <1> QED  BY <1>1, <1>2, PhaseValue DEF PhasesAre, PhaseIs

LEMMA ProtocolStep == ServerInv /\ [Next]_vars => [Protocol!Next]_phases
  <1> SUFFICES ASSUME ServerInv, [Next]_vars PROVE [Protocol!Next]_phases
    OBVIOUS
  <1>i. OwnerInv /\ OwnerInv' /\ StopInv /\ PoolInv /\ TypeOK
    BY ServerStep DEF ServerInv, OwnerInv
  <1> DEFINE Goal == [Protocol!Next]_phases
  <1>s. UNCHANGED <<op, res, sock, queue, thread>> => Goal
    BY <1>i, StaysPut, PhaseKept, NoneMoves DEF Queued
  <1>m. ASSUME NEW t \in ThreadIds, NEW at, Go(t, at, NULL),
               pc[t] \in {"running", "idle", "poll"}, UNCHANGED <<op, res, sock, queue>>
        PROVE  Goal
    <2>1. pc[t] \notin UsingSteps /\ NULL \notin Conns
      BY <1>m, NullIsNothing DEF UsingSteps
    <2>2. \A d \in Conns : SamePlace(d)
      BY <2>1, <1>m, <1>i, MovesElsewhere
    <2> QED  BY <2>2, <1>m, <1>i, PhaseKept, NoneMoves DEF Queued
  <1> HIDE DEF Goal
  <1>1. ASSUME NEW r \in Runners, RunRefused(r) PROVE Goal
    <2>1. UNCHANGED <<op, res, sock, queue, thread>>
      BY <1>1 DEF RunRefused, conns, async, work
    <2> QED  BY <2>1, <1>s
  <1>2. ASSUME NEW r \in Runners, RunNotListening(r) PROVE Goal
    <2>1. UNCHANGED <<op, res, sock, queue, thread>>
      BY <1>2 DEF RunNotListening, conns, async, work
    <2> QED  BY <2>1, <1>s
  <1>3. ASSUME NEW r \in Runners, Run(r) PROVE Goal
    BY <1>3, <1>i, RunProtocol DEF Goal
  <1>4. ASSUME NEW r \in Runners, RunReturns(r) PROVE Goal
    <2>1. UNCHANGED <<op, res, sock, queue>> /\ r \in ThreadIds
      BY <1>4 DEF RunReturns, conns, async, work, ThreadIds
    <2> QED  BY <1>4, <2>1, <1>m DEF RunReturns
  <1>5. ASSUME NEW a \in Apps, CallStop(a) PROVE Goal
    <2>1. UNCHANGED <<op, res, sock, queue>> /\ a \in ThreadIds
      BY <1>5 DEF CallStop, conns, async, work, ThreadIds
    <2> QED  BY <1>5, <2>1, <1>m DEF CallStop
  <1>6. ASSUME Signal PROVE Goal
    <2>1. UNCHANGED <<op, res, sock, queue, thread>>
      BY <1>6 DEF Signal, conns, async, work
    <2> QED  BY <2>1, <1>s
  <1>7. ASSUME NEW l \in Loops, LeaveLoop(l) \/ OnSignal(l) PROVE Goal
    <2>1. UNCHANGED <<op, res, sock, queue>> /\ l \in ThreadIds /\ pc[l] = "poll"
      BY <1>7 DEF LeaveLoop, OnSignal, Polling, conns, async, work, ThreadIds
    <2>2. Go(l, "out", NULL) \/ Go(l, "close", NULL)
      BY <1>7 DEF LeaveLoop, OnSignal
    <2> QED  BY <2>1, <2>2, <1>m
  <1>8. ASSUME NEW l \in Loops, OnAcceptAborted(l) PROVE Goal
    <2>1. UNCHANGED <<op, res, sock, queue, thread>>
      BY <1>8 DEF OnAcceptAborted, conns, async, work
    <2> QED  BY <2>1, <1>s
  <1>9. ASSUME NEW l \in Loops, HandlerStep(l) PROVE Goal
    BY <1>9, <1>i, HandlerProtocol DEF Goal
  <1>10. ASSUME NEW l \in Loops, NEW c \in Conns, ConnHandler(l, c) PROVE Goal
    BY <1>10, <1>i, ConnProtocol DEF Goal
  <1>11. ASSUME NEW t \in Apps \cup Loops, StopStep(t) PROVE Goal
    BY <1>11, <1>i, StopProtocol DEF Goal
  <1>12. ASSUME NEW w \in Workers, WorkerStep(w) PROVE Goal
    BY <1>12, <1>i, WorkerProtocol DEF Goal
  <1>13. ASSUME NEW c \in Conns, Client(c) PROVE Goal
    <2>1. CASE ClientConnects(c)
      <3>1. UNCHANGED <<op, res, sock, queue, thread>>
        BY <2>1 DEF ClientConnects, conns, async, work
      <3> QED  BY <3>1, <1>s
    <2>2. CASE ClientSends(c) \/ ClientReceives(c) \/ ClientCloses(c)
      <3>1. UNCHANGED <<op, sock, queue, thread>>
        BY <2>2 DEF ClientSends, ClientReceives, ClientCloses, Completes, work
      <3>2. res[c] = "pending" /\ (res' = [res EXCEPT ![c] = "ok"] \/ res' = [res EXCEPT ![c] = "err"])
        BY <2>2 DEF ClientSends, ClientReceives, ClientCloses, Completes
      <3>3. \A d \in Conns : res'[d] = "aborted" <=> res[d] = "aborted"
        BY <3>2, <1>i DEF TypeOK
      <3>4. \A d \in Conns : Phase(d)' = Phase(d)
        BY <3>1, <3>3, <1>i, StaysPut, PhaseKept DEF Queued
      <3> QED  BY <3>4, NoneMoves DEF Goal
    <2> QED  BY <1>13, <2>1, <2>2 DEF Client
  <1>14. ASSUME UNCHANGED vars PROVE Goal
    <2>1. UNCHANGED <<op, res, sock, queue, thread>>
      BY <1>14 DEF vars, conns, async, work
    <2> QED  BY <2>1, <1>s
  <1> QED  BY <1>1, <1>2, <1>3, <1>4, <1>5, <1>6, <1>7, <1>8, <1>9, <1>10, <1>11, <1>12, <1>13,
              <1>14 DEF Next, Goal

\* However many threads run the loop, the workers and Stop(): the requests of
\* a connection are read, handled and answered one at a time and in order, and
\* a connection that was dropped never comes back.
THEOREM ServerKeepsProtocol == Spec => ImplementsProtocol
  <1>1. Init => ServerInv
    BY TypeInit, OwnerInit, StopInit, PoolInit DEF ServerInv, OwnerInv
  <1>2. ServerInv /\ [Next]_vars => [Protocol!Next]_[c \in Conns |-> Phase(c)]
    BY ProtocolStep DEF phases
  <1> QED  BY <1>1, <1>2, ServerStep, ProtocolInit, PTL DEF Spec, ImplementsProtocol, Protocol!Spec

---------------------------------------------------------------------------
(***************************************************************************)
(* What the server promises when one thread runs the event loop, which is  *)
(* the default of Server::Run() and all that main() of the demo asks for:  *)
(* a connection that was told Close serves no more, a worker handles what  *)
(* the pool has, and a stop leaves no connection open.  Each theorem names *)
(* what it needs of the configuration; for any number of connections and   *)
(* workers.                                                                *)
(***************************************************************************)

\* Server::Run(workers, loops = 1)
OneLoop == \A k, l \in Loops : k = l

\* One call of Run()
RunsOnce == MaxRuns <= 1

\* Nobody but the signal handler stops the server.
SignalsOnly == Apps = {}

---------------------------------------------------------------------------
\* The inductive invariants

\* What is pending is pending on a socket that is not closed, and only an
\* operation on a closed one is aborted.
SocketInv(c) ==
    /\ op[c] = "none" => res[c] = "none"
    /\ sock[c] = "closed" => res[c] # "pending"
    /\ res[c] = "aborted" => sock[c] = "closed"

InNoHands(c) == ~Queued(c) /\ \A t \in ThreadIds : ~Holds(t, c)

\* No read of c can give another request.
NoRead(c) == op[c] = "read" => res[c] \in {"err", "aborted"}

\* A connection that was told Close writes its last answer, is being closed,
\* or has been; and serves no request meanwhile.
LastAnswer(c)  == op[c] \in Writes /\ ~keep[c]
BeingClosed(c) == Closing(c) /\ op[c] # "read"
Dead(c)        == sock[c] = "closed" /\ NoRead(c)

ToldClose(c) ==
    resp[c] = "Close" => InNoHands(c) /\ (LastAnswer(c) \/ BeingClosed(c) \/ Dead(c))

\* No worker is left, and none will be started.
WorkEnded == AllOut /\ runs >= MaxRuns

\* A connection outside the pool is on its way into it, or out of use: what
\* it still writes ends at its closed socket.
OutOfUse(c) ==
    /\ ~Queued(c) /\ \A t \in ThreadIds : Holds(t, c) => InsertedBy(t, c)
    /\ NoRead(c)
    /\ op[c] \in Writes => sock[c] = "closed" \/ \E l \in Loops : ShutBy(l, c)

InPool(c) ==
    /\ c \in pool \/ WorkEnded \/ OutOfUse(c)
    /\ Closing(c) => InNoHands(c) /\ op[c] # "read"

\* Before the first Run() nothing is accepted.
NotStarted == runs = 0 => pool = {} /\ \A l \in Loops : pc[l] = "out"

CloseInv  == \A c \in Conns : SocketInv(c) /\ ToldClose(c)
InPoolInv == NotStarted /\ \A c \in Conns : SocketInv(c) /\ InPool(c)

---------------------------------------------------------------------------
\* Steps that are not about a connection

Aside(d) ==
    /\ op'[d] = op[d] /\ resp'[d] = resp[d] /\ keep'[d] = keep[d]
    /\ res[d] # "pending" => res'[d] = res[d]
    /\ res'[d] = "pending" => res[d] = "pending" /\ sock'[d] = sock[d]
    /\ res'[d] = "aborted" => res[d] = "aborted" \/ sock'[d] = "closed"
    /\ sock[d] = "closed" => sock'[d] = "closed"
    /\ Queued(d)' => Queued(d)
    /\ \A t \in ThreadIds : Holds(t, d)' => Holds(t, d)
    /\ \A t \in ThreadIds : InsertedBy(t, d) => InsertedBy(t, d)'
    /\ \A l \in Loops : ShutBy(l, d) => ShutBy(l, d)'
    /\ Closing(d)' <=> Closing(d)

LEMMA AsideSocket ==
    ASSUME NEW d \in Conns, SocketInv(d), Aside(d)
    PROVE  SocketInv(d)'
  BY DEF SocketInv, Aside

LEMMA AsideClose ==
    ASSUME NEW d \in Conns, SocketInv(d), ToldClose(d), Aside(d)
    PROVE  ToldClose(d)'
  <1>1. InNoHands(d) => InNoHands(d)'
    BY DEF InNoHands, Aside
  <1>2. LastAnswer(d) => LastAnswer(d)'
    BY DEF LastAnswer, Aside
  <1>3. BeingClosed(d) => BeingClosed(d)'
    BY DEF BeingClosed, Aside
  <1>4. Dead(d) => Dead(d)'
    BY DEF Dead, NoRead, Aside
  <1> QED  BY <1>1, <1>2, <1>3, <1>4 DEF ToldClose, Aside

LEMMA AsidePool ==
    ASSUME NEW d \in Conns, InPool(d), Aside(d),
           d \in pool => d \in pool' \/ WorkEnded', WorkEnded => WorkEnded'
    PROVE  InPool(d)'
  <1>1. InNoHands(d) => InNoHands(d)'
    BY DEF InNoHands, Aside
  <1>2. OutOfUse(d) => OutOfUse(d)'
    BY DEF OutOfUse, NoRead, Aside
  <1> QED  BY <1>1, <1>2 DEF InPool, Aside

\* A thread moves that neither held the connection nor takes it.
SameData(d) ==
    /\ op'[d] = op[d] /\ res'[d] = res[d] /\ sock'[d] = sock[d]
    /\ resp'[d] = resp[d] /\ keep'[d] = keep[d]

LEMMA AsideMoves ==
    ASSUME TypeOK, NEW d \in Conns, NEW t \in ThreadIds, NEW at, NEW x, Go(t, at, x),
           pc[t] \notin Places \/ cur[t] # d, at \notin Places \/ x # d,
           SameData(d), Queued(d)' => Queued(d)
    PROVE  Aside(d)
  BY OtherMoves DEF Aside, SameData

LEMMA AsideStays ==
    ASSUME NEW d \in Conns, UNCHANGED thread, Queued(d)' => Queued(d), SameData(d)
    PROVE  Aside(d)
  BY DEF Aside, SameData, thread, Closing, Holds, InsertedBy, ShutBy

---------------------------------------------------------------------------
\* The handlers of a connection, for that connection.  With one loop thread
\* no other handler is half done when one begins.

LEMMA LoopIsFree ==
    ASSUME OneLoop, NEW l \in Loops, pc[l] = "poll", NEW d \in Conns
    PROVE  ~Closing(d) /\ \A k \in Loops : ~ShutBy(k, d)
  BY DEF OneLoop, Closing, ClosingSteps, ShutBy

\* What Begin and Done do to the operation of d
LEMMA BegunOn ==
    ASSUME TypeOK, NEW d \in Conns, NEW kind, Begin(d, kind)
    PROVE  /\ op'[d] = kind /\ res'[d] \in {"pending", "err"}
           /\ sock[d] = "closed" => res'[d] = "err"
  BY DEF TypeOK, Begin

LEMMA ReadyOp ==
    ASSUME OwnerInv, NEW d \in Conns, op[d] # "none"
    PROVE  InNoHands(d)
  BY DEF OwnerInv, OneOwner, InOnePlace, InNoHands

LEMMA ConnSocket ==
    ASSUME OwnerInv, NEW l \in Loops, NEW d \in Conns, ConnHandler(l, d), SocketInv(d)
    PROVE  SocketInv(d)'
  <1>l. TypeOK /\ Fresh(d)
    BY DEF OwnerInv, FreshSockets
  <1>1. CASE AcceptDropped(l, d) \/ OnAccept(l, d)
    <2>1. op[d] = "none" /\ sock'[d] \in {"open", "closed"} /\ UNCHANGED <<op, res>>
      BY <1>1, <1>l DEF AcceptDropped, OnAccept, Fresh, async, TypeOK
    <2> QED  BY <2>1 DEF SocketInv
  <1>2. CASE Done(d) /\ UNCHANGED sock
    BY <1>2, <1>l DEF Done, SocketInv, TypeOK
  <1>3. ASSUME NEW kind \in {"read"} \cup Writes, Begin(d, kind), UNCHANGED sock PROVE SocketInv(d)'
    BY <1>3, <1>l, BegunOn DEF SocketInv, TypeOK, Writes
  <1> QED  BY <1>1, <1>2, <1>3 DEF ConnHandler, OnAborted, OnError, OnReadMore, DoWriteBody,
              OnWriteOK, OnReadBad, OnReadFinished, SendResponse, Writes

LEMMA ConnClose ==
    ASSUME OneLoop, OwnerInv, NEW l \in Loops, NEW d \in Conns, ConnHandler(l, d),
           SocketInv(d), ToldClose(d)
    PROVE  ToldClose(d)'
  <1>l. /\ TypeOK /\ Fresh(d) /\ l \in ThreadIds
        /\ pc[l] = "poll" /\ ~Closing(d) /\ UNCHANGED queue
    <2>1. pc[l] = "poll" /\ UNCHANGED queue
      BY DEF ConnHandler, AcceptDropped, OnAccept, OnAborted, OnError, OnReadMore, DoWriteBody,
             OnWriteOK, OnReadBad, OnReadFinished, Ready, Polling, work
    <2> QED  BY <2>1, LoopIsFree DEF OwnerInv, FreshSockets, ThreadIds
  <1>a. CASE AcceptDropped(l, d) \/ OnAccept(l, d)
    <2>1. resp'[d] = resp[d]
      BY <1>a DEF AcceptDropped, OnAccept, exchange
    <2>2. sock[d] = "none" /\ op[d] = "none"
      BY <1>a, <1>l DEF AcceptDropped, OnAccept, Fresh
    <2>3. resp[d] # "Close"
      BY <2>2, <1>l DEF ToldClose, LastAnswer, BeingClosed, Dead, Writes
    <2> QED  BY <2>1, <2>3 DEF ToldClose
  <1>r. CASE ~(AcceptDropped(l, d) \/ OnAccept(l, d))
    <2>1. op[d] # "none" /\ UNCHANGED sock
      BY <1>r DEF ConnHandler, OnAborted, OnError, OnReadMore, DoWriteBody, OnWriteOK, OnReadBad,
                  OnReadFinished, Ready, Writes
    <2>2. InNoHands(d)
      BY <2>1, ReadyOp
    <2>3. ASSUME UNCHANGED thread PROVE InNoHands(d)'
      BY <2>2, <2>3, <1>l DEF InNoHands, Queued, Holds, thread
    <2>4. ASSUME Go(l, "erase", d) PROVE InNoHands(d)' /\ Closing(d)'
      <3>1. "erase" \notin UsingSteps /\ "erase" \in ClosingSteps
        BY DEF UsingSteps, ClosingSteps
      <3>2. \A t \in ThreadIds : ~Holds(t, d)'
        BY <2>2, <2>4, <3>1, <1>l, GoHolds DEF InNoHands
      <3>3. Closing(d)'
        BY <2>4, <3>1, <1>l, Moved DEF Closing
      <3> QED  BY <2>2, <3>2, <3>3, <1>l DEF InNoHands, Queued
    <2>5. CASE OnAborted(l, d)
      <3>1. sock[d] = "closed" /\ op'[d] = "none"
        BY <2>5, <1>l DEF OnAborted, Ready, Done, SocketInv, TypeOK
      <3>2. UNCHANGED thread
        BY <2>5 DEF OnAborted
      <3> QED  BY <2>1, <2>3, <3>1, <3>2 DEF ToldClose, Dead, NoRead
    <2>6. CASE OnError(l, d)
      <3>1. Go(l, "erase", d) /\ op'[d] = "none"
        BY <2>6, <1>l DEF OnError, Done, TypeOK
      <3> QED  BY <2>4, <3>1 DEF ToldClose, BeingClosed
    <2>7. ASSUME NEW k \in BOOLEAN, OnReadBad(l, d, k) PROVE ToldClose(d)'
      <3>1. Go(l, "erase", d) /\ op'[d] = "headers"
        BY <2>7, <1>l, BegunOn DEF OnReadBad, SendResponse
      <3> QED  BY <2>4, <3>1 DEF ToldClose, BeingClosed
    <2>8. CASE OnReadMore(l, d) \/ \E k \in BOOLEAN : OnReadFinished(l, d, k)
      <3>1. op[d] = "read" /\ res[d] = "ok" /\ resp'[d] = resp[d]
        BY <2>8 DEF OnReadMore, OnReadFinished, Ready, exchange
      <3>2. resp[d] # "Close"
        BY <3>1 DEF ToldClose, LastAnswer, BeingClosed, Dead, NoRead, Writes
      <3> QED  BY <3>1, <3>2 DEF ToldClose
    <2>9. CASE DoWriteBody(l, d)
      <3>1. /\ op[d] \in Writes /\ op'[d] = "body"
            /\ UNCHANGED <<thread, resp, keep>>
        BY <2>9, <1>l, BegunOn DEF DoWriteBody, Ready
      <3>2. LastAnswer(d) => LastAnswer(d)'
        BY <3>1 DEF LastAnswer, Writes
      <3>3. Dead(d) => Dead(d)'
        BY <2>1, <3>1 DEF Dead, NoRead
      <3> QED  BY <2>3, <3>1, <3>2, <3>3, <1>l DEF ToldClose, BeingClosed
    <2>10. CASE OnWriteOK(l, d)
      <3>1. op[d] \in Writes /\ UNCHANGED <<resp, keep>>
        BY <2>10 DEF OnWriteOK, Ready, exchange
      <3>2. CASE keep[d]
        <4>1. UNCHANGED thread /\ op'[d] = "read" /\ (sock[d] = "closed" => res'[d] = "err")
          BY <2>10, <3>2, <1>l, BegunOn DEF OnWriteOK
        <4>2. ~LastAnswer(d) /\ ~BeingClosed(d)
          BY <3>2, <1>l DEF LastAnswer, BeingClosed
        <4>3. Dead(d) => Dead(d)'
          BY <2>1, <4>1 DEF Dead, NoRead
        <4> QED  BY <2>3, <3>1, <4>1, <4>2, <4>3 DEF ToldClose
      <3>3. CASE ~keep[d]
        <4>1. Go(l, "erase", d) /\ op'[d] = "none"
          BY <2>10, <3>3, <1>l DEF OnWriteOK, Done, TypeOK
        <4> QED  BY <2>4, <4>1 DEF ToldClose, BeingClosed
      <3> QED  BY <3>2, <3>3
    <2> QED  BY <1>r, <2>5, <2>6, <2>7, <2>8, <2>9, <2>10 DEF ConnHandler
  <1> QED  BY <1>a, <1>r

LEMMA ConnPool ==
    ASSUME OneLoop, OwnerInv, NEW l \in Loops, NEW d \in Conns, ConnHandler(l, d),
           SocketInv(d), InPool(d)
    PROVE  InPool(d)'
  <1>l. /\ TypeOK /\ Fresh(d) /\ l \in ThreadIds
        /\ pc[l] = "poll" /\ ~Closing(d) /\ (\A k \in Loops : ~ShutBy(k, d))
        /\ UNCHANGED <<queue, pool, runs>>
    <2>1. pc[l] = "poll" /\ UNCHANGED <<queue, pool, runs>>
      BY DEF ConnHandler, AcceptDropped, OnAccept, OnAborted, OnError, OnReadMore, DoWriteBody,
             OnWriteOK, OnReadBad, OnReadFinished, Ready, Polling, work, lifecycle
    <2> QED  BY <2>1, LoopIsFree DEF OwnerInv, FreshSockets, ThreadIds
  <1>w. WorkEnded => WorkEnded'
    <2>1. UNCHANGED thread \/ \E at : Go(l, at, d)
      BY DEF ConnHandler, AcceptDropped, OnAccept, OnAborted, OnError, OnReadMore, DoWriteBody,
             OnWriteOK, OnReadBad, OnReadFinished
    <2>2. \A w \in Workers : pc'[w] = pc[w]
      BY <2>1, <1>l, ThreadsDisjoint, Moved DEF thread, ThreadIds
    <2> QED  BY <2>2, <1>l DEF WorkEnded, AllOut
  <1>p. d \in pool \/ WorkEnded => d \in pool' \/ WorkEnded'
    BY <1>w, <1>l
  <1>a. CASE AcceptDropped(l, d)
    <2>1. /\ UNCHANGED <<thread, op, res>> /\ op[d] = "none" /\ sock'[d] = "closed"
      BY <1>a, <1>l DEF AcceptDropped, Fresh, async, TypeOK
    <2>2. OutOfUse(d) => OutOfUse(d)'
      BY <2>1, <1>l DEF OutOfUse, NoRead, Queued, Holds, InsertedBy, thread, Writes
    <2>3. ~Closing(d)'
      BY <2>1, <1>l DEF Closing, thread
    <2> QED  BY <2>2, <2>3, <1>p DEF InPool
  <1>b. CASE OnAccept(l, d)
    <2>1. /\ Go(l, "insert", d) /\ UNCHANGED <<op, res>> /\ op[d] = "none" /\ ~Queued(d)
          /\ \A t \in ThreadIds : cur[t] # d
      BY <1>b, <1>l DEF OnAccept, Fresh, async
    <2>2. \A t \in ThreadIds : Holds(t, d)' => InsertedBy(t, d)'
      BY <2>1, <1>l, Moved DEF Holds, InsertedBy
    <2>3. ~Closing(d)'
      BY <2>1, <1>l, LoopMoves, LoopSteps
    <2>4. OutOfUse(d)'
      BY <2>1, <2>2, <1>l DEF OutOfUse, NoRead, Writes, Queued
    <2> QED  BY <2>3, <2>4 DEF InPool
  <1>r. CASE ~AcceptDropped(l, d) /\ ~OnAccept(l, d)
    <2>1. op[d] # "none" /\ UNCHANGED sock
      BY <1>r DEF ConnHandler, OnAborted, OnError, OnReadMore, DoWriteBody, OnWriteOK, OnReadBad,
                  OnReadFinished, Ready, Writes
    <2>2. InNoHands(d)
      BY <2>1, ReadyOp
    <2>3. ASSUME UNCHANGED thread PROVE InNoHands(d)' /\ ~Closing(d)'
      BY <2>2, <2>3, <1>l DEF InNoHands, Queued, Holds, Closing, thread
    <2>4. ASSUME Go(l, "erase", d) PROVE InNoHands(d)'
      <3>1. "erase" \notin UsingSteps
        BY DEF UsingSteps
      <3>2. \A t \in ThreadIds : ~Holds(t, d)'
        BY <2>2, <2>4, <3>1, <1>l, GoHolds DEF InNoHands
      <3> QED  BY <2>2, <3>2, <1>l DEF InNoHands, Queued
    <2>5. OutOfUse(d) => \/ op[d] \in Writes /\ sock[d] = "closed"
                         \/ op[d] = "read" /\ res[d] \in {"err", "aborted"}
      BY <2>1, <1>l DEF OutOfUse, NoRead, TypeOK
    <2>6. InNoHands(d)' /\ NoRead(d)' /\ op'[d] \notin Writes => OutOfUse(d)'
      BY DEF InNoHands, OutOfUse
    <2>7. CASE OnAborted(l, d) \/ OnError(l, d)
      <3>1. op'[d] = "none" /\ (UNCHANGED thread \/ Go(l, "erase", d))
        BY <2>7, <1>l DEF OnAborted, OnError, Done, TypeOK
      <3>2. InNoHands(d)' /\ NoRead(d)' /\ op'[d] \notin Writes
        BY <2>3, <2>4, <3>1 DEF NoRead, Writes
      <3> QED  BY <2>6, <3>1, <3>2 DEF InPool
    <2>8. ASSUME NEW k \in BOOLEAN, OnReadBad(l, d, k) PROVE InPool(d)'
      <3>1. Go(l, "erase", d) /\ op'[d] = "headers"
        BY <2>8, <1>l, BegunOn DEF OnReadBad, SendResponse
      <3>2. ~OutOfUse(d)
        BY <2>5, <2>8 DEF OnReadBad, Ready, Writes
      <3> QED  BY <2>4, <3>1, <3>2, <1>p DEF InPool
    <2>9. CASE OnReadMore(l, d) \/ \E k \in BOOLEAN : OnReadFinished(l, d, k)
      <3>1. UNCHANGED thread \/ Go(l, "push", d)
        BY <2>9 DEF OnReadMore, OnReadFinished
      <3>2. ~Closing(d)'
        BY <2>3, <3>1, <1>l, LoopMoves, LoopSteps
      <3>3. ~OutOfUse(d)
        BY <2>5, <2>9 DEF OnReadMore, OnReadFinished, Ready, Writes
      <3> QED  BY <3>2, <3>3, <1>p DEF InPool
    <2>10. CASE DoWriteBody(l, d)
      <3>1. op[d] \in Writes /\ op'[d] = "body" /\ UNCHANGED thread
        BY <2>10, <1>l, BegunOn DEF DoWriteBody, Ready
      <3>2. OutOfUse(d) => OutOfUse(d)'
        BY <2>1, <2>3, <2>5, <3>1 DEF OutOfUse, InNoHands, NoRead, Writes
      <3> QED  BY <2>3, <3>1, <3>2, <1>p DEF InPool
    <2>11. CASE OnWriteOK(l, d)
      <3>1. CASE keep[d]
        <4>1. UNCHANGED thread /\ op'[d] = "read" /\ (sock[d] = "closed" => res'[d] = "err")
          BY <2>11, <3>1, <1>l, BegunOn DEF OnWriteOK
        <4>2. OutOfUse(d) => OutOfUse(d)'
          BY <2>3, <2>5, <2>6, <4>1, <2>11 DEF NoRead, Writes, OnWriteOK, Ready
        <4> QED  BY <2>3, <4>1, <4>2, <1>p DEF InPool
      <3>2. CASE ~keep[d]
        <4>1. Go(l, "erase", d) /\ op'[d] = "none"
          BY <2>11, <3>2, <1>l DEF OnWriteOK, Done, TypeOK
        <4>2. InNoHands(d)' /\ NoRead(d)' /\ op'[d] \notin Writes
          BY <2>4, <4>1 DEF NoRead, Writes
        <4> QED  BY <2>6, <4>1, <4>2 DEF InPool
      <3> QED  BY <3>1, <3>2
    <2> QED  BY <1>r, <2>7, <2>8, <2>9, <2>10, <2>11 DEF ConnHandler
  <1> QED  BY <1>a, <1>b, <1>r

---------------------------------------------------------------------------
\* The rest of a handler that has begun, for the connection it is about.

LEMMA HandlerSocket ==
    ASSUME OwnerInv, NEW l \in Loops, HandlerStep(l), NEW d \in Conns, cur[l] = d, SocketInv(d)
    PROVE  SocketInv(d)'
  <1>l. TypeOK
    BY DEF OwnerInv
  <1>1. CASE ~ConnectionClose(l)
    <2>1. UNCHANGED sock /\ (UNCHANGED <<op, res>> \/ Begin(d, "read"))
      BY <1>1 DEF HandlerStep, PoolInsert, QueuePush, ConnectionStart, PoolErase, conns, async
    <2> QED  BY <2>1, <1>l, BegunOn DEF SocketInv
  <1>2. CASE ConnectionClose(l)
    BY <1>2 DEF ConnectionClose, CloseSockets, SocketInv
  <1> QED  BY <1>1, <1>2

LEMMA HandlerClose ==
    ASSUME OneLoop, OwnerInv, NEW l \in Loops, HandlerStep(l), NEW d \in Conns, cur[l] = d,
           SocketInv(d), ToldClose(d)
    PROVE  ToldClose(d)'
  <1>l. TypeOK /\ l \in ThreadIds
    BY DEF OwnerInv, ThreadIds
  <1>1. CASE PoolInsert(l) \/ QueuePush(l) \/ ConnectionStart(l)
    <2>1. Holds(l, d)
      BY <1>1 DEF PoolInsert, QueuePush, ConnectionStart, Holds, UsingSteps
    <2>2. resp[d] # "Close" /\ resp'[d] = resp[d]
      BY <1>1, <1>l, <2>1 DEF ToldClose, InNoHands, PoolInsert, QueuePush, ConnectionStart,
                               exchange, conns
    <2> QED  BY <2>2 DEF ToldClose
  <1>2. CASE PoolErase(l)
    <2>1. Go(l, "shut", d) /\ UNCHANGED <<op, res, sock, resp, keep, queue>>
      BY <1>2 DEF PoolErase, async, exchange, work
    <2>2. Closing(d)' /\ "shut" \notin UsingSteps
      BY <2>1, <1>l, LoopMoves, LoopSteps DEF UsingSteps
    <2>3. InNoHands(d) => InNoHands(d)'
      BY <2>1, <2>2, <1>l, GoHolds DEF InNoHands, Queued
    <2> QED  BY <2>1, <2>2, <2>3 DEF ToldClose, LastAnswer, BeingClosed, Dead, NoRead
  <1>3. CASE ConnectionClose(l)
    <2>1. Go(l, "poll", NULL) /\ UNCHANGED <<op, resp, keep, queue>> /\ CloseSockets({d})
      BY <1>3 DEF ConnectionClose, CloseSockets, exchange, work
    <2>2. sock'[d] = "closed" /\ res'[d] = IF res[d] = "pending" THEN "aborted" ELSE res[d]
      BY <2>1 DEF CloseSockets
    <2>3. "poll" \notin UsingSteps
      BY DEF UsingSteps
    <2>4. InNoHands(d) => InNoHands(d)'
      BY <2>1, <2>3, <1>l, GoHolds DEF InNoHands, Queued
    <2>5. LastAnswer(d) => LastAnswer(d)'
      BY <2>1 DEF LastAnswer
    <2>6. BeingClosed(d) \/ Dead(d) => Dead(d)'
      BY <2>1, <2>2 DEF BeingClosed, Dead, NoRead
    <2> QED  BY <2>1, <2>4, <2>5, <2>6 DEF ToldClose
  <1> QED  BY <1>1, <1>2, <1>3 DEF HandlerStep

LEMMA HandlerPool ==
    ASSUME OneLoop, OwnerInv, NEW l \in Loops, HandlerStep(l), NEW d \in Conns, cur[l] = d,
           InPool(d), WorkEnded => WorkEnded'
    PROVE  InPool(d)'
  <1>l. TypeOK /\ l \in ThreadIds /\ \A k \in Loops : k = l
    BY DEF OwnerInv, ThreadIds, OneLoop
  <1>1. CASE PoolInsert(l)
    <2>1. Go(l, "start", d) /\ d \in pool'
      BY <1>1 DEF PoolInsert
    <2>2. ~Closing(d)'
      BY <2>1, <1>l, Moved DEF Closing, ClosingSteps
    <2> QED  BY <2>1, <2>2 DEF InPool
  <1>2. CASE ConnectionStart(l) \/ QueuePush(l)
    <2>1. Go(l, "poll", NULL) /\ pool' = pool /\ Holds(l, d) /\ pc[l] # "insert"
      BY <1>2 DEF ConnectionStart, QueuePush, conns, Holds, UsingSteps
    <2>2. ~Closing(d)'
      BY <2>1, <1>l, Moved DEF Closing, ClosingSteps
    <2>3. ~OutOfUse(d)
      BY <2>1, <1>l DEF OutOfUse, InsertedBy
    <2> QED  BY <2>1, <2>2, <2>3 DEF InPool
  <1>3. CASE PoolErase(l)
    <2>1. Go(l, "shut", d) /\ UNCHANGED <<op, res, queue>>
      BY <1>3 DEF PoolErase, async, work
    <2>2. InNoHands(d) /\ op[d] # "read"
      BY <1>3, <1>l DEF PoolErase, InPool, Closing, ClosingSteps
    <2>3. ShutBy(l, d)' /\ "shut" \notin UsingSteps
      BY <2>1, <1>l, Moved DEF ShutBy, UsingSteps
    <2>4. InNoHands(d)'
      BY <2>1, <2>2, <2>3, <1>l, GoHolds DEF InNoHands, Queued
    <2> QED  BY <2>1, <2>2, <2>3, <2>4 DEF InPool, InNoHands, OutOfUse, NoRead
  <1>4. CASE ConnectionClose(l)
    <2>1. Go(l, "poll", NULL) /\ UNCHANGED <<op, queue, pool>> /\ CloseSockets({d})
      BY <1>4 DEF ConnectionClose, CloseSockets, work
    <2>2. InNoHands(d) /\ op[d] # "read"
      BY <1>4, <1>l DEF ConnectionClose, InPool, Closing, ClosingSteps
    <2>3. sock'[d] = "closed" /\ op'[d] # "read" /\ "poll" \notin UsingSteps
      BY <2>1, <2>2 DEF CloseSockets, UsingSteps
    <2>4. InNoHands(d)'
      BY <2>1, <2>2, <2>3, <1>l, GoHolds DEF InNoHands, Queued
    <2> QED  BY <2>3, <2>4 DEF InPool, InNoHands, OutOfUse, NoRead
  <1> QED  BY <1>1, <1>2, <1>3, <1>4 DEF HandlerStep

---------------------------------------------------------------------------
\* A worker takes a connection, or answers its request.

Takes(w, d)   == Pop(w) /\ Head(queue) = d
Answers(w, d) == cur[w] = d /\ \E n \in 0..MaxPayloads : Handle(w, n)

LEMMA WorkerOwn ==
    ASSUME OwnerInv, NEW w \in Workers, NEW d \in Conns, Takes(w, d) \/ Answers(w, d),
           SocketInv(d)
    PROVE  /\ SocketInv(d)'
           /\ ToldClose(d) => ToldClose(d)'
           /\ InPool(d) /\ (WorkEnded => WorkEnded') => InPool(d)'
  <1>w. /\ TypeOK /\ QueuedOnce /\ InOnePlace(d) /\ NULL # d
        /\ w \in ThreadIds /\ w \notin Loops
    BY NullIsNothing, ThreadsDisjoint DEF OwnerInv, OneOwner, ThreadIds
  <1>1. CASE Takes(w, d)
    <2>1. /\ Go(w, "handle", d) /\ UNCHANGED <<op, res, sock, resp, pool>>
          /\ queue # <<>> /\ queue' = Tail(queue) /\ Head(queue) = d
      BY <1>1, <1>w DEF Takes, Pop, conns, async, exchange
    <2>2. Queued(d)
      BY <2>1, <1>w, PopQueue
    <2>3. SocketInv(d)' /\ (ToldClose(d) => ToldClose(d)')
      BY <2>1, <2>2 DEF SocketInv, ToldClose, InNoHands
    <2>4. Closing(d)' => Closing(d)
      <3>1. \A k \in Loops : pc'[k] = pc[k] /\ cur'[k] = cur[k]
        BY <2>1, <1>w DEF Go, TypeOK, ThreadIds
      <3> QED  BY <3>1 DEF Closing
    <2> QED  BY <2>1, <2>2, <2>3, <2>4 DEF InPool, OutOfUse, InNoHands
  <1>2. CASE Answers(w, d)
    <2>1. PICK n \in 0..MaxPayloads : Handle(w, n)
      BY <1>2 DEF Answers
    <2>2. /\ Go(w, "wait", NULL) /\ UNCHANGED <<queue, sock, keep, pool>> /\ Begin(d, "headers")
          /\ resp'[d] = IF keep[d] THEN "Keep-Alive" ELSE "Close"
          /\ pc[w] = "handle" /\ Holds(w, d)
      BY <1>2, <2>1, <1>w DEF Answers, Handle, SendResponse, work, Holds, UsingSteps, TypeOK
    <2>3. ~Queued(d) /\ \A t \in ThreadIds : Holds(t, d) => t = w
      BY <2>2, <1>w DEF InOnePlace
    <2>4. InNoHands(d)'
      <3>1. "wait" \notin UsingSteps
        BY DEF UsingSteps
      <3>2. \A t \in ThreadIds : ~Holds(t, d)'
        BY <2>2, <2>3, <3>1, <1>w, GoHolds
      <3> QED  BY <2>2, <2>3, <3>2 DEF InNoHands, Queued
    <2>5. op'[d] = "headers" /\ SocketInv(d)'
      BY <2>2, <1>w, BegunOn DEF SocketInv
    <2>6. ToldClose(d)'
      BY <2>2, <2>4, <2>5, <1>w DEF ToldClose, LastAnswer, Writes, TypeOK
    <2>7. Closing(d)' => Closing(d)
      <3>1. \A k \in Loops : pc'[k] = pc[k] /\ cur'[k] = cur[k]
        BY <2>2, <1>w DEF Go, TypeOK, ThreadIds
      <3> QED  BY <3>1 DEF Closing
    <2>8. InPool(d) => ~Closing(d) /\ ~OutOfUse(d)
      BY <2>2, <1>w DEF InPool, InNoHands, OutOfUse, InsertedBy
    <2> QED  BY <2>2, <2>5, <2>6, <2>7, <2>8 DEF InPool
  <1> QED  BY <1>1, <1>2

---------------------------------------------------------------------------
\* Every step is about d in one of these ways, or leaves d aside.

Own(d) ==
    \/ \E l \in Loops : ConnHandler(l, d)
    \/ \E l \in Loops : HandlerStep(l) /\ cur[l] = d
    \/ \E w \in Workers : Takes(w, d) \/ Answers(w, d)

LEMMA HandlerAside ==
    ASSUME TypeOK, NEW l \in Loops, HandlerStep(l), NEW d \in Conns, cur[l] # d
    PROVE  Aside(d)
  <1>l. l \in ThreadIds /\ NULL # d
    BY NullIsNothing DEF ThreadIds
  <1>1. pc[l] \in Places /\ cur[l] \in Conns
    <2>1. pc[l] \in Places
      BY DEF HandlerStep, PoolInsert, ConnectionStart, QueuePush, PoolErase, ConnectionClose,
             Places, UsingSteps, ClosingSteps
    <2> QED  BY <2>1, <1>l DEF TypeOK, Places
  <1>2. \E at, x : Go(l, at, x) /\ x # d
    BY <1>l DEF HandlerStep, PoolInsert, ConnectionStart, QueuePush, PoolErase, ConnectionClose
  <1>3. UNCHANGED <<resp, keep>>
    BY DEF HandlerStep, PoolInsert, ConnectionStart, QueuePush, PoolErase, ConnectionClose,
           conns, exchange
  <1>4. op'[d] = op[d] /\ res'[d] = res[d] /\ sock'[d] = sock[d]
    <2>1. CASE ConnectionStart(l)
      BY <2>1, <1>1, Begun DEF ConnectionStart
    <2>2. CASE ConnectionClose(l)
      BY <2>2 DEF ConnectionClose, CloseSockets, TypeOK
    <2>3. CASE PoolInsert(l) \/ QueuePush(l) \/ PoolErase(l)
      BY <2>3 DEF PoolInsert, QueuePush, PoolErase, conns, async
    <2> QED  BY <2>1, <2>2, <2>3 DEF HandlerStep
  <1>5. Queued(d)' => Queued(d)
    <2>1. CASE QueuePush(l)
      <3>1. /\ queue' = Append(queue, cur[l]) /\ Len(queue) \in Nat
            /\ \A i \in 1..Len(queue') : queue'[i] = IF i \in 1..Len(queue) THEN queue[i] ELSE cur[l]
        BY <2>1, <1>1 DEF QueuePush, TypeOK
      <3> QED  BY <3>1 DEF Queued
    <2>2. CASE ~QueuePush(l)
      <3>1. queue' = queue
        BY <2>2 DEF HandlerStep, PoolInsert, ConnectionStart, PoolErase, ConnectionClose, work
      <3> QED  BY <3>1 DEF Queued
    <2> QED  BY <2>1, <2>2
  <1> QED  BY <1>2, <1>3, <1>4, <1>5, <1>l, AsideMoves DEF SameData

LEMMA ConnAside ==
    ASSUME TypeOK, NEW l \in Loops, NEW c \in Conns, ConnHandler(l, c), NEW d \in Conns, c # d
    PROVE  Aside(d)
  <1>l. l \in ThreadIds
    BY DEF ThreadIds
  <1>1. pc[l] \notin Places /\ UNCHANGED queue
    <2>1. pc[l] = "poll" /\ UNCHANGED queue
      BY DEF ConnHandler, AcceptDropped, OnAccept, OnAborted, OnError, OnReadMore, DoWriteBody,
             OnWriteOK, OnReadBad, OnReadFinished, Ready, Polling, work
    <2> QED  BY <2>1, LoopSteps
  <1>2. UNCHANGED <<op, res>> \/ Done(c) \/ \E kind \in {"read"} \cup Writes : Begin(c, kind)
    BY DEF ConnHandler, AcceptDropped, OnAccept, OnAborted, OnError, OnReadMore, DoWriteBody,
           OnWriteOK, OnReadBad, OnReadFinished, SendResponse, Writes, async
  <1>3. op'[d] = op[d] /\ res'[d] = res[d]
    BY <1>2, Begun, Finished
  <1>4. sock'[d] = sock[d] /\ resp'[d] = resp[d] /\ keep'[d] = keep[d]
    BY DEF ConnHandler, AcceptDropped, OnAccept, OnAborted, OnError, OnReadMore, DoWriteBody,
           OnWriteOK, OnReadBad, OnReadFinished, SendResponse, exchange, TypeOK
  <1>5. UNCHANGED thread \/ \E at : Go(l, at, c)
    BY DEF ConnHandler, AcceptDropped, OnAccept, OnAborted, OnError, OnReadMore, DoWriteBody,
           OnWriteOK, OnReadBad, OnReadFinished
  <1> QED  BY <1>1, <1>3, <1>4, <1>5, <1>l, AsideMoves, AsideStays DEF SameData, Queued

LEMMA WorkerAside ==
    ASSUME OwnerInv, NEW w \in Workers, WorkerStep(w), NEW d \in Conns,
           ~Takes(w, d), ~Answers(w, d)
    PROVE  Aside(d)
  <1>w. TypeOK /\ QueuedOnce /\ w \in ThreadIds /\ NULL # d
    BY NullIsNothing DEF OwnerInv, OneOwner, ThreadIds
  <1>1. CASE Pop(w)
    <2>1. SameData(d) /\ pc[w] \notin Places /\ Head(queue) # d
      BY <1>1 DEF Pop, Takes, SameData, conns, async, exchange, Places, UsingSteps, ClosingSteps
    <2>2. Queued(d)' => Queued(d)
      BY <1>1, <1>w, PopQueue DEF Pop
    <2>3. \E at, x : Go(w, at, x) /\ x # d
      BY <1>1, <2>1, <1>w DEF Pop
    <2> QED  BY <2>1, <2>2, <2>3, <1>w, AsideMoves
  <1>2. CASE PassNull(w)
    <2>1. SameData(d) /\ pc[w] \notin Places /\ Go(w, "out", NULL) /\ queue' = Append(queue, NULL)
      BY <1>2 DEF PassNull, SameData, conns, async, exchange, Places, UsingSteps, ClosingSteps
    <2>2. Queued(d)' => Queued(d)
      BY <2>1, <1>w, PushQueue, NullIsNothing
    <2> QED  BY <2>1, <2>2, <1>w, AsideMoves
  <1>3. ASSUME NEW n \in 0..MaxPayloads, Handle(w, n) PROVE Aside(d)
    <2>1. /\ UNCHANGED <<queue, sock, keep>> /\ Go(w, "wait", NULL) /\ Begin(cur[w], "headers")
          /\ cur[w] # d /\ cur[w] \in Conns /\ resp'[d] = resp[d]
      BY <1>3, <1>w DEF Handle, SendResponse, Answers, work, TypeOK, UsingSteps
    <2>2. SameData(d)
      BY <2>1, <1>w, Begun DEF SameData, Writes
    <2>3. Queued(d)' => Queued(d)
      BY <2>1 DEF Queued
    <2> QED  BY <2>1, <2>2, <2>3, <1>w, AsideMoves
  <1> QED  BY <1>1, <1>2, <1>3 DEF WorkerStep

LEMMA StopAside ==
    ASSUME TypeOK, NEW t \in Stoppers, StopStep(t), NEW d \in Conns
    PROVE  Aside(d)
  <1>t. t \in ThreadIds /\ pc[t] \notin Places /\ NULL # d
    BY NullIsNothing DEF ThreadIds, Stoppers, StopStep, CloseAcceptor, ClearQueue, PushNull,
       JoinWorkers, JoinThread, JoinTwice, ThreadJoined, ClearThreads, DrainQueue, ClearPool,
       FinishStop, Places, UsingSteps, ClosingSteps
  <1>g. \E at : Go(t, at, NULL)
    BY DEF StopStep, CloseAcceptor, ClearQueue, PushNull, JoinWorkers, JoinThread, JoinTwice,
       ThreadJoined, ClearThreads, DrainQueue, ClearPool, FinishStop
  <1>q. Queued(d)' => Queued(d)
    <2>1. queue' = queue \/ queue' = <<>> \/ queue' = Append(queue, NULL)
      BY DEF StopStep, CloseAcceptor, ClearQueue, PushNull, JoinWorkers, JoinThread, JoinTwice,
         ThreadJoined, ClearThreads, DrainQueue, ClearPool, FinishStop, work
    <2>2. CASE queue' = Append(queue, NULL)
      <3>1. /\ Len(queue) \in Nat
            /\ \A i \in 1..Len(queue') : queue'[i] = IF i \in 1..Len(queue) THEN queue[i] ELSE NULL
        BY <2>2 DEF TypeOK
      <3> QED  BY <3>1, <1>t DEF Queued
    <2> QED  BY <2>1, <2>2 DEF Queued
  <1>1. CASE ClearPool(t)
    <2>1. UNCHANGED <<op, resp, keep>> /\ CloseSockets(pool)
      BY <1>1 DEF ClearPool, CloseSockets, exchange
    <2>2. \/ SameData(d)
          \/ /\ sock'[d] = "closed" /\ op'[d] = op[d] /\ resp'[d] = resp[d] /\ keep'[d] = keep[d]
             /\ res'[d] = IF res[d] = "pending" THEN "aborted" ELSE res[d]
      BY <2>1 DEF CloseSockets, SameData, TypeOK
    <2> QED  BY <2>2, <1>t, <1>g, <1>q, OtherMoves DEF Aside, SameData
  <1>2. CASE ~ClearPool(t)
    <2>1. SameData(d)
      BY <1>2 DEF StopStep, CloseAcceptor, ClearQueue, PushNull, JoinWorkers, JoinThread,
         JoinTwice, ThreadJoined, ClearThreads, DrainQueue, FinishStop, conns, async, exchange,
         SameData
    <2> QED  BY <2>1, <1>t, <1>g, <1>q, AsideMoves
  <1> QED  BY <1>1, <1>2

\* Run() finds no worker and no loop thread with a connection.
LEMMA RunAside ==
    ASSUME TypeOK, StopInv, NEW r \in Runners, Run(r), NEW d \in Conns
    PROVE  Aside(d)
  <1>1. SameData(d) /\ UNCHANGED <<queue, cur>>
    BY DEF Run, conns, async, exchange, SameData
  <1>2. \A u \in Workers \cup Loops \cup {r} : pc[u] \in {"out", "idle"}
    BY DEF Run, MayRun, StopInv, NoneAfterJoin, AllOut
  <1>3. \A u \in Workers \cup Loops \cup {r} : pc'[u] \in {"wait", "poll", "running"}
    BY ThreadsDisjoint DEF Run, ThreadIds
  <1>4. \A u \in ThreadIds : u \notin Workers \cup Loops \cup {r} => pc'[u] = pc[u]
    BY DEF Run
  <1>5. \A u \in ThreadIds, s \in Places : pc'[u] = s <=> pc[u] = s
    BY <1>2, <1>3, <1>4 DEF Places, UsingSteps, ClosingSteps
  <1>6. Loops \subseteq ThreadIds
    BY DEF ThreadIds
  <1>7. \A u \in ThreadIds : Holds(u, d)' <=> Holds(u, d)
    BY <1>1, <1>5 DEF Holds, Places
  <1>8. Closing(d)' <=> Closing(d)
    BY <1>1, <1>5, <1>6 DEF Closing, Places
  <1>9. /\ \A u \in ThreadIds : InsertedBy(u, d)' <=> InsertedBy(u, d)
        /\ \A l \in Loops : ShutBy(l, d)' <=> ShutBy(l, d)
    BY <1>1, <1>5, <1>6 DEF InsertedBy, ShutBy, Places, UsingSteps, ClosingSteps
  <1> QED  BY <1>1, <1>7, <1>8, <1>9 DEF Aside, SameData, Queued

LEMMA ClientAside ==
    ASSUME TypeOK, NEW c \in Conns, Client(c), NEW d \in Conns
    PROVE  Aside(d)
  <1>1. UNCHANGED <<op, sock, resp, keep, queue, thread>>
    BY DEF Client, ClientConnects, ClientSends, ClientReceives, ClientCloses, Completes,
           exchange, work, conns, async
  <1>2. \/ res' = res
        \/ res[c] = "pending" /\ (res' = [res EXCEPT ![c] = "ok"] \/ res' = [res EXCEPT ![c] = "err"])
    BY DEF Client, ClientConnects, ClientSends, ClientReceives, ClientCloses, Completes,
           conns, async
  <1>3. /\ res[d] # "pending" => res'[d] = res[d]
        /\ res'[d] = "pending" => res[d] = "pending"
        /\ res'[d] = "aborted" => res[d] = "aborted"
    BY <1>2 DEF TypeOK
  <1> QED  BY <1>1, <1>3 DEF Aside, thread, Closing, Holds, InsertedBy, ShutBy, Queued

LEMMA AsideOrOwn ==
    ASSUME OwnerInv, StopInv, [Next]_vars, NEW d \in Conns, ~Own(d)
    PROVE  Aside(d)
  <1>d. TypeOK /\ NULL # d
    BY NullIsNothing DEF OwnerInv
  <1>s. UNCHANGED <<conns, queue, thread>> => Aside(d)
    BY AsideStays DEF SameData, conns, async, exchange, Queued
  <1>m. ASSUME NEW t \in ThreadIds, NEW at, Go(t, at, NULL), pc[t] \in {"running", "idle", "poll"},
               UNCHANGED <<conns, queue>>
        PROVE  Aside(d)
    <2>1. pc[t] \notin Places /\ SameData(d)
      BY <1>m DEF Places, UsingSteps, ClosingSteps, SameData, conns, async, exchange
    <2> QED  BY <2>1, <1>m, <1>d, AsideMoves DEF Queued
  <1>1. ASSUME NEW r \in Runners, RunRefused(r) \/ RunNotListening(r) PROVE Aside(d)
    <2>1. UNCHANGED <<conns, queue, thread>>
      <3>1. CASE RunRefused(r)
        BY <3>1 DEF RunRefused, work
      <3>2. CASE RunNotListening(r)
        BY <3>2 DEF RunNotListening, work
      <3> QED  BY <1>1, <3>1, <3>2
    <2> QED  BY <2>1, <1>s
  <1>2. ASSUME NEW r \in Runners, Run(r) PROVE Aside(d)
    BY <1>2, <1>d, RunAside
  <1>3. ASSUME NEW r \in Runners, RunReturns(r) PROVE Aside(d)
    BY <1>3, <1>m DEF RunReturns, work, ThreadIds
  <1>4. ASSUME NEW a \in Apps, CallStop(a) PROVE Aside(d)
    BY <1>4, <1>m DEF CallStop, work, ThreadIds
  <1>5. ASSUME Signal PROVE Aside(d)
    BY <1>5, <1>s DEF Signal, work
  <1>6. ASSUME NEW l \in Loops, LeaveLoop(l) \/ OnSignal(l) PROVE Aside(d)
    <2>1. UNCHANGED <<conns, queue>> /\ l \in ThreadIds /\ pc[l] = "poll"
      BY <1>6 DEF LeaveLoop, OnSignal, Polling, work, ThreadIds
    <2>2. Go(l, "out", NULL) \/ Go(l, "close", NULL)
      BY <1>6 DEF LeaveLoop, OnSignal
    <2> QED  BY <2>1, <2>2, <1>m
  <1>7. ASSUME NEW l \in Loops, OnAcceptAborted(l) PROVE Aside(d)
    BY <1>7, <1>s DEF OnAcceptAborted, work
  <1>8. ASSUME NEW l \in Loops, HandlerStep(l) PROVE Aside(d)
    BY <1>8, <1>d, HandlerAside DEF Own
  <1>9. ASSUME NEW l \in Loops, NEW c \in Conns, ConnHandler(l, c) PROVE Aside(d)
    BY <1>9, <1>d, ConnAside DEF Own
  <1>10. ASSUME NEW t \in Apps \cup Loops, StopStep(t) PROVE Aside(d)
    BY <1>10, <1>d, StopAside DEF Stoppers
  <1>11. ASSUME NEW w \in Workers, WorkerStep(w) PROVE Aside(d)
    BY <1>11, WorkerAside DEF Own
  <1>12. ASSUME NEW c \in Conns, Client(c) PROVE Aside(d)
    BY <1>12, <1>d, ClientAside
  <1>13. ASSUME UNCHANGED vars PROVE Aside(d)
    BY <1>13, <1>s DEF vars, work
  <1> QED  BY <1>1, <1>2, <1>3, <1>4, <1>5, <1>6, <1>7, <1>8, <1>9, <1>10, <1>11, <1>12, <1>13
           DEF Next

---------------------------------------------------------------------------
\* A connection that was told Close

LEMMA CloseStep == OneLoop /\ OwnerInv /\ StopInv /\ CloseInv /\ [Next]_vars => CloseInv'
  <1> SUFFICES ASSUME OneLoop, OwnerInv, StopInv, CloseInv, [Next]_vars, NEW d \in Conns
               PROVE  SocketInv(d)' /\ ToldClose(d)'
    BY DEF CloseInv
  <1>1. SocketInv(d) /\ ToldClose(d)
    BY DEF CloseInv
  <1>2. CASE ~Own(d)
    BY <1>1, <1>2, AsideOrOwn, AsideSocket, AsideClose
  <1>3. CASE Own(d)
    BY <1>1, <1>3, ConnSocket, ConnClose, HandlerSocket, HandlerClose, WorkerOwn DEF Own
  <1> QED  BY <1>2, <1>3

\* connection.cc:114, for the default of one loop thread: once a response has
\* said Connection: Close, no further request of that connection is queued or
\* handled, whatever it sent meanwhile and whoever stops the server.
THEOREM CloseIsAlwaysKept == ASSUME OneLoop PROVE Spec => []CloseIsKept
  <1>1. Init => OwnerInv /\ StopInv /\ CloseInv
    BY TypeInit, OwnerInit, StopInit
       DEF OwnerInv, CloseInv, SocketInv, ToldClose, Init
  <1>2. OwnerInv /\ StopInv /\ CloseInv /\ [Next]_vars => (OwnerInv /\ StopInv /\ CloseInv)'
    BY TypeStep, OwnerStep, StopInvStep, CloseStep DEF OwnerInv
  <1>3. CloseInv => CloseIsKept
    BY DEF CloseInv, ToldClose, CloseIsKept, InNoHands
  <1> QED  BY <1>1, <1>2, <1>3, PTL DEF Spec

---------------------------------------------------------------------------
\* What the pool has

\* Only a call of Run() counts as one.
LEMMA RunsCounted ==
    ASSUME [Next]_vars
    PROVE  \/ runs' = runs
           \/ /\ runs' = runs + 1 /\ runs < MaxRuns
              /\ \E r \in Runners : RunRefused(r) \/ RunNotListening(r) \/ Run(r)
  <1> USE DEF lifecycle
  <1>1. ASSUME NEW r \in Runners, RunRefused(r) PROVE runs' = runs + 1 /\ runs < MaxRuns
    BY <1>1 DEF RunRefused, MayRun
  <1>2. ASSUME NEW r \in Runners, RunNotListening(r) PROVE runs' = runs + 1 /\ runs < MaxRuns
    BY <1>2 DEF RunNotListening, MayRun
  <1>3. ASSUME NEW r \in Runners, Run(r) PROVE runs' = runs + 1 /\ runs < MaxRuns
    BY <1>3 DEF Run, MayRun
  <1>4. ASSUME NEW r \in Runners, RunReturns(r) PROVE runs' = runs
    BY <1>4 DEF RunReturns
  <1>5. ASSUME NEW a \in Apps, CallStop(a) PROVE runs' = runs
    BY <1>5 DEF CallStop
  <1>6. ASSUME NEW l \in Loops, LeaveLoop(l) \/ OnAcceptAborted(l) \/ OnSignal(l) PROVE runs' = runs
    BY <1>6 DEF LeaveLoop, OnAcceptAborted, OnSignal
  <1>7. ASSUME NEW l \in Loops, HandlerStep(l) PROVE runs' = runs
    BY <1>7 DEF HandlerStep, PoolInsert, ConnectionStart, QueuePush, PoolErase, ConnectionClose
  <1>8. ASSUME NEW l \in Loops, NEW c \in Conns, ConnHandler(l, c) PROVE runs' = runs
    BY <1>8 DEF ConnHandler, AcceptDropped, OnAccept, OnAborted, OnError, OnReadMore, DoWriteBody,
                OnWriteOK, OnReadBad, OnReadFinished
  <1>9. ASSUME NEW t \in Apps \cup Loops, StopStep(t) PROVE runs' = runs
    BY <1>9 DEF StopStep, CloseAcceptor, ClearQueue, PushNull, JoinWorkers, JoinThread,
       JoinTwice, ThreadJoined, ClearThreads, DrainQueue, ClearPool, FinishStop
  <1>10. ASSUME NEW w \in Workers, WorkerStep(w) PROVE runs' = runs
    BY <1>10 DEF WorkerStep, Pop, PassNull, Handle
  <1>11. ASSUME NEW c \in Conns, Client(c) PROVE runs' = runs
    BY <1>11 DEF Client, ClientConnects, ClientSends, ClientReceives, ClientCloses
  <1>12. CASE Signal \/ UNCHANGED vars
    BY <1>12 DEF Signal, vars
  <1> QED  BY <1>1, <1>2, <1>3, <1>4, <1>5, <1>6, <1>7, <1>8, <1>9, <1>10, <1>11, <1>12 DEF Next

\* The workers of the one run are not there before it nor after it.
LEMMA WorkersEnded ==
    ASSUME TypeOK, [Next]_vars
    PROVE  WorkEnded => WorkEnded'
  <1> SUFFICES ASSUME WorkEnded PROVE WorkEnded'
    OBVIOUS
  <1>0. runs \in Nat /\ MaxRuns \in Nat /\ (\A w \in Workers : pc[w] = "out") /\ runs >= MaxRuns
    BY BoundsAreNat DEF TypeOK, WorkEnded, AllOut
  <1>r. runs' = runs
    BY <1>0, RunsCounted
  <1>g. ASSUME NEW t \in ThreadIds \ Workers, NEW at, NEW x, Go(t, at, x)
        PROVE  WorkEnded'
    BY <1>g, <1>r, <1>0 DEF Go, TypeOK, WorkEnded, AllOut, ThreadIds
  <1>s. UNCHANGED thread => WorkEnded'
    BY <1>r, <1>0 DEF WorkEnded, AllOut, thread
  <1>1. ASSUME NEW r \in Runners, RunRefused(r) \/ RunNotListening(r) \/ Run(r) PROVE FALSE
    <2>1. runs' = runs + 1
      BY <1>1 DEF RunRefused, RunNotListening, Run
    <2> QED  BY <2>1, <1>r, <1>0
  <1>2. ASSUME NEW r \in Runners, RunReturns(r) PROVE WorkEnded'
    BY <1>2, <1>g, ThreadsDisjoint DEF RunReturns, ThreadIds
  <1>3. ASSUME NEW a \in Apps, CallStop(a) PROVE WorkEnded'
    BY <1>3, <1>g, ThreadsDisjoint DEF CallStop, ThreadIds
  <1>4. ASSUME NEW l \in Loops, LeaveLoop(l) \/ OnSignal(l) \/ HandlerStep(l) PROVE WorkEnded'
    <2>1. l \in ThreadIds \ Workers
      BY ThreadsDisjoint DEF ThreadIds
    <2>2. \E at, x : Go(l, at, x)
      BY <1>4 DEF LeaveLoop, OnSignal, HandlerStep, PoolInsert, ConnectionStart, QueuePush,
         PoolErase, ConnectionClose
    <2> QED  BY <2>1, <2>2, <1>g
  <1>5. ASSUME NEW l \in Loops, NEW c \in Conns, ConnHandler(l, c) PROVE WorkEnded'
    <2>1. l \in ThreadIds \ Workers
      BY ThreadsDisjoint DEF ThreadIds
    <2>2. UNCHANGED thread \/ \E at : Go(l, at, c)
      BY <1>5 DEF ConnHandler, AcceptDropped, OnAccept, OnAborted, OnError, OnReadMore,
         DoWriteBody, OnWriteOK, OnReadBad, OnReadFinished
    <2> QED  BY <2>1, <2>2, <1>g, <1>s
  <1>6. ASSUME NEW t \in Apps \cup Loops, StopStep(t) PROVE WorkEnded'
    <2>1. t \in ThreadIds \ Workers
      BY ThreadsDisjoint DEF ThreadIds
    <2>2. \E at : Go(t, at, NULL)
      BY <1>6 DEF StopStep, CloseAcceptor, ClearQueue, PushNull, JoinWorkers, JoinThread,
         JoinTwice, ThreadJoined, ClearThreads, DrainQueue, ClearPool, FinishStop
    <2> QED  BY <2>1, <2>2, <1>g
  <1>7. ASSUME NEW w \in Workers, WorkerStep(w) PROVE FALSE
    BY <1>7, <1>0 DEF WorkerStep, Pop, PassNull, Handle
  <1>8. CASE Signal \/ (\E l \in Loops : OnAcceptAborted(l)) \/ (\E c \in Conns : Client(c))
             \/ UNCHANGED vars
    BY <1>8, <1>s DEF Signal, OnAcceptAborted, Client, ClientConnects, ClientSends,
       ClientReceives, ClientCloses, vars
  <1> QED  BY <1>1, <1>2, <1>3, <1>4, <1>5, <1>6, <1>7, <1>8 DEF Next

\* Only a DoStop() that has joined the workers takes a connection out of the
\* pool that no handler closes.
LEMMA PoolKept ==
    ASSUME RunsOnce, TypeOK, StopInv, NotStarted, [Next]_vars, NEW d \in pool, d \notin pool', ~Own(d)
    PROVE  WorkEnded'
  <1>1. \E t \in Stoppers : ClearPool(t)
    <2>1. ASSUME NEW l \in Loops, HandlerStep(l) PROVE FALSE
      BY <2>1 DEF HandlerStep, PoolInsert, ConnectionStart, QueuePush, PoolErase, ConnectionClose,
                  conns, Own, TypeOK
    <2>2. ASSUME NEW l \in Loops, NEW c \in Conns, ConnHandler(l, c) PROVE FALSE
      BY <2>2 DEF ConnHandler, AcceptDropped, OnAccept, OnAborted, OnError, OnReadMore,
                  DoWriteBody, OnWriteOK, OnReadBad, OnReadFinished
    <2>3. ASSUME NEW w \in Workers, WorkerStep(w) PROVE FALSE
      BY <2>3 DEF WorkerStep, Pop, PassNull, Handle, conns
    <2>4. ASSUME NEW c \in Conns, Client(c) PROVE FALSE
      BY <2>4 DEF Client, ClientConnects, ClientSends, ClientReceives, ClientCloses, conns
    <2>5. ASSUME NEW t \in Apps \cup Loops, StopStep(t) PROVE ClearPool(t)
      BY <2>5 DEF StopStep, CloseAcceptor, ClearQueue, PushNull, JoinWorkers, JoinThread,
         JoinTwice, ThreadJoined, ClearThreads, DrainQueue, FinishStop, conns
    <2>6. ASSUME NEW r \in Runners, RunRefused(r) \/ RunNotListening(r) \/ Run(r) \/ RunReturns(r)
          PROVE  FALSE
      BY <2>6 DEF RunRefused, RunNotListening, Run, RunReturns, conns
    <2>7. ASSUME NEW l \in Loops, LeaveLoop(l) \/ OnSignal(l) \/ OnAcceptAborted(l) PROVE FALSE
      BY <2>7 DEF LeaveLoop, OnSignal, OnAcceptAborted, conns
    <2>8. ASSUME NEW a \in Apps, CallStop(a) PROVE FALSE
      BY <2>8 DEF CallStop, conns
    <2>9. ~Signal /\ ~UNCHANGED vars
      BY DEF Signal, vars, conns
    <2> QED  BY <2>1, <2>2, <2>3, <2>4, <2>5, <2>6, <2>7, <2>8, <2>9 DEF Next, Stoppers
  <1>2. PICK t \in Stoppers : ClearPool(t)
    BY <1>1
  <1>3. AllOut
    BY <1>2 DEF ClearPool, StopInv, NoneAfterJoin, Joined
  <1>4. runs # 0
    BY DEF NotStarted
  <1>5. WorkEnded
    BY <1>3, <1>4, BoundsAreNat DEF WorkEnded, RunsOnce, TypeOK
  <1> QED  BY <1>5, WorkersEnded

LEMMA StartedStep ==
    ASSUME TypeOK, NotStarted, [Next]_vars
    PROVE  NotStarted'
  <1> SUFFICES ASSUME runs' = 0 PROVE pool' = {} /\ \A l \in Loops : pc'[l] = "out"
    BY DEF NotStarted
  <1>r. runs = 0 /\ runs' # runs + 1
    <2>1. runs \in Nat
      BY DEF TypeOK
    <2> QED  BY <2>1, RunsCounted
  <1>1. ASSUME NEW r \in Runners, RunRefused(r) \/ RunNotListening(r) \/ Run(r) PROVE FALSE
    BY <1>1, <1>r DEF RunRefused, RunNotListening, Run
  <1>l. pool = {} /\ \A l \in Loops : pc[l] = "out"
    BY <1>r DEF NotStarted
  <1>g. ASSUME NEW t \in ThreadIds \ Loops, NEW at, NEW x, Go(t, at, x)
        PROVE  \A l \in Loops : pc'[l] = "out"
    BY <1>g, <1>l DEF Go, TypeOK, ThreadIds
  <1>s. UNCHANGED thread => \A l \in Loops : pc'[l] = "out"
    BY <1>l DEF thread
  <1>2. ASSUME NEW r \in Runners, RunReturns(r) PROVE pool' = {} /\ \A l \in Loops : pc'[l] = "out"
    BY <1>2, <1>l, <1>g, ThreadsDisjoint DEF RunReturns, conns, ThreadIds
  <1>3. ASSUME NEW a \in Apps, CallStop(a) PROVE pool' = {} /\ \A l \in Loops : pc'[l] = "out"
    BY <1>3, <1>l, <1>g, ThreadsDisjoint DEF CallStop, conns, ThreadIds
  <1>4. ASSUME NEW l \in Loops, NEW c \in Conns,
               LeaveLoop(l) \/ OnAcceptAborted(l) \/ OnSignal(l) \/ HandlerStep(l) \/ ConnHandler(l, c)
        PROVE  FALSE
    BY <1>4, <1>l DEF LeaveLoop, OnAcceptAborted, OnSignal, HandlerStep, PoolInsert,
       ConnectionStart, QueuePush, PoolErase, ConnectionClose, ConnHandler, AcceptDropped,
       OnAccept, OnAborted, OnError, OnReadMore, DoWriteBody, OnWriteOK, OnReadBad,
       OnReadFinished, Ready, Polling
  <1>c. ASSUME NEW l \in Loops, HandlerStep(l) PROVE \E c \in Conns : TRUE
    <2>1. pc[l] \in UsingSteps \cup ClosingSteps /\ l \in ThreadIds
      BY <1>c DEF HandlerStep, PoolInsert, ConnectionStart, QueuePush, PoolErase,
                  ConnectionClose, UsingSteps, ClosingSteps, ThreadIds
    <2> QED  BY <2>1 DEF TypeOK
  <1>5. ASSUME NEW t \in Apps \cup Loops, StopStep(t)
        PROVE  pool' = {} /\ \A l \in Loops : pc'[l] = "out"
    <2>1. t \in ThreadIds \ Loops
      BY <1>5, <1>l, ThreadsDisjoint DEF StopStep, CloseAcceptor, ClearQueue, PushNull,
         JoinWorkers, JoinThread, JoinTwice, ThreadJoined, ClearThreads, DrainQueue, ClearPool,
         FinishStop, ThreadIds
    <2>2. \E at : Go(t, at, NULL)
      BY <1>5 DEF StopStep, CloseAcceptor, ClearQueue, PushNull, JoinWorkers, JoinThread,
         JoinTwice, ThreadJoined, ClearThreads, DrainQueue, ClearPool, FinishStop
    <2>3. pool' = pool \/ pool' = {}
      BY <1>5 DEF StopStep, CloseAcceptor, ClearQueue, PushNull, JoinWorkers, JoinThread,
         JoinTwice, ThreadJoined, ClearThreads, DrainQueue, ClearPool, FinishStop, conns
    <2> QED  BY <2>1, <2>2, <2>3, <1>l, <1>g
  <1>6. ASSUME NEW w \in Workers, WorkerStep(w)
        PROVE  pool' = {} /\ \A l \in Loops : pc'[l] = "out"
    <2>1. w \in ThreadIds \ Loops /\ pool' = pool
      BY <1>6, ThreadsDisjoint DEF WorkerStep, Pop, PassNull, Handle, conns, ThreadIds
    <2>2. \E at, x : Go(w, at, x)
      BY <1>6 DEF WorkerStep, Pop, PassNull, Handle
    <2> QED  BY <2>1, <2>2, <1>l, <1>g
  <1>7. CASE Signal \/ (\E c \in Conns : Client(c)) \/ UNCHANGED vars
    BY <1>7, <1>s, <1>l DEF Signal, Client, ClientConnects, ClientSends, ClientReceives,
       ClientCloses, vars, conns
  <1>8. ASSUME NEW l \in Loops, LeaveLoop(l) \/ OnAcceptAborted(l) \/ OnSignal(l) PROVE FALSE
    BY <1>8, <1>l DEF LeaveLoop, OnAcceptAborted, OnSignal, Polling
  <1> QED  BY <1>1, <1>2, <1>3, <1>4, <1>c, <1>5, <1>6, <1>7, <1>8 DEF Next

LEMMA InPoolStep ==
    OneLoop /\ RunsOnce /\ OwnerInv /\ StopInv /\ InPoolInv /\ [Next]_vars => InPoolInv'
  <1> SUFFICES ASSUME OneLoop, RunsOnce, OwnerInv, StopInv, InPoolInv, [Next]_vars
               PROVE  NotStarted' /\ \A d \in Conns : SocketInv(d)' /\ InPool(d)'
    BY DEF InPoolInv
  <1>t. TypeOK /\ NotStarted
    BY DEF OwnerInv, InPoolInv
  <1>0. NotStarted'
    BY <1>t, StartedStep
  <1>1. ASSUME NEW d \in Conns PROVE SocketInv(d)' /\ InPool(d)'
    <2>1. SocketInv(d) /\ InPool(d) /\ (WorkEnded => WorkEnded')
      BY <1>t, WorkersEnded DEF InPoolInv
    <2>2. CASE ~Own(d)
      <3>1. d \in pool => d \in pool' \/ WorkEnded'
        BY <2>2, <1>t, PoolKept
      <3> QED  BY <2>1, <2>2, <3>1, AsideOrOwn, AsideSocket, AsidePool
    <2>3. ASSUME NEW l \in Loops, ConnHandler(l, d) PROVE SocketInv(d)' /\ InPool(d)'
      BY <2>1, <2>3, ConnSocket, ConnPool
    <2>4. ASSUME NEW l \in Loops, HandlerStep(l), cur[l] = d PROVE SocketInv(d)' /\ InPool(d)'
      BY <2>1, <2>4, HandlerSocket, HandlerPool
    <2>5. ASSUME NEW w \in Workers, Takes(w, d) \/ Answers(w, d)
          PROVE  SocketInv(d)' /\ InPool(d)'
      BY <2>1, <2>5, WorkerOwn
    <2> QED  BY <2>2, <2>3, <2>4, <2>5 DEF Own
  <1> QED  BY <1>0, <1>1

\* server.h:120, for one call of Run() with its default of one loop thread: a
\* worker handles the request of a connection only while the pool owns the
\* connection, whoever stops the server meanwhile.
THEOREM HandledIsAlwaysPooled == ASSUME OneLoop, RunsOnce PROVE Spec => []HandledIsPooled
  <1>1. Init => OwnerInv /\ StopInv /\ InPoolInv
    BY TypeInit, OwnerInit, StopInit, NullIsNothing, ThreadsDisjoint
       DEF OwnerInv, InPoolInv, NotStarted, SocketInv, InPool, OutOfUse, NoRead, Closing,
           Queued, Holds, ClosingSteps, UsingSteps, Writes, ThreadIds, Init
  <1>2. OwnerInv /\ StopInv /\ InPoolInv /\ [Next]_vars => (OwnerInv /\ StopInv /\ InPoolInv)'
    BY TypeStep, OwnerStep, StopInvStep, InPoolStep DEF OwnerInv
  <1>3. OwnerInv /\ InPoolInv => HandledIsPooled
    <2> SUFFICES ASSUME OwnerInv, InPoolInv, NEW w \in Workers, pc[w] = "handle"
                 PROVE  cur[w] \in pool
      BY DEF HandledIsPooled
    <2>1. w \in ThreadIds /\ cur[w] \in Conns /\ Holds(w, cur[w]) /\ ~InsertedBy(w, cur[w])
      BY DEF OwnerInv, TypeOK, ThreadIds, UsingSteps, Holds, InsertedBy
    <2>2. ~WorkEnded
      BY DEF WorkEnded, AllOut
    <2> QED  BY <2>1, <2>2 DEF InPoolInv, InPool, OutOfUse
  <1> QED  BY <1>1, <1>2, <1>3, PTL DEF Spec

---------------------------------------------------------------------------
\* What a stop leaves open

NoneOpen == \A c \in Conns : sock[c] # "open"

\* An open connection is in the pool, or the one handler that is not done with
\* it is about to put it there or to close it.
Owned(c) ==
    sock[c] = "open" => \/ c \in pool
                        \/ \E l \in Loops : InsertedBy(l, c) \/ ShutBy(l, c)

OpenInv ==
    /\ \A c \in Conns : Owned(c)
    /\ \A l \in Loops : pc[l] = "finish" => NoneOpen
    /\ stopped => NoneOpen

LEMMA OpenLoopStep ==
    ASSUME OneLoop, OwnerInv, OpenInv, NEW l \in Loops, NEW c \in Conns,
           HandlerStep(l) \/ ConnHandler(l, c)
    PROVE  OpenInv'
  <1>l. TypeOK /\ l \in ThreadIds /\ \A k \in Loops : k = l
    BY DEF OwnerInv, ThreadIds, OneLoop
  <1>1. CASE HandlerStep(l)
    <2>1. stopped' = stopped /\ pc[l] \in Places /\ cur[l] \in Conns
      <3>1. stopped' = stopped /\ pc[l] \in Places
        BY <1>1 DEF HandlerStep, PoolInsert, ConnectionStart, QueuePush, PoolErase,
                    ConnectionClose, Places, UsingSteps, ClosingSteps, lifecycle
      <3> QED  BY <3>1, <1>l DEF TypeOK, Places
    <2>2. \A d \in Conns : sock'[d] = "open" => sock[d] = "open"
      BY <1>1, <1>l DEF HandlerStep, PoolInsert, ConnectionStart, QueuePush, PoolErase,
                        ConnectionClose, CloseSockets, conns
    <2>3. pc'[l] # "finish"
      BY <1>1, <1>l, Moved DEF HandlerStep, PoolInsert, ConnectionStart, QueuePush, PoolErase,
                               ConnectionClose
    <2>4. ASSUME NEW d \in Conns, sock'[d] = "open"
          PROVE  d \in pool' \/ \E k \in Loops : InsertedBy(k, d)' \/ ShutBy(k, d)'
      <3>1. d \in pool \/ InsertedBy(l, d) \/ ShutBy(l, d)
        BY <2>2, <2>4, <1>l DEF OpenInv, Owned
      <3>2. CASE PoolInsert(l)
        BY <3>1, <3>2 DEF PoolInsert, InsertedBy, ShutBy
      <3>3. CASE ConnectionStart(l) \/ QueuePush(l)
        BY <3>1, <3>3 DEF ConnectionStart, QueuePush, InsertedBy, ShutBy, conns
      <3>4. CASE PoolErase(l)
        <4>1. Go(l, "shut", cur[l]) /\ pool' = pool \ {cur[l]} /\ d \in pool
          BY <3>1, <3>4 DEF PoolErase, InsertedBy, ShutBy
        <4>2. d = cur[l] => ShutBy(l, d)'
          BY <4>1, <1>l, Moved DEF ShutBy
        <4> QED  BY <4>1, <4>2
      <3>5. CASE ConnectionClose(l)
        <4>1. pool' = pool /\ cur[l] # d /\ pc[l] = "shut"
          BY <3>5, <2>4 DEF ConnectionClose, CloseSockets
        <4> QED  BY <3>1, <4>1 DEF InsertedBy, ShutBy
      <3> QED  BY <1>1, <3>2, <3>3, <3>4, <3>5 DEF HandlerStep
    <2> QED  BY <2>1, <2>2, <2>3, <2>4, <1>l DEF OpenInv, Owned, NoneOpen
  <1>2. CASE ConnHandler(l, c)
    <2>1. pc[l] = "poll" /\ ~stopped /\ UNCHANGED <<stopped, pool>>
      BY <1>2 DEF ConnHandler, AcceptDropped, OnAccept, OnAborted, OnError, OnReadMore,
                  DoWriteBody, OnWriteOK, OnReadBad, OnReadFinished, Ready, Polling, lifecycle
    <2>2. \A d \in Conns : sock[d] = "open" => d \in pool
      BY <2>1, <1>l DEF OpenInv, Owned, InsertedBy, ShutBy
    <2>3. pc'[l] # "finish"
      <3>1. UNCHANGED thread \/ \E at \in {"insert", "erase", "push"} : Go(l, at, c)
        BY <1>2 DEF ConnHandler, AcceptDropped, OnAccept, OnAborted, OnError, OnReadMore,
                    DoWriteBody, OnWriteOK, OnReadBad, OnReadFinished
      <3> QED  BY <3>1, <2>1, <1>l, Moved DEF thread
    <2>4. CASE OnAccept(l, c)
      <3>1. \A d \in Conns : d # c => sock'[d] = sock[d]
        BY <2>4, <1>l DEF OnAccept, TypeOK
      <3>2. InsertedBy(l, c)'
        BY <2>4, <1>l, Moved DEF OnAccept, InsertedBy
      <3> QED  BY <2>1, <2>2, <2>3, <3>1, <3>2, <1>l DEF OpenInv, Owned
    <2>5. CASE ~OnAccept(l, c)
      <3>1. \A d \in Conns : sock'[d] = "open" => sock[d] = "open"
        BY <1>2, <2>5, <1>l DEF ConnHandler, AcceptDropped, OnAborted, OnError, OnReadMore,
                    DoWriteBody, OnWriteOK, OnReadBad, OnReadFinished, TypeOK
      <3> QED  BY <2>1, <2>2, <2>3, <3>1, <1>l DEF OpenInv, Owned
    <2> QED  BY <2>4, <2>5
  <1> QED  BY <1>1, <1>2

LEMMA OpenStopStep ==
    ASSUME OneLoop, OwnerInv, OpenInv, NEW l \in Loops, StopStep(l)
    PROVE  OpenInv'
  <1>l. TypeOK /\ l \in ThreadIds /\ l \notin Apps /\ \A k \in Loops : k = l
    BY ThreadsDisjoint DEF OwnerInv, ThreadIds, OneLoop
  <1>1. \A d \in Conns : sock[d] = "open" => d \in pool
    <2>1. pc[l] \notin {"insert", "shut"}
      BY DEF StopStep, CloseAcceptor, ClearQueue, PushNull, JoinWorkers, JoinThread, JoinTwice,
         ThreadJoined, ClearThreads, DrainQueue, ClearPool, FinishStop
    <2> QED  BY <2>1, <1>l DEF OpenInv, Owned, InsertedBy, ShutBy
  <1>2. CASE ClearPool(l)
    <2>1. sock' = [d \in Conns |-> IF d \in pool THEN "closed" ELSE sock[d]]
      BY <1>2 DEF ClearPool, CloseSockets
    <2>2. NoneOpen'
      BY <1>1, <2>1 DEF NoneOpen
    <2> QED  BY <2>2 DEF OpenInv, Owned, NoneOpen
  <1>3. CASE FinishStop(l)
    <2>1. NoneOpen /\ UNCHANGED sock
      BY <1>3, <1>l DEF FinishStop, OpenInv, conns
    <2>2. NoneOpen'
      BY <2>1 DEF NoneOpen
    <2> QED  BY <2>2 DEF OpenInv, Owned, NoneOpen
  <1>4. CASE CloseAcceptor(l) \/ ClearQueue(l) \/ PushNull(l) \/ JoinWorkers(l) \/ DrainQueue(l)
    <2>1. UNCHANGED <<sock, pool, stopped>>
      BY <1>4 DEF CloseAcceptor, ClearQueue, PushNull, JoinWorkers, JoinThread, JoinTwice,
         ThreadJoined, ClearThreads, DrainQueue, conns, lifecycle
    <2>2. pc'[l] # "finish"
      BY <1>4, <1>l, Moved DEF CloseAcceptor, ClearQueue, PushNull, JoinWorkers, JoinThread,
         JoinTwice, ThreadJoined, ClearThreads, DrainQueue
    <2> QED  BY <1>1, <2>1, <2>2, <1>l DEF OpenInv, Owned, NoneOpen
  <1> QED  BY <1>2, <1>3, <1>4 DEF StopStep

\* What the other threads do opens and closes nothing.
LEMMA OpenKept ==
    ASSUME OpenInv, UNCHANGED <<sock, pool>>, stopped' => stopped,
           \A l \in Loops : pc'[l] = "finish" => pc[l] = "finish",
           \A l \in Loops, c \in Conns : /\ InsertedBy(l, c) => InsertedBy(l, c)'
                                         /\ ShutBy(l, c) => ShutBy(l, c)'
    PROVE  OpenInv'
  <1>1. \A c \in Conns : Owned(c) => Owned(c)'
    BY DEF Owned
  <1>2. NoneOpen => NoneOpen'
    BY DEF NoneOpen
  <1> QED  BY <1>1, <1>2 DEF OpenInv

LEMMA OpenStep ==
    OneLoop /\ SignalsOnly /\ OwnerInv /\ OpenInv /\ [Next]_vars => OpenInv'
  <1> SUFFICES ASSUME OneLoop, SignalsOnly, OwnerInv, OpenInv, [Next]_vars
               PROVE  OpenInv'
    OBVIOUS
  <1>t. TypeOK
    BY DEF OwnerInv
  <1>s. UNCHANGED <<sock, pool, thread>> /\ (stopped' => stopped) => OpenInv'
    BY OpenKept DEF thread, InsertedBy, ShutBy
  <1>g. ASSUME NEW t \in ThreadIds, NEW at, NEW x, Go(t, at, x), UNCHANGED <<sock, pool, stopped>>,
               t \in Loops => pc[t] = "poll" /\ at # "finish"
        PROVE  OpenInv'
    <2>1. /\ \A l \in Loops : pc'[l] = "finish" => pc[l] = "finish"
          /\ \A l \in Loops, c \in Conns : /\ InsertedBy(l, c) => InsertedBy(l, c)'
                                           /\ ShutBy(l, c) => ShutBy(l, c)'
      BY <1>g, <1>t DEF Go, TypeOK, InsertedBy, ShutBy, ThreadIds
    <2> QED  BY <2>1, <1>g, OpenKept
  <1>1. ASSUME NEW r \in Runners, RunRefused(r) \/ RunNotListening(r) PROVE OpenInv'
    <2>1. CASE RunRefused(r)
      BY <2>1, <1>s DEF RunRefused, conns
    <2>2. CASE RunNotListening(r)
      BY <2>2, <1>s DEF RunNotListening, conns
    <2> QED  BY <1>1, <2>1, <2>2
  <1>2. ASSUME NEW r \in Runners, Run(r) PROVE OpenInv'
    <2>1. UNCHANGED <<sock, pool, cur>> /\ ~stopped'
      BY <1>2 DEF Run, conns
    <2>2. \A l \in Loops : pc[l] = "out" /\ pc'[l] = "poll"
      BY <1>2, ThreadsDisjoint DEF Run, MayRun, ThreadIds
    <2> QED  BY <2>1, <2>2, OpenKept DEF InsertedBy, ShutBy
  <1>3. ASSUME NEW r \in Runners, RunReturns(r) PROVE OpenInv'
    BY <1>3, <1>g, ThreadsDisjoint DEF RunReturns, conns, lifecycle, ThreadIds
  <1>4. ASSUME NEW l \in Loops, LeaveLoop(l) \/ OnSignal(l) PROVE OpenInv'
    <2>1. UNCHANGED <<sock, pool, stopped>> /\ pc[l] = "poll" /\ l \in ThreadIds
      BY <1>4 DEF LeaveLoop, OnSignal, Polling, conns, lifecycle, ThreadIds
    <2>2. \E at \in {"out", "close"} : Go(l, at, NULL)
      BY <1>4 DEF LeaveLoop, OnSignal
    <2> QED  BY <2>1, <2>2, <1>g
  <1>5. ASSUME NEW l \in Loops, NEW c \in Conns, HandlerStep(l) \/ ConnHandler(l, c) PROVE OpenInv'
    BY <1>5, OpenLoopStep
  <1>c. ASSUME NEW l \in Loops, HandlerStep(l) PROVE \E c \in Conns : TRUE
    <2>1. pc[l] \in UsingSteps \cup ClosingSteps /\ l \in ThreadIds
      BY <1>c DEF HandlerStep, PoolInsert, ConnectionStart, QueuePush, PoolErase,
                  ConnectionClose, UsingSteps, ClosingSteps, ThreadIds
    <2> QED  BY <2>1, <1>t DEF TypeOK
  <1>6. ASSUME NEW t \in Apps \cup Loops, StopStep(t) PROVE OpenInv'
    BY <1>6, OpenStopStep DEF SignalsOnly
  <1>7. ASSUME NEW w \in Workers, WorkerStep(w) PROVE OpenInv'
    <2>1. UNCHANGED <<sock, pool, stopped>> /\ w \in ThreadIds /\ w \notin Loops
      BY <1>7, ThreadsDisjoint DEF WorkerStep, Pop, PassNull, Handle, conns, lifecycle, ThreadIds
    <2>2. \E at, x : Go(w, at, x)
      BY <1>7 DEF WorkerStep, Pop, PassNull, Handle
    <2> QED  BY <2>1, <2>2, <1>g
  <1>8. CASE Signal \/ (\E l \in Loops : OnAcceptAborted(l)) \/ (\E c \in Conns : Client(c))
             \/ UNCHANGED vars
    <2>1. UNCHANGED <<sock, pool, thread, stopped>>
      BY <1>8 DEF Signal, OnAcceptAborted, Client, ClientConnects, ClientSends, ClientReceives,
                  ClientCloses, vars, conns, lifecycle
    <2> QED  BY <2>1, <1>s
  <1> QED  BY <1>1, <1>2, <1>3, <1>4, <1>5, <1>c, <1>6, <1>7, <1>8 DEF Next, SignalsOnly

\* server.h:71, for one loop thread and a server that its signal handler
\* stops: when the loop of a stopped server has ended, no connection is open,
\* after any number of runs.
THEOREM StopAlwaysClosesAll == ASSUME OneLoop, SignalsOnly PROVE Spec => []StopClosesAll
  <1>1. Init => OwnerInv /\ OpenInv
    <2>1. Init => OpenInv
      BY ThreadsDisjoint DEF Init, OpenInv, Owned, NoneOpen, ThreadIds
    <2> QED  BY <2>1, TypeInit, OwnerInit DEF OwnerInv
  <1>2. OwnerInv /\ OpenInv /\ [Next]_vars => (OwnerInv /\ OpenInv)'
    BY TypeStep, OwnerStep, OpenStep DEF OwnerInv
  <1>3. OpenInv => StopClosesAll
    BY DEF OpenInv, NoneOpen, StopClosesAll
  <1> QED  BY <1>1, <1>2, <1>3, PTL DEF Spec
=============================================================================
