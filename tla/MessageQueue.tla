---------------------------- MODULE MessageQueue ----------------------------
(***************************************************************************)
(* queue.h at the grain of its mutex and its condition variable, under the *)
(* calls the server makes: pushers (loop threads in OnRead, StopWorkers)   *)
(* call Push(), each worker is WorkerRoutine() around PopOrWait() and      *)
(* passes the null message on before it exits, the stopper may Clear()     *)
(* before it pushes the null message.  WebccServer takes the queue to be   *)
(* a sequence a worker can pop from whenever it is not empty, which is     *)
(* WorkQueue; this module shows that no wake-up is lost, so that it is.    *)
(***************************************************************************)
EXTENDS Naturals, Sequences, FiniteSets

CONSTANTS
    Workers, Pushers, \* the threads
    Stopper,          \* the thread in StopWorkers()
    NULL,             \* the null message; the others are the pushers' names
    MaxPushes         \* bound: pushes of each pusher

ASSUME QueueThreads == NULL \notin Pushers /\ Stopper \notin Workers \cup Pushers
                       /\ Workers \cap Pushers = {} /\ MaxPushes \in Nat
                       /\ IsFiniteSet(Workers) /\ IsFiniteSet(Pushers)

VARIABLES
    message_list,  \* message_list_
    waiting,       \* the threads blocked in not_empty_cv_
    pc,            \* where each thread is
    pushes         \* pushes so far

vars == <<message_list, waiting, pc, pushes>>
AllThreads == Workers \cup Pushers \cup {Stopper}

Init ==
    /\ message_list = <<>> /\ waiting = {}
    /\ pc = [t \in AllThreads |-> IF t = Stopper THEN "size" ELSE "call"]
    /\ pushes = [p \in Pushers |-> 0]

\* push_back() with the mutex held; notify_one() comes after its release.
PushBack(t, m, next) ==
    /\ message_list' = Append(message_list, m)
    /\ pc' = [pc EXCEPT ![t] = next]

\* notify_one() wakes one of the threads that wait, if any does; from there
\* the thread calls for the mutex again.
NotifyOne(t, next) ==
    /\ IF waiting = {} THEN UNCHANGED waiting
                       ELSE \E w \in waiting : waiting' = waiting \ {w}
    /\ pc' = [pc EXCEPT ![t] = next]
    /\ UNCHANGED <<message_list, pushes>>

Push(p) ==
    /\ pc[p] = "call" /\ pushes[p] < MaxPushes
    /\ PushBack(p, p, "notify")
    /\ pushes' = [pushes EXCEPT ![p] = @ + 1]
    /\ UNCHANGED waiting

\* Mutant: a push that is not followed by notify_one().
PushNotifyNot(p) ==
    /\ pc[p] = "notify"
    /\ pc' = [pc EXCEPT ![p] = "call"]
    /\ UNCHANGED <<message_list, waiting, pushes>>

PushNotify(p) == pc[p] = "notify" /\ NotifyOne(p, "call")

\* Mutant: front() without pop_front().
PopPeek(w) ==
    /\ pc[w] = "call" /\ w \notin waiting /\ message_list # <<>>
    /\ pc' = [pc EXCEPT ![w] = IF Head(message_list) = NULL THEN "pass" ELSE "call"]
    /\ UNCHANGED <<message_list, waiting, pushes>>

\* PopOrWait() with the mutex: the predicate of wait() holds, so pop...
PopOrWait(w) ==
    /\ pc[w] = "call" /\ w \notin waiting /\ message_list # <<>>
    /\ message_list' = Tail(message_list)
    /\ pc' = [pc EXCEPT ![w] = IF Head(message_list) = NULL THEN "pass" ELSE "call"]
    /\ UNCHANGED <<waiting, pushes>>

\* ... or it does not: release the mutex and block, in one step.
Wait(w) ==
    /\ pc[w] = "call" /\ w \notin waiting /\ message_list = <<>>
    /\ waiting' = waiting \cup {w}
    /\ UNCHANGED <<message_list, pc, pushes>>

SpuriousWakeup(w) ==
    /\ waiting' = waiting \ {w} /\ w \in waiting
    /\ UNCHANGED <<message_list, pc, pushes>>

\* Mutant: a worker exits without passing the null message on.
PassNullKept(w) ==
    /\ pc[w] = "pass"
    /\ pc' = [pc EXCEPT ![w] = "passed"]
    /\ UNCHANGED <<message_list, waiting, pushes>>

\* WorkerRoutine() on a null message: push another, exit.
PassNull(w) ==
    /\ pc[w] = "pass"
    /\ PushBack(w, NULL, "passed")
    /\ UNCHANGED <<waiting, pushes>>

ExitWorker(w) == pc[w] = "passed" /\ NotifyOne(w, "exited")

\* StopWorkers(): Size(), Clear() and Push() take the mutex one by one.
CheckSize ==
    /\ pc[Stopper] = "size"
    /\ pc' = [pc EXCEPT ![Stopper] = IF message_list = <<>> THEN "null" ELSE "clear"]
    /\ UNCHANGED <<message_list, waiting, pushes>>

Clear ==
    /\ pc[Stopper] = "clear"
    /\ message_list' = <<>>
    /\ pc' = [pc EXCEPT ![Stopper] = "null"]
    /\ UNCHANGED <<waiting, pushes>>

PushNull ==
    /\ pc[Stopper] = "null"
    /\ PushBack(Stopper, NULL, "notify")
    /\ UNCHANGED <<waiting, pushes>>

NotifyNull == pc[Stopper] = "notify" /\ NotifyOne(Stopper, "join")

\* Mutant: StopWorkers() clears but once, before the null message.
DrainNot ==
    /\ pc[Stopper] = "join" /\ \A w \in Workers : pc[w] = "exited"
    /\ pc' = [pc EXCEPT ![Stopper] = "stopped"]
    /\ UNCHANGED <<message_list, waiting, pushes>>

\* join() of every worker, then the last Clear().
Drain ==
    /\ pc[Stopper] = "join" /\ \A w \in Workers : pc[w] = "exited"
    /\ message_list' = <<>>
    /\ pc' = [pc EXCEPT ![Stopper] = "stopped"]
    /\ UNCHANGED <<waiting, pushes>>

WorkerStep(w) == PopOrWait(w) \/ Wait(w) \/ PassNull(w) \/ ExitWorker(w)
StopStep == CheckSize \/ Clear \/ PushNull \/ NotifyNull \/ Drain

Next == \/ \E p \in Pushers : Push(p) \/ PushNotify(p)
        \/ \E w \in Workers : WorkerStep(w) \/ SpuriousWakeup(w)
        \/ StopStep

\* Every thread that is not blocked goes on; that Stop() is called is not
\* assumed.
Spec == /\ Init /\ [][Next]_vars
        /\ \A w \in Workers : WF_vars(WorkerStep(w))
        /\ \A p \in Pushers : WF_vars(PushNotify(p))
        /\ WF_vars(Clear \/ PushNull \/ NotifyNull \/ Drain)

---------------------------------------------------------------------------
TypeOK ==
    /\ message_list \in Seq(Pushers \cup {NULL})
    /\ waiting \subseteq {w \in Workers : pc[w] = "call"}
    /\ pc \in [AllThreads -> {"call", "notify", "pass", "passed", "exited", "size",
                              "clear", "null", "join", "stopped"}]
    /\ pushes \in [Pushers -> Nat]

\* No lost wake-up: while a worker is blocked, each message in the list has a
\* thread on its way to it, a worker that will look at the list again or a
\* pusher about to notify.
Takers    == {w \in Workers \ waiting : pc[w] = "call"}
Notifiers == {t \in AllThreads : pc[t] \in {"notify", "passed"}}
EveryMessageHasATaker ==
    waiting # {} =>
        Len(message_list) <= Cardinality(Takers) + Cardinality(Notifiers)

\* One null message is in circulation at most: none before StopWorkers()
\* pushes it, one until the last Clear(), in the list or with a worker.
NullsInList == {i \in 1..Len(message_list) : message_list[i] = NULL}
NullsInHand == {w \in Workers : pc[w] = "pass"}
OneNull ==
    IF pc[Stopper] \in {"notify", "join"}
    THEN \/ NullsInHand = {} /\ \E i \in 1..Len(message_list) : NullsInList = {i}
         \/ NullsInList = {} /\ \E w \in Workers : NullsInHand = {w}
    ELSE NullsInList = {} /\ NullsInHand = {}

\* The promise of WorkQueue: first in, first out, nothing taken twice, and no
\* message left in the list while a worker is in PopOrWait().
WQ == INSTANCE WorkQueue WITH
        Messages <- Pushers \cup {NULL}, Callers <- Workers,
        list <- message_list, calling <- {w \in Workers : pc[w] = "call"}
ImplementsQueue == WQ!Spec

\* StopWorkers() ends: the null message gets to every worker.
WorkersStop == pc[Stopper] # "size" ~> pc[Stopper] = "stopped"
=============================================================================
