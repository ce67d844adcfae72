------------------------- MODULE MessageQueueProofs -------------------------
(***************************************************************************)
(* Theorems about MessageQueue, for any finite sets of workers and of      *)
(* pushers and any number of pushes.                                       *)
(***************************************************************************)
EXTENDS MessageQueue, FiniteSetTheorems, TLAPS

Messages == Pushers \cup {NULL}

---------------------------------------------------------------------------
(* Sequences: what Append and Tail do to the places of the null message.   *)

LEMMA AppendPlaces ==
    ASSUME NEW S, NEW l \in Seq(S), NEW m \in S
    PROVE  /\ Append(l, m) \in Seq(S)
           /\ Len(Append(l, m)) = Len(l) + 1 /\ Len(l) \in Nat
           /\ \A i \in 1..Len(l) : Append(l, m)[i] = l[i]
           /\ Append(l, m)[Len(l) + 1] = m
  OBVIOUS

LEMMA TailPlaces ==
    ASSUME NEW S, NEW l \in Seq(S), l # <<>>
    PROVE  /\ Tail(l) \in Seq(S) /\ Head(l) = l[1] /\ Head(l) \in S
           /\ Len(Tail(l)) = Len(l) - 1 /\ Len(l) \in Nat \ {0}
           /\ \A i \in 1..Len(l) - 1 : Tail(l)[i] = l[i + 1]
  OBVIOUS

---------------------------------------------------------------------------
(* Types, and only a worker that calls for a message is blocked.           *)

LEMMA TypeInit == Init => TypeOK
  BY QueueThreads DEF Init, TypeOK, AllThreads

LEMMA TypeStep == TypeOK /\ [Next]_vars => TypeOK'
  <1> SUFFICES ASSUME TypeOK, [Next]_vars PROVE TypeOK'
    OBVIOUS
  <1> USE QueueThreads
  <1>1. CASE UNCHANGED vars
    BY <1>1 DEF TypeOK, vars
  <1>2. ASSUME NEW p \in Pushers, Push(p) PROVE TypeOK'
    <2>1. message_list' \in Seq(Messages)
      BY <1>2, AppendPlaces DEF Push, PushBack, TypeOK, Messages
    <2>2. QED
      BY <1>2, <2>1 DEF Push, PushBack, TypeOK, Messages, AllThreads
  <1>3. ASSUME NEW p \in Pushers, PushNotify(p) PROVE TypeOK'
    BY <1>3 DEF PushNotify, NotifyOne, TypeOK, AllThreads
  <1>4. ASSUME NEW w \in Workers, PopOrWait(w) PROVE TypeOK'
    <2>1. message_list' \in Seq(Messages)
      BY <1>4, TailPlaces DEF PopOrWait, TypeOK, Messages
    <2>2. QED
      BY <1>4, <2>1 DEF PopOrWait, TypeOK, Messages, AllThreads
  <1>5. ASSUME NEW w \in Workers, Wait(w) PROVE TypeOK'
    BY <1>5 DEF Wait, TypeOK
  <1>6. ASSUME NEW w \in Workers, PassNull(w) PROVE TypeOK'
    <2>1. message_list' \in Seq(Messages)
      BY <1>6, AppendPlaces DEF PassNull, PushBack, TypeOK, Messages
    <2>2. QED
      BY <1>6, <2>1 DEF PassNull, PushBack, TypeOK, Messages, AllThreads
  <1>7. ASSUME NEW w \in Workers, ExitWorker(w) PROVE TypeOK'
    BY <1>7 DEF ExitWorker, NotifyOne, TypeOK, AllThreads
  <1>8. ASSUME NEW w \in Workers, SpuriousWakeup(w) PROVE TypeOK'
    BY <1>8 DEF SpuriousWakeup, TypeOK
  <1>9. CASE PushNull
    <2>1. message_list' \in Seq(Messages)
      BY <1>9, AppendPlaces DEF PushNull, PushBack, TypeOK, Messages
    <2>2. QED
      BY <1>9, <2>1 DEF PushNull, PushBack, TypeOK, Messages, AllThreads
  <1>10. CASE NotifyNull
    BY <1>10 DEF NotifyNull, NotifyOne, TypeOK, AllThreads
  <1>11. CASE CheckSize
    BY <1>11 DEF CheckSize, TypeOK, AllThreads
  <1>12. CASE Clear
    BY <1>12 DEF Clear, TypeOK, AllThreads
  <1>13. CASE Drain
    BY <1>13 DEF Drain, TypeOK, AllThreads
  <1>14. QED
    BY <1>1, <1>2, <1>3, <1>4, <1>5, <1>6, <1>7, <1>8, <1>9, <1>10, <1>11, <1>12, <1>13
       DEF Next, WorkerStep, StopStep

\* queue.h: the list holds messages, and only workers inside PopOrWait() are
\* blocked in not_empty_cv_.
THEOREM TypeCorrect == Spec => []TypeOK
  BY TypeInit, TypeStep, PTL DEF Spec

---------------------------------------------------------------------------
(* The queue is a WorkQueue.                                               *)

calling == {w \in Workers : pc[w] = "call"}

LEMMA QueueStep == TypeOK /\ [Next]_vars => [WQ!Next]_<<message_list, calling>>
  <1> SUFFICES ASSUME TypeOK, [Next]_vars
               PROVE  WQ!Next \/ UNCHANGED <<message_list, calling>>
    BY DEF calling
  <1> USE QueueThreads
  <1>1. CASE UNCHANGED vars
    BY <1>1 DEF vars, calling
  <1>2. ASSUME NEW p \in Pushers, Push(p) PROVE WQ!Put(p) /\ p \in Messages
    BY <1>2 DEF Push, PushBack, WQ!Put, TypeOK, AllThreads, Messages
  <1>3. ASSUME NEW p \in Pushers, PushNotify(p) PROVE UNCHANGED <<message_list, calling>>
    BY <1>3 DEF PushNotify, NotifyOne, TypeOK, AllThreads, calling
  <1>4. ASSUME NEW w \in Workers, PopOrWait(w) PROVE WQ!Take(w)
    BY <1>4 DEF PopOrWait, WQ!Take, TypeOK, AllThreads
  <1>5. ASSUME NEW w \in Workers, Wait(w) \/ SpuriousWakeup(w)
        PROVE  UNCHANGED <<message_list, calling>>
    BY <1>5 DEF Wait, SpuriousWakeup, calling
  <1>6. ASSUME NEW w \in Workers, PassNull(w) PROVE WQ!Put(NULL) /\ NULL \in Messages
    BY <1>6 DEF PassNull, PushBack, WQ!Put, TypeOK, AllThreads, Messages
  <1>7. ASSUME NEW w \in Workers, ExitWorker(w) PROVE UNCHANGED <<message_list, calling>>
    BY <1>7 DEF ExitWorker, NotifyOne, TypeOK, AllThreads, calling
  <1>8. CASE PushNull
    <2>1. WQ!Put(NULL) /\ NULL \in Messages
      BY <1>8 DEF PushNull, PushBack, WQ!Put, TypeOK, AllThreads, Messages
    <2>2. QED
      BY <2>1 DEF WQ!Next, Messages
  <1>9. CASE CheckSize \/ NotifyNull
    BY <1>9 DEF CheckSize, NotifyNull, NotifyOne, TypeOK, AllThreads, calling
  <1>10. CASE Clear \/ Drain
    <2>1. WQ!Empty
      BY <1>10 DEF Clear, Drain, WQ!Empty, TypeOK, AllThreads
    <2>2. QED
      BY <2>1 DEF WQ!Next
  <1>11. CASE \E p \in Pushers : Push(p) \/ PushNotify(p)
    BY <1>2, <1>3, <1>11 DEF WQ!Next, Messages
  <1>12. CASE \E w \in Workers : WorkerStep(w) \/ SpuriousWakeup(w)
    BY <1>4, <1>5, <1>6, <1>7, <1>12 DEF WorkerStep, WQ!Next, WQ!TakeSome, Messages
  <1>13. QED
    BY <1>1, <1>8, <1>9, <1>10, <1>11, <1>12 DEF Next, StopStep

\* queue.h keeps the promise of WorkQueue in every step: first in, first out,
\* nothing is taken twice, and a worker leaves PopOrWait() with a message only.
THEOREM QueueIsWorkQueue == Spec => WQ!Init /\ [][WQ!Next]_<<message_list, calling>>
  <1>1. Init => WQ!Init
    BY QueueThreads DEF Init, WQ!Init
  <1>2. QED
    BY <1>1, TypeCorrect, QueueStep, PTL DEF Spec

---------------------------------------------------------------------------
(* One null message.                                                       *)

LEMMA NullInit == Init => OneNull
  BY QueueThreads DEF Init, OneNull, NullsInList, NullsInHand, AllThreads

\* A message that is not the null message leaves the null messages alone, and
\* the null message is one more.
LEMMA NullsAfterPush ==
    ASSUME TypeOK, NEW m \in Messages, message_list' = Append(message_list, m)
    PROVE  NullsInList' = IF m = NULL THEN NullsInList \cup {Len(message_list) + 1}
                                      ELSE NullsInList
  BY AppendPlaces DEF TypeOK, Messages, NullsInList

LEMMA NullStep == TypeOK /\ TypeOK' /\ OneNull /\ [Next]_vars => OneNull'
  <1> SUFFICES ASSUME TypeOK, TypeOK', OneNull, [Next]_vars PROVE OneNull'
    OBVIOUS
  <1> USE QueueThreads
  <1>1. CASE UNCHANGED vars
    BY <1>1 DEF OneNull, NullsInList, NullsInHand, vars
  <1>2. ASSUME NEW p \in Pushers, Push(p) PROVE OneNull'
    <2>1. NullsInList' = NullsInList
      BY <1>2, NullsAfterPush DEF Push, PushBack, Messages
    <2>2. NullsInHand' = NullsInHand /\ pc'[Stopper] = pc[Stopper]
      BY <1>2 DEF Push, PushBack, TypeOK, AllThreads, NullsInHand
    <2>3. Len(message_list') = Len(message_list) + 1 /\ Len(message_list) \in Nat
      BY <1>2, AppendPlaces DEF Push, PushBack, TypeOK
    <2>4. QED
      BY <2>1, <2>2, <2>3 DEF OneNull
  <1>3. ASSUME NEW p \in Pushers, PushNotify(p) PROVE OneNull'
    BY <1>3 DEF PushNotify, NotifyOne, TypeOK, AllThreads, OneNull, NullsInList, NullsInHand
  <1>4. ASSUME NEW w \in Workers, PopOrWait(w) PROVE OneNull'
    <2>1. pc'[Stopper] = pc[Stopper]
      BY <1>4 DEF PopOrWait, TypeOK, AllThreads
    <2>2. CASE Head(message_list) = NULL
      <3>1. 1 \in NullsInList
        BY <1>4, <2>2, TailPlaces DEF PopOrWait, TypeOK, NullsInList
      <3>2. NullsInList = {1} /\ NullsInHand = {} /\ pc[Stopper] \in {"notify", "join"}
        BY <3>1 DEF OneNull
      <3>3. NullsInList' = {}
        BY <1>4, <3>2, TailPlaces DEF PopOrWait, TypeOK, NullsInList
      <3>4. NullsInHand' = {w}
        BY <1>4, <2>2, <3>2 DEF PopOrWait, TypeOK, AllThreads, NullsInHand
      <3>5. QED
        BY <2>1, <3>2, <3>3, <3>4 DEF OneNull
    <2>3. CASE Head(message_list) # NULL
      <3>1. NullsInHand' = NullsInHand
        BY <1>4, <2>3 DEF PopOrWait, TypeOK, AllThreads, NullsInHand
      <3>2. \A i \in Int : i \in NullsInList' <=> i + 1 \in NullsInList
        BY <1>4, <2>3, TailPlaces DEF PopOrWait, TypeOK, NullsInList
      <3>3. NullsInList \subseteq 1..Len(message_list) /\ Len(message_list) \in Nat
        BY DEF NullsInList, TypeOK
      <3>4. 1 \notin NullsInList /\ Len(message_list') = Len(message_list) - 1
        BY <1>4, <2>3, TailPlaces DEF PopOrWait, TypeOK, NullsInList
      <3>5. NullsInList' \subseteq 1..Len(message_list')
        BY DEF NullsInList
      <3>6. ASSUME NullsInList = {} PROVE NullsInList' = {}
        BY <3>2, <3>4, <3>5, <3>6, <3>3
      <3>7. ASSUME NEW i \in 1..Len(message_list), NullsInList = {i}
            PROVE  i - 1 \in 1..Len(message_list') /\ NullsInList' = {i - 1}
        <4>1. i \in Int /\ i # 1 /\ Len(message_list') \in Int
          BY <3>3, <3>4, <3>7
        <4>2. i - 1 \in 1..Len(message_list')
          BY <3>3, <3>4, <4>1
        <4>3. \A j \in Int : j \in NullsInList' <=> j = i - 1
          BY <3>2, <3>7, <4>1
        <4>4. NullsInList' \subseteq Int
          BY <3>5, <4>1
        <4>5. i - 1 \in NullsInList' /\ \A j \in NullsInList' : j = i - 1
          BY <4>1, <4>3, <4>4
        <4>6. NullsInList' = {i - 1}
          BY <4>5
        <4>7. QED
          BY <4>2, <4>6
      <3>8. QED
        BY <2>1, <3>1, <3>6, <3>7 DEF OneNull
    <2>4. QED
      BY <2>2, <2>3
  <1>5. ASSUME NEW w \in Workers, Wait(w) \/ SpuriousWakeup(w) PROVE OneNull'
    BY <1>5 DEF Wait, SpuriousWakeup, OneNull, NullsInList, NullsInHand
  <1>6. ASSUME NEW w \in Workers, PassNull(w) PROVE OneNull'
    <2>1. NullsInHand = {w} /\ NullsInList = {} /\ pc[Stopper] \in {"notify", "join"}
      BY <1>6 DEF PassNull, OneNull, NullsInHand
    <2>2. NullsInHand' = {} /\ pc'[Stopper] = pc[Stopper]
      BY <1>6, <2>1 DEF PassNull, PushBack, TypeOK, AllThreads, NullsInHand
    <2>3. NullsInList' = {Len(message_list) + 1}
      BY <1>6, <2>1, NullsAfterPush DEF PassNull, PushBack, Messages
    <2>4. Len(message_list') = Len(message_list) + 1 /\ Len(message_list) \in Nat
      BY <1>6, AppendPlaces DEF PassNull, PushBack, TypeOK
    <2>5. QED
      BY <2>1, <2>2, <2>3, <2>4 DEF OneNull
  <1>7. ASSUME NEW w \in Workers, ExitWorker(w) PROVE OneNull'
    BY <1>7 DEF ExitWorker, NotifyOne, TypeOK, AllThreads, OneNull, NullsInList, NullsInHand
  <1>8. CASE PushNull
    <2>1. NullsInHand = {} /\ NullsInList = {}
      BY <1>8 DEF PushNull, OneNull
    <2>2. NullsInHand' = {} /\ pc'[Stopper] = "notify"
      BY <1>8, <2>1 DEF PushNull, PushBack, TypeOK, AllThreads, NullsInHand
    <2>3. NullsInList' = {Len(message_list) + 1}
      BY <1>8, <2>1, NullsAfterPush DEF PushNull, PushBack, Messages
    <2>4. Len(message_list') = Len(message_list) + 1 /\ Len(message_list) \in Nat
      BY <1>8, AppendPlaces DEF PushNull, PushBack, TypeOK
    <2>5. QED
      BY <2>2, <2>3, <2>4 DEF OneNull
  <1>9. CASE NotifyNull
    BY <1>9 DEF NotifyNull, NotifyOne, TypeOK, AllThreads, OneNull, NullsInList, NullsInHand
  <1>10. CASE CheckSize
    BY <1>10 DEF CheckSize, TypeOK, AllThreads, OneNull, NullsInList, NullsInHand
  <1>11. CASE Clear
    BY <1>11 DEF Clear, TypeOK, AllThreads, OneNull, NullsInList, NullsInHand
  <1>12. CASE Drain
    BY <1>12 DEF Drain, TypeOK, AllThreads, OneNull, NullsInList, NullsInHand
  <1>13. QED
    BY <1>1, <1>2, <1>3, <1>4, <1>5, <1>6, <1>7, <1>8, <1>9, <1>10, <1>11, <1>12
       DEF Next, WorkerStep, StopStep

\* server.cc:217: the null message that stops the workers is in the list or in
\* the hands of one worker, never twice, and gone when StopWorkers() returns.
THEOREM OneNullAlways == Spec => []OneNull
  BY TypeCorrect, NullInit, NullStep, PTL DEF Spec

---------------------------------------------------------------------------
(* No lost wake-up.                                                        *)

LEMMA SomeThreads ==
    ASSUME NEW S, S \subseteq AllThreads
    PROVE  IsFiniteSet(S) /\ Cardinality(S) \in Nat
  <1>1. IsFiniteSet(Workers \cup Pushers)
    BY QueueThreads, FS_Union
  <1>2. IsFiniteSet(AllThreads)
    BY <1>1, FS_AddElement DEF AllThreads
  <1>3. QED
    BY <1>2, FS_Subset, FS_CardinalityType

LEMMA ThreadsFinite ==
    /\ IsFiniteSet(Takers) /\ IsFiniteSet(Notifiers)
    /\ Cardinality(Takers) \in Nat /\ Cardinality(Notifiers) \in Nat
  <1>1. Takers \subseteq AllThreads /\ Notifiers \subseteq AllThreads
    BY DEF Takers, Notifiers, AllThreads
  <1>2. QED
    BY <1>1, SomeThreads

\* What the actions do to the two sets
LEMMA OneMore ==
    ASSUME NEW S, NEW t, IsFiniteSet(S), t \notin S
    PROVE  Cardinality(S \cup {t}) = Cardinality(S) + 1
  BY FS_AddElement

LEMMA OneLess ==
    ASSUME NEW S, NEW t, IsFiniteSet(S), t \in S
    PROVE  Cardinality(S \ {t}) = Cardinality(S) - 1
  BY FS_RemoveElement

\* A push: one message more, and one thread that is about to notify.
LEMMA PushHasATaker ==
    ASSUME TypeOK, EveryMessageHasATaker, NEW t \in AllThreads, NEW m \in Messages,
           NEW next \in {"notify", "passed"}, PushBack(t, m, next),
           pc[t] \notin {"notify", "passed"}, t \in Workers => pc[t] # "call",
           UNCHANGED waiting
    PROVE  EveryMessageHasATaker'
  <1> USE QueueThreads
  <1>1. Takers' = Takers
    BY DEF PushBack, TypeOK, AllThreads, Takers
  <1>2. Notifiers' = Notifiers \cup {t} /\ t \notin Notifiers
    BY DEF PushBack, TypeOK, Notifiers
  <1>3. Cardinality(Notifiers') = Cardinality(Notifiers) + 1
    BY <1>2, OneMore, ThreadsFinite
  <1>4. Len(message_list') = Len(message_list) + 1 /\ Len(message_list) \in Nat
    BY AppendPlaces DEF PushBack, TypeOK, Messages
  <1>5. QED
    BY <1>1, <1>3, <1>4, ThreadsFinite DEF EveryMessageHasATaker

\* notify_one(): the thread that notified hands its message to one that waited.
LEMMA NotifyHasATaker ==
    ASSUME TypeOK, EveryMessageHasATaker, NEW t \in AllThreads, NEW next,
           next \in {"call", "exited", "join"}, NotifyOne(t, next),
           pc[t] \in {"notify", "passed"}, t \in Workers => next = "exited"
    PROVE  EveryMessageHasATaker'
  <1> USE QueueThreads
  <1>1. CASE waiting = {}
    BY <1>1 DEF NotifyOne, EveryMessageHasATaker
  <1>2. CASE waiting # {}
    <2>1. PICK w \in waiting : waiting' = waiting \ {w}
      BY <1>2 DEF NotifyOne
    <2>2. w \in Workers /\ pc[w] = "call" /\ w # t /\ w \notin Takers
      BY <2>1 DEF TypeOK, Takers
    <2>3. Takers' = Takers \cup {w}
      BY <2>1, <2>2 DEF NotifyOne, TypeOK, AllThreads, Takers
    <2>4. Notifiers' = Notifiers \ {t} /\ t \in Notifiers
      BY DEF NotifyOne, TypeOK, Notifiers
    <2>5. /\ Cardinality(Takers') = Cardinality(Takers) + 1
          /\ Cardinality(Notifiers') = Cardinality(Notifiers) - 1
      BY <2>2, <2>3, <2>4, OneMore, OneLess, ThreadsFinite
    <2>6. Len(message_list) \in Nat /\ message_list' = message_list
      BY DEF TypeOK, NotifyOne
    <2>7. QED
      BY <1>2, <2>5, <2>6, ThreadsFinite DEF EveryMessageHasATaker
  <1>3. QED
    BY <1>1, <1>2

\* The list is empty: nothing to take.
LEMMA NothingToTake ==
    ASSUME message_list' = <<>>
    PROVE  EveryMessageHasATaker'
  <1>1. Takers' \subseteq AllThreads /\ Notifiers' \subseteq AllThreads
    BY DEF Takers, Notifiers, AllThreads
  <1>2. Cardinality(Takers') \in Nat /\ Cardinality(Notifiers') \in Nat
    BY <1>1, SomeThreads
  <1>3. QED
    BY <1>2 DEF EveryMessageHasATaker

LEMMA TakerInit == Init => EveryMessageHasATaker
  BY DEF Init, EveryMessageHasATaker

LEMMA TakerStep ==
    TypeOK /\ TypeOK' /\ EveryMessageHasATaker /\ [Next]_vars => EveryMessageHasATaker'
  <1> SUFFICES ASSUME TypeOK, TypeOK', EveryMessageHasATaker, [Next]_vars
               PROVE  EveryMessageHasATaker'
    OBVIOUS
  <1> USE QueueThreads
  <1>1. CASE UNCHANGED vars
    BY <1>1 DEF EveryMessageHasATaker, Takers, Notifiers, vars
  <1>2. ASSUME NEW p \in Pushers, Push(p) PROVE EveryMessageHasATaker'
    BY <1>2, PushHasATaker DEF Push, AllThreads, Messages
  <1>3. ASSUME NEW p \in Pushers, PushNotify(p) PROVE EveryMessageHasATaker'
    BY <1>3, NotifyHasATaker DEF PushNotify, AllThreads
  <1>4. ASSUME NEW w \in Workers, PopOrWait(w) PROVE EveryMessageHasATaker'
    <2>1. Len(message_list') = Len(message_list) - 1 /\ Len(message_list) \in Nat
      BY <1>4, TailPlaces DEF PopOrWait, TypeOK
    <2>2. w \in Takers /\ waiting' = waiting
      BY <1>4 DEF PopOrWait, Takers
    <2>3. Takers' = Takers \/ Takers' = Takers \ {w}
      BY <1>4 DEF PopOrWait, TypeOK, AllThreads, Takers
    <2>4. Notifiers' = Notifiers
      BY <1>4 DEF PopOrWait, TypeOK, AllThreads, Notifiers
    <2>5. Cardinality(Takers') >= Cardinality(Takers) - 1
      BY <2>2, <2>3, OneLess, ThreadsFinite
    <2>6. Cardinality(Takers') \in Nat
      BY <2>3, FS_RemoveElement, FS_CardinalityType, ThreadsFinite
    <2>7. QED
      BY <2>1, <2>2, <2>4, <2>5, <2>6, ThreadsFinite DEF EveryMessageHasATaker
  <1>5. ASSUME NEW w \in Workers, Wait(w) PROVE EveryMessageHasATaker'
    BY <1>5, NothingToTake DEF Wait
  <1>6. ASSUME NEW w \in Workers, PassNull(w) PROVE EveryMessageHasATaker'
    BY <1>6, PushHasATaker DEF PassNull, AllThreads, Messages
  <1>7. ASSUME NEW w \in Workers, ExitWorker(w) PROVE EveryMessageHasATaker'
    BY <1>7, NotifyHasATaker DEF ExitWorker, AllThreads
  <1>8. ASSUME NEW w \in Workers, SpuriousWakeup(w) PROVE EveryMessageHasATaker'
    <2>1. Takers' = Takers \cup {w} /\ w \notin Takers /\ Notifiers' = Notifiers
      BY <1>8 DEF SpuriousWakeup, TypeOK, Takers, Notifiers
    <2>2. Cardinality(Takers') = Cardinality(Takers) + 1
      BY <2>1, OneMore, ThreadsFinite
    <2>3. waiting # {} /\ message_list' = message_list /\ Len(message_list) \in Nat
      BY <1>8 DEF SpuriousWakeup, TypeOK
    <2>4. QED
      BY <2>1, <2>2, <2>3, ThreadsFinite DEF EveryMessageHasATaker
  <1>9. CASE PushNull
    BY <1>9, PushHasATaker DEF PushNull, AllThreads, Messages
  <1>10. CASE NotifyNull
    BY <1>10, NotifyHasATaker DEF NotifyNull, AllThreads
  <1>11. CASE CheckSize
    <2>1. Takers' = Takers /\ Notifiers' = Notifiers
      BY <1>11 DEF CheckSize, TypeOK, AllThreads, Takers, Notifiers
    <2>2. QED
      BY <1>11, <2>1 DEF CheckSize, EveryMessageHasATaker
  <1>12. CASE Clear \/ Drain
    BY <1>12, NothingToTake DEF Clear, Drain
  <1>13. QED
    BY <1>1, <1>2, <1>3, <1>4, <1>5, <1>6, <1>7, <1>8, <1>9, <1>10, <1>11, <1>12
       DEF Next, WorkerStep, StopStep

\* queue.h:54: with push_back() and notify_one() apart, any number of pushers
\* and workers lose no wake-up.
THEOREM NoLostWakeup == Spec => []EveryMessageHasATaker
  BY TypeCorrect, TakerInit, TakerStep, PTL DEF Spec

=============================================================================
