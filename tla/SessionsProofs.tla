--------------------------- MODULE SessionsProofs ---------------------------
(***************************************************************************)
(* Theorems about Sessions, for any number of browsers, workers, users,    *)
(* requests and restarts, and any Timeout.                                 *)
(***************************************************************************)
EXTENDS Sessions, TLAPS

---------------------------------------------------------------------------
(* Types, and the lock of the table: its holder is the worker that inserts. *)

LEMMA RequestOfIdle == NoRequest \in Ops
  BY DEF NoRequest, Ops

LEMMA NameOfRequest == \A r \in Ops : r.name \in Users \cup {Nobody}
  BY DEF Ops

LEMMA NameOfLogin == \A r \in Ops : r.op = "login" => r.name \in Users
  BY DEF Ops

LEMMA TypeInit == Init => TypeOK
  <1> SUFFICES ASSUME Init PROVE TypeOK
    OBVIOUS
  <1>1. 0 \in 0..MaxRequests /\ 0 \in 0..Timeout + 1
    BY BoundsAreNat
  <1>2. QED
    BY <1>1, RequestOfIdle DEF Init, TypeOK

\* A step of worker w to another place keeps the lock's holder where it is.
LEMMA TypeStep == TypeOK /\ [Next]_vars => TypeOK'
  <1> SUFFICES ASSUME TypeOK, [Next]_vars PROVE TypeOK'
    OBVIOUS
  <1> USE BoundsAreNat, NamesDiffer
  <1>0. 0 \in 0..MaxRequests /\ 0 \in 0..Timeout + 1 /\ 0 <= Timeout
    OBVIOUS
  <1>1. CASE UNCHANGED vars
    BY <1>1 DEF TypeOK, vars, table, worker, browser
  <1>2. ASSUME NEW b \in Browsers, NEW w \in Workers, NEW r \in Ops, Send(b, w, r)
        PROVE  TypeOK'
    BY <1>2 DEF Send, At, Go, TypeOK, table, browser
  <1>3. ASSUME NEW w \in Workers, Find(w) PROVE TypeOK'
    BY <1>3 DEF Find, At, Go, TypeOK, table, browser
  <1>4. ASSUME NEW w \in Workers, LockTable(w) PROVE TypeOK'
    BY <1>4 DEF LockTable, At, Go, TypeOK, browser
  <1>5. ASSUME NEW w \in Workers, NewSession(w) PROVE TypeOK'
    <2>1. PICK new \in Ids :
             /\ new > index /\ index' = new /\ live' = live \cup {new}
             /\ count' = [count EXCEPT ![new] = 0] /\ user' = [user EXCEPT ![new] = Nobody]
             /\ id' = [id EXCEPT ![w] = new]
      BY <1>5 DEF NewSession
    <2>2. /\ lock' = NULL /\ pc' = [pc EXCEPT ![w] = "info"] /\ slow' = slow \ {w}
          /\ UNCHANGED <<down, for, request, done, browser, requests, restarts>>
      BY <1>5 DEF NewSession, Go
    <2>3. index' \in 0..MaxRequests /\ \A i \in live' : i <= index'
      BY <2>1 DEF TypeOK, Ids
    <2>4. count' \in [Ids -> 0..Timeout + 1] /\ \A i \in live' : count'[i] <= Timeout
      BY <2>1, <1>0 DEF TypeOK
    <2>5. QED
      BY <2>1, <2>2, <2>3, <2>4 DEF TypeOK, browser
  <1>6. ASSUME NEW w \in Workers, GetSessionInfo(w) PROVE TypeOK'
    <2>1. CASE id[w] \in live
      <3>1. /\ count' = [count EXCEPT ![id[w]] = 0]
            /\ pc' = [pc EXCEPT ![w] = "view"] /\ slow' = slow \ {w} /\ pc[w] = "info"
            /\ UNCHANGED <<live, user, index, lock, for, request, id, done, down>>
            /\ UNCHANGED <<browser, requests, restarts>>
        BY <1>6, <2>1 DEF GetSessionInfo, At, Go
      <3>2. count' \in [Ids -> 0..Timeout + 1] /\ \A i \in live : count'[i] <= Timeout
        BY <3>1, <1>0 DEF TypeOK
      <3>3. pc' \in [Workers -> {"idle", "find", "new", "insert", "info", "view", "reply"}]
        BY <3>1 DEF TypeOK
      <3>4. lock # NULL => pc'[lock] = "insert"
        BY <3>1 DEF TypeOK
      <3>5. QED
        BY <3>1, <3>2, <3>3, <3>4 DEF TypeOK, browser
    <2>2. CASE id[w] \notin live
      BY <1>6, <2>2 DEF GetSessionInfo, Dies, TypeOK, browser, table, worker
    <2>3. QED
      BY <2>1, <2>2
  <1>7. ASSUME NEW w \in Workers, LooksOnly(w) PROVE TypeOK'
    BY <1>7 DEF LooksOnly, At, Go, TypeOK, browser, table
  <1>8. ASSUME NEW w \in Workers, Login(w) PROVE TypeOK'
    <2>1. CASE id[w] \in live
      <3>1. /\ count' = [count EXCEPT ![id[w]] = 0]
            /\ user' = [user EXCEPT ![id[w]] = request[w].name]
            /\ done' = [done EXCEPT ![w] = TRUE]
            /\ pc' = [pc EXCEPT ![w] = "reply"] /\ slow' = slow \ {w} /\ pc[w] = "view"
            /\ UNCHANGED <<live, index, lock, for, request, id, down>>
            /\ UNCHANGED <<browser, requests, restarts>>
        BY <1>8, <2>1 DEF Login, At, Go
      <3>2. count' \in [Ids -> 0..Timeout + 1] /\ \A i \in live : count'[i] <= Timeout
        BY <3>1, <1>0 DEF TypeOK
      <3>3. user' \in [Ids -> Users \cup {Nobody}]
        BY <3>1, NameOfRequest DEF TypeOK
      <3>4. /\ pc' \in [Workers -> {"idle", "find", "new", "insert", "info", "view", "reply"}]
            /\ done' \in [Workers -> BOOLEAN]
        BY <3>1 DEF TypeOK
      <3>5. lock # NULL => pc'[lock] = "insert"
        BY <3>1 DEF TypeOK
      <3>6. QED
        BY <3>1, <3>2, <3>3, <3>4, <3>5 DEF TypeOK, browser
    <2>2. CASE id[w] \notin live
      BY <1>8, <2>2 DEF Login, Dies, TypeOK, browser, table, worker
    <2>3. QED
      BY <2>1, <2>2
  <1>9. ASSUME NEW w \in Workers, Logout(w) PROVE TypeOK'
    BY <1>9 DEF Logout, At, Go, TypeOK, browser
  <1>10. ASSUME NEW w \in Workers, Receive(w) PROVE TypeOK'
    BY <1>10 DEF Receive, Idle, NoRequest, At, Go, TypeOK, table, Ops
  <1>11. ASSUME NEW w \in Workers, Lose(w) PROVE TypeOK'
    BY <1>11 DEF Lose, Idle, NoRequest, At, Go, TypeOK, table, Ops
  <1>12. CASE Tick
    BY <1>12 DEF Tick, TypeOK
  <1>13. CASE Restart
    <2>1. due' \in [Browsers -> Users \cup {Nobody, Unsure}]
      BY <1>13 DEF Restart
    <2>2. /\ count' \in [Ids -> 0..Timeout + 1] /\ user' \in [Ids -> Users \cup {Nobody}]
          /\ index' \in 0..MaxRequests /\ live' = {} /\ lock' = NULL /\ down' = FALSE
      BY <1>13, <1>0 DEF Restart
    <2>3. /\ pc' \in [Workers -> {"idle", "find", "new", "insert", "info", "view", "reply"}]
          /\ for' \in [Workers -> Browsers \cup {NULL}] /\ request' \in [Workers -> Ops]
          /\ id' \in [Workers -> Ids \cup {NULL}] /\ done' \in [Workers -> BOOLEAN]
          /\ slow' = {}
      BY <1>13, RequestOfIdle DEF Restart
    <2>4. restarts' \in Nat /\ carried' \subseteq Browsers \X Ids /\ UNCHANGED <<cookie, requests>>
      BY <1>13 DEF Restart, TypeOK
    <2>5. QED
      BY <2>1, <2>2, <2>3, <2>4 DEF TypeOK
  <1>14. QED
    BY <1>1, <1>2, <1>3, <1>4, <1>5, <1>6, <1>7, <1>8, <1>9, <1>10, <1>11, <1>12, <1>13
       DEF Next, WorkerStep

\* The table of sessions, the workers and the browsers keep their types, ids
\* in the table are below sessionIndex, and only a worker that inserts holds
\* m_mutexRW.
THEOREM TypeCorrect == Spec => []TypeOK
  BY TypeInit, TypeStep, PTL DEF Spec

---------------------------------------------------------------------------
(* Who may share a session.  OneBrowserPerSession is not inductive: a new  *)
(* id could be one that a browser holds for a session that has expired.    *)
(* It is not, since the ids a browser got in this life of the process are  *)
(* not above sessionIndex, even those that are no longer in the table.     *)

Holds(b, i) == cookie[b] = i \/ \E w \in Workers : for[w] = b /\ id[w] = i

\* Its id comes from this life of the process.
Own(b, i) == Holds(b, i) /\ <<b, i>> \notin carried

IdsBelowIndex == \A b \in Browsers, i \in Ids : Own(b, i) => i <= index
IdsApart      == \A b, c \in Browsers, i \in Ids : Own(b, i) /\ Own(c, i) => b = c
IdsApartInv   == IdsBelowIndex /\ IdsApart

LEMMA ApartInit == Init => IdsApartInv
  BY NamesDiffer DEF Init, IdsApartInv, IdsBelowIndex, IdsApart, Own, Holds, Ids

\* A step that gives nobody an id keeps both.
LEMMA NothingGained ==
    ASSUME IdsApartInv, index' = index, carried \subseteq carried',
           \A b \in Browsers, i \in Ids : Holds(b, i)' => Holds(b, i)
    PROVE  IdsApartInv'
  <1>1. \A b \in Browsers, i \in Ids : Own(b, i)' => Own(b, i)
    BY DEF Own
  <1>2. IdsBelowIndex'
    BY <1>1 DEF IdsApartInv, IdsBelowIndex
  <1>3. IdsApart'
    BY <1>1 DEF IdsApartInv, IdsApart
  <1>4. QED
    BY <1>2, <1>3 DEF IdsApartInv

LEMMA ApartStep == TypeOK /\ IdsApartInv /\ [Next]_vars => IdsApartInv'
  <1> SUFFICES ASSUME TypeOK, IdsApartInv, [Next]_vars PROVE IdsApartInv'
    OBVIOUS
  <1> USE NamesDiffer
  <1>1. CASE UNCHANGED vars
    BY <1>1, NothingGained DEF vars, table, worker, browser, Holds
  <1>2. ASSUME NEW b \in Browsers, NEW w \in Workers, NEW r \in Ops, Send(b, w, r)
        PROVE  IdsApartInv'
    <2>1. /\ for' = [for EXCEPT ![w] = b] /\ id' = [id EXCEPT ![w] = cookie[b]]
          /\ UNCHANGED <<cookie, carried, index>>
      BY <1>2 DEF Send, browser, table
    <2>2. ASSUME NEW c \in Browsers, NEW i \in Ids, Holds(c, i)' PROVE Holds(c, i)
      BY <2>1, <2>2 DEF Holds, TypeOK
    <2>3. QED
      BY <2>1, <2>2, NothingGained
  <1>3. ASSUME NEW w \in Workers,
               Find(w) \/ LockTable(w) \/ GetSessionInfo(w) \/ LooksOnly(w)
                 \/ Login(w) \/ Logout(w)
        PROVE  IdsApartInv'
    <2>1. UNCHANGED <<for, id, cookie, carried, index>>
      BY <1>3 DEF Find, LockTable, GetSessionInfo, LooksOnly, Login, Logout, Dies,
                  table, worker, browser
    <2>2. QED
      BY <2>1, NothingGained DEF Holds
  <1>4. ASSUME NEW w \in Workers, NewSession(w) PROVE IdsApartInv'
    <2>1. PICK new \in Ids : /\ new > index /\ index' = new
                             /\ id' = [id EXCEPT ![w] = new]
      BY <1>4 DEF NewSession
    <2>2. UNCHANGED <<for, cookie, carried>> /\ index \in Nat
      BY <1>4 DEF NewSession, browser, TypeOK
    <2>3. ASSUME NEW c \in Browsers, NEW i \in Ids, Own(c, i)'
          PROVE  Own(c, i) \/ (i = new /\ c = for[w])
      BY <2>1, <2>2, <2>3 DEF Own, Holds, TypeOK
    <2>4. IdsBelowIndex'
      <3> SUFFICES ASSUME NEW c \in Browsers, NEW i \in Ids, Own(c, i)' PROVE i <= index'
        BY DEF IdsBelowIndex
      <3>1. i \in Int /\ new \in Int /\ index \in Int
        BY <2>2 DEF Ids
      <3>2. CASE Own(c, i)
        <4>1. i <= index
          BY <3>2 DEF IdsApartInv, IdsBelowIndex
        <4>2. QED
          BY <2>1, <3>1, <4>1
      <3>3. CASE i = new
        BY <2>1, <3>1, <3>3
      <3>4. QED
        BY <2>3, <3>2, <3>3
    <2>5. \A c \in Browsers : ~Own(c, new)
      <3> SUFFICES ASSUME NEW c \in Browsers, Own(c, new) PROVE FALSE
        OBVIOUS
      <3>1. new <= index
        BY DEF IdsApartInv, IdsBelowIndex
      <3>2. QED
        BY <2>1, <2>2, <3>1 DEF Ids
    <2>6. IdsApart'
      <3> SUFFICES ASSUME NEW b \in Browsers, NEW c \in Browsers, NEW i \in Ids,
                          Own(b, i)', Own(c, i)'
                   PROVE  b = c
        BY DEF IdsApart
      <3>1. CASE i = new
        BY <2>3, <2>5, <3>1
      <3>2. CASE i # new
        BY <2>3, <3>2 DEF IdsApartInv, IdsApart
      <3>3. QED
        BY <3>1, <3>2
    <2>7. QED
      BY <2>4, <2>6 DEF IdsApartInv
  <1>5. ASSUME NEW w \in Workers, Receive(w) PROVE IdsApartInv'
    <2>1. /\ cookie' = [cookie EXCEPT ![for[w]] = id[w]]
          /\ for' = [for EXCEPT ![w] = NULL] /\ id' = [id EXCEPT ![w] = NULL]
          /\ UNCHANGED <<carried, index>>
      BY <1>5 DEF Receive, Idle, table
    <2>2. ASSUME NEW c \in Browsers, NEW i \in Ids, Holds(c, i)' PROVE Holds(c, i)
      BY <2>1, <2>2 DEF Holds, TypeOK
    <2>3. QED
      BY <2>1, <2>2, NothingGained
  <1>6. ASSUME NEW w \in Workers, Lose(w) PROVE IdsApartInv'
    <2>1. /\ for' = [for EXCEPT ![w] = NULL] /\ id' = [id EXCEPT ![w] = NULL]
          /\ UNCHANGED <<cookie, carried, index>>
      BY <1>6 DEF Lose, Idle, table
    <2>2. ASSUME NEW c \in Browsers, NEW i \in Ids, Holds(c, i)' PROVE Holds(c, i)
      BY <2>1, <2>2 DEF Holds, TypeOK
    <2>3. QED
      BY <2>1, <2>2, NothingGained
  <1>7. CASE Tick
    <2>1. UNCHANGED <<for, id, cookie, carried, index>>
      BY <1>7 DEF Tick
    <2>2. QED
      BY <2>1, NothingGained DEF Holds
  <1>8. CASE Restart
    <2>1. \A b \in Browsers, i \in Ids : ~Own(b, i)'
      BY <1>8 DEF Restart, Own, Holds, Ids
    <2>2. QED
      BY <2>1 DEF IdsApartInv, IdsBelowIndex, IdsApart
  <1>9. QED
    BY <1>1, <1>2, <1>3, <1>4, <1>5, <1>6, <1>7, <1>8 DEF Next, WorkerStep

LEMMA ApartImplies == TypeOK /\ IdsApartInv => OneBrowserPerSession
  BY DEF IdsApartInv, IdsApart, OneBrowserPerSession, HasSession, Own, Holds, TypeOK

\* sessionSupport.h:10: two browsers are never in one session, whatever the
\* workers and the timer do, unless one of them had that id in a cookie from
\* before a restart.
THEOREM SessionsApart == Spec => []OneBrowserPerSession
  <1>1. Spec => []IdsApartInv
    BY TypeCorrect, ApartInit, ApartStep, PTL DEF Spec
  <1>2. QED
    BY <1>1, TypeCorrect, ApartImplies, PTL

---------------------------------------------------------------------------
(* What a browser was told.  While its request is under way, the session   *)
(* it will have has to agree with what the response is going to say.       *)

WorkersInv ==
    /\ \A w \in Workers : pc[w] = "idle" <=> for[w] = NULL
    /\ \A v, w \in Workers : for[v] = for[w] /\ for[v] # NULL => v = w
    /\ \A w \in Workers : done[w] => pc[w] = "reply"
    /\ \A w \in Workers : pc[w] \in {"find", "new", "insert"} => id[w] = cookie[for[w]]

\* What the browser will believe when it gets the response of worker w
Told(w) == IF done[w] THEN request[w].name
           ELSE IF id[w] = cookie[for[w]] THEN due[for[w]] ELSE Nobody

\* In the session i is the name n.
Keeps(i, n) == i \in live /\ n # Unsure => user[i] = n

Waits(b) == \E w \in Workers : for[w] = b

DueInv ==
    carried = {} =>
       /\ \A b \in Browsers : ~Waits(b) => Keeps(cookie[b], due[b])
       /\ \A w \in Workers : pc[w] # "idle" => Keeps(id[w], Told(w))

LEMMA WorkersInit == Init => WorkersInv
  BY DEF Init, WorkersInv

LEMMA WorkersStep == TypeOK /\ WorkersInv /\ [Next]_vars => WorkersInv'
  <1> SUFFICES ASSUME TypeOK, WorkersInv, [Next]_vars PROVE WorkersInv'
    OBVIOUS
  <1> USE NamesDiffer
  <1>1. CASE UNCHANGED vars
    BY <1>1 DEF vars, worker, browser, WorkersInv
  <1>2. ASSUME NEW b \in Browsers, NEW w \in Workers, NEW r \in Ops, Send(b, w, r)
        PROVE  WorkersInv'
    BY <1>2 DEF Send, At, Go, browser, WorkersInv, TypeOK
  <1>3. ASSUME NEW w \in Workers, Find(w) \/ LockTable(w) PROVE WorkersInv'
    BY <1>3 DEF Find, LockTable, At, Go, browser, WorkersInv, TypeOK
  <1>4. ASSUME NEW w \in Workers, NewSession(w) PROVE WorkersInv'
    <2>1. /\ pc[w] = "insert" /\ pc' = [pc EXCEPT ![w] = "info"]
          /\ \A v \in Workers \ {w} : id'[v] = id[v]
          /\ UNCHANGED <<for, done, cookie>>
      BY <1>4 DEF NewSession, At, Go, browser, TypeOK
    <2>2. QED
      BY <2>1 DEF WorkersInv, TypeOK
  <1>5. ASSUME NEW w \in Workers, GetSessionInfo(w) PROVE WorkersInv'
    <2>1. /\ pc[w] = "info" /\ UNCHANGED <<for, done, cookie, id>>
          /\ pc' = pc \/ pc' = [pc EXCEPT ![w] = "view"]
      BY <1>5 DEF GetSessionInfo, Dies, At, Go, browser, worker
    <2>2. QED
      BY <2>1 DEF WorkersInv, TypeOK
  <1>6. ASSUME NEW w \in Workers, LooksOnly(w) \/ Login(w) \/ Logout(w) PROVE WorkersInv'
    <2>1. /\ pc[w] = "view" /\ UNCHANGED <<for, cookie, id>>
          /\ \/ UNCHANGED <<pc, done>>
             \/ /\ pc' = [pc EXCEPT ![w] = "reply"]
                /\ done' = done \/ done' = [done EXCEPT ![w] = TRUE]
      BY <1>6 DEF LooksOnly, Login, Logout, Dies, At, Go, browser, worker
    <2>2. QED
      BY <2>1 DEF WorkersInv, TypeOK
  <1>7. ASSUME NEW w \in Workers, Receive(w) \/ Lose(w) PROVE WorkersInv'
    <2>1. /\ pc[w] = "reply" /\ pc' = [pc EXCEPT ![w] = "idle"]
          /\ for' = [for EXCEPT ![w] = NULL] /\ id' = [id EXCEPT ![w] = NULL]
          /\ done' = [done EXCEPT ![w] = FALSE]
          /\ \A b \in Browsers \ {for[w]} : cookie'[b] = cookie[b]
      BY <1>7 DEF Receive, Lose, Idle, At, Go, TypeOK
    <2>2. QED
      BY <2>1 DEF WorkersInv, TypeOK
  <1>8. CASE Tick
    BY <1>8 DEF Tick, WorkersInv
  <1>9. CASE Restart
    BY <1>9 DEF Restart, WorkersInv
  <1>10. QED
    BY <1>1, <1>2, <1>3, <1>4, <1>5, <1>6, <1>7, <1>8, <1>9 DEF Next, WorkerStep

LEMMA DueInit == Init => DueInv
  BY DEF Init, DueInv, Keeps

\* A step that leaves the sessions alone, and to worker w what it will tell
LEMMA DueKept ==
    ASSUME DueInv, UNCHANGED <<live, user, carried>>,
           \A b \in Browsers : ~Waits(b)' => ~Waits(b) /\ UNCHANGED <<cookie[b], due[b]>>,
           \A w \in Workers : pc'[w] # "idle" => pc[w] # "idle" /\ id'[w] = id[w] /\ Told(w)' = Told(w)
    PROVE  DueInv'
  BY DEF DueInv, Keeps

\* Worker w writes n into its session, and will tell its browser so.
LEMMA DueWritten ==
    ASSUME TypeOK, IdsApartInv, WorkersInv, DueInv, NEW w \in Workers, for[w] \in Browsers,
           NEW n, user' = [user EXCEPT ![id[w]] = n], request[w].name = n,
           done' = [done EXCEPT ![w] = TRUE],
           pc[w] = "view", pc' = [pc EXCEPT ![w] = "reply"],
           UNCHANGED <<live, id, for, request, cookie, due, carried>>
    PROVE  DueInv'
  <1> SUFFICES ASSUME carried = {} PROVE DueInv'
    BY DEF DueInv
  <1>1. \A c \in Browsers : c # for[w] /\ cookie[c] \in Ids => cookie[c] # id[w]
    BY DEF IdsApartInv, IdsApart, Own, Holds
  <1>2. \A v \in Workers : v # w /\ pc[v] # "idle" /\ id[v] \in Ids => id[v] # id[w]
    <2> SUFFICES ASSUME NEW v \in Workers, v # w, pc[v] # "idle", id[v] \in Ids, id[v] = id[w]
                 PROVE  FALSE
      OBVIOUS
    <2>1. for[v] \in Browsers /\ for[v] # for[w]
      BY NamesDiffer DEF WorkersInv, TypeOK
    <2>2. QED
      BY <2>1 DEF IdsApartInv, IdsApart, Own, Holds
  <1>3. live \subseteq Ids
    BY DEF TypeOK
  <1>4. ASSUME NEW b \in Browsers, ~Waits(b)' PROVE Keeps(cookie[b], due[b])'
    <2>1. ~Waits(b) /\ b # for[w]
      BY <1>4 DEF Waits
    <2>2. cookie[b] \in live => user'[cookie[b]] = user[cookie[b]]
      BY <1>1, <1>3, <2>1 DEF TypeOK
    <2>3. QED
      BY <2>1, <2>2 DEF DueInv, Keeps
  <1>5. ASSUME NEW v \in Workers, pc'[v] # "idle" PROVE Keeps(id[v], Told(v))'
    <2>1. CASE v = w
      <3>1. done'[w] /\ Told(w)' = n
        BY DEF Told, TypeOK
      <3>2. id[w] \in live => user'[id[w]] = n
        BY <1>3 DEF TypeOK
      <3>3. QED  BY <2>1, <3>1, <3>2 DEF Keeps
    <2>2. CASE v # w
      <3>1. pc[v] # "idle" /\ Told(v)' = Told(v)
        BY <1>5, <2>2 DEF Told, TypeOK
      <3>2. id[v] \in live => user'[id[v]] = user[id[v]]
        BY <1>2, <1>3, <2>2, <3>1 DEF TypeOK
      <3>3. QED
        BY <3>1, <3>2 DEF DueInv, Keeps
    <2>3. QED  BY <2>1, <2>2
  <1>6. QED  BY <1>4, <1>5 DEF DueInv

LEMMA DueNewSession ==
    ASSUME TypeOK, IdsApartInv, WorkersInv, DueInv, NEW w \in Workers, NewSession(w)
    PROVE  DueInv'
  <1> SUFFICES ASSUME carried = {} PROVE DueInv'
    BY DEF DueInv, NewSession, browser
  <1>1. PICK new \in Ids :
           /\ new > index /\ live' = live \cup {new}
           /\ user' = [user EXCEPT ![new] = Nobody] /\ id' = [id EXCEPT ![w] = new]
    BY DEF NewSession
  <1>2. /\ pc[w] = "insert" /\ pc' = [pc EXCEPT ![w] = "info"]
        /\ UNCHANGED <<for, request, done, cookie, due, carried>>
    BY DEF NewSession, At, Go, browser
  <1>3. \A b \in Browsers, i \in Ids : Holds(b, i) => i # new
    BY <1>1 DEF IdsApartInv, IdsBelowIndex, Own, Ids, TypeOK
  <1>4. \A i \in live' : i # new => i \in live /\ user'[i] = user[i]
    BY <1>1 DEF TypeOK
  <1>5. ASSUME NEW b \in Browsers, ~Waits(b)' PROVE Keeps(cookie[b], due[b])'
    <2>1. ~Waits(b) /\ cookie[b] \in Ids \cup {NULL}
      BY <1>2, <1>5 DEF Waits, TypeOK
    <2>2. cookie[b] # new
      BY <1>3 DEF Holds
    <2>3. Keeps(cookie[b], due[b])
      BY <2>1 DEF DueInv
    <2>4. QED
      BY <1>2, <1>4, <2>2, <2>3 DEF Keeps
  <1>6. ASSUME NEW v \in Workers, pc'[v] # "idle" PROVE Keeps(id[v], Told(v))'
    <2>1. pc[v] # "idle" /\ for[v] \in Browsers
      BY <1>2, <1>6 DEF WorkersInv, TypeOK
    <2>2. CASE v = w
      <3>1. ~done[w] /\ cookie[for[w]] # new
        BY <1>2, <1>3, <2>1, <2>2 DEF WorkersInv, Holds
      <3>2. id'[w] = new /\ user'[new] = Nobody /\ Told(w)' = Nobody
        BY <1>1, <1>2, <3>1 DEF Told, TypeOK
      <3>3. QED  BY <2>2, <3>2 DEF Keeps
    <2>3. CASE v # w
      <3>1. id'[v] = id[v] /\ id[v] # new /\ id[v] \in Ids \cup {NULL}
        BY <1>1, <1>3, <2>1, <2>3 DEF Holds, TypeOK
      <3>2. Told(v)' = Told(v)
        BY <1>2, <3>1 DEF Told
      <3>3. Keeps(id[v], Told(v))
        BY <2>1 DEF DueInv
      <3>4. QED  BY <1>4, <3>1, <3>2, <3>3 DEF Keeps
    <2>4. QED  BY <2>2, <2>3
  <1>7. QED  BY <1>5, <1>6 DEF DueInv

\* What the browser is told is what the worker was going to tell.
LEMMA DueReceive ==
    ASSUME TypeOK, WorkersInv, DueInv, NEW w \in Workers, Receive(w) \/ Lose(w)
    PROVE  DueInv'
  <1> SUFFICES ASSUME carried = {} PROVE DueInv'
    BY DEF DueInv, Receive, Lose
  <1>1. /\ pc[w] = "reply" /\ pc' = [pc EXCEPT ![w] = "idle"]
        /\ for' = [for EXCEPT ![w] = NULL] /\ id' = [id EXCEPT ![w] = NULL]
        /\ done' = [done EXCEPT ![w] = FALSE]
        /\ request' = [request EXCEPT ![w] = NoRequest]
        /\ UNCHANGED <<live, user, carried>>
    BY DEF Receive, Lose, Idle, At, Go, table
  <1>2. /\ for[w] \in Browsers
        /\ \A b \in Browsers \ {for[w]} : UNCHANGED <<cookie[b], due[b]>>
    BY <1>1 DEF Receive, Lose, WorkersInv, TypeOK
  <1>3. ASSUME NEW b \in Browsers, b = for[w] PROVE Keeps(cookie[b], due[b])'
    <2>1. CASE Lose(w)
      <3>1. due'[b] = Unsure
        BY <1>3, <2>1 DEF Lose, TypeOK
      <3>2. QED  BY <3>1 DEF Keeps
    <2>2. CASE Receive(w)
      <3>1. cookie'[b] = id[w] /\ (id[w] \in live => due'[b] = Told(w))
        BY <1>3, <2>2 DEF Receive, Told, TypeOK
      <3>2. Keeps(id[w], Told(w))
        BY <1>1 DEF DueInv
      <3>3. QED  BY <1>1, <3>1, <3>2 DEF Keeps
    <2>3. QED  BY <2>1, <2>2
  <1>4. ASSUME NEW b \in Browsers, ~Waits(b)' PROVE Keeps(cookie[b], due[b])'
    <2>1. CASE b = for[w]
      BY <1>3, <2>1
    <2>2. CASE b # for[w]
      <3>1. ~Waits(b)
        BY <1>1, <1>4, <2>2 DEF Waits, TypeOK
      <3>2. QED
        BY <1>1, <1>2, <2>2, <3>1 DEF DueInv, Keeps
    <2>3. QED  BY <2>1, <2>2
  <1>5. ASSUME NEW v \in Workers, pc'[v] # "idle" PROVE Keeps(id[v], Told(v))'
    <2>1. v # w /\ pc[v] # "idle"
      BY <1>1, <1>5 DEF TypeOK
    <2>2. for[v] \in Browsers \ {for[w]}
      BY <1>2, <2>1 DEF WorkersInv, TypeOK
    <2>3. id'[v] = id[v] /\ for'[v] = for[v] /\ done'[v] = done[v] /\ request'[v] = request[v]
      BY <1>1, <2>1 DEF TypeOK
    <2>4. Told(v)' = Told(v)
      BY <1>2, <2>2, <2>3 DEF Told
    <2>5. QED
      BY <1>1, <2>1, <2>3, <2>4 DEF DueInv, Keeps
  <1>6. QED  BY <1>4, <1>5 DEF DueInv

LEMMA DueStep == TypeOK /\ IdsApartInv /\ WorkersInv /\ DueInv /\ [Next]_vars => DueInv'
  <1> SUFFICES ASSUME TypeOK, IdsApartInv, WorkersInv, DueInv, [Next]_vars PROVE DueInv'
    OBVIOUS
  <1> USE NamesDiffer
  <1>1. CASE UNCHANGED vars
    BY <1>1, DueKept DEF vars, table, worker, browser, Waits, Told
  <1>2. ASSUME NEW b \in Browsers, NEW w \in Workers, NEW r \in Ops, Send(b, w, r)
        PROVE  DueInv'
    <2>1. /\ pc[w] = "idle" /\ ~Waits(b) /\ UNCHANGED <<live, user, done, cookie, due, carried>>
          /\ for' = [for EXCEPT ![w] = b] /\ id' = [id EXCEPT ![w] = cookie[b]]
          /\ pc' = [pc EXCEPT ![w] = "find"] /\ request' = [request EXCEPT ![w] = r]
      BY <1>2 DEF Send, At, Go, table, browser, Waits
    <2>2. for[w] = NULL /\ ~done[w]
      BY <2>1 DEF WorkersInv
    <2>3. ASSUME NEW c \in Browsers, ~Waits(c)' PROVE ~Waits(c)
      BY <2>1, <2>2, <2>3 DEF Waits, TypeOK
    <2>4. ASSUME carried = {}, NEW v \in Workers, pc'[v] # "idle" PROVE Keeps(id[v], Told(v))'
      <3>1. CASE v = w
        <4>1. id'[w] = cookie[b] /\ Told(w)' = due[b]
          BY <2>1, <2>2 DEF Told, TypeOK
        <4>2. Keeps(cookie[b], due[b])
          BY <2>1, <2>4 DEF DueInv
        <4>3. QED  BY <2>1, <3>1, <4>1, <4>2 DEF Keeps
      <3>2. CASE v # w
        <4>1. pc[v] # "idle" /\ id'[v] = id[v] /\ Told(v)' = Told(v)
          BY <2>1, <2>4, <3>2 DEF Told, TypeOK
        <4>2. QED  BY <2>1, <2>4, <4>1 DEF DueInv, Keeps
      <3>3. QED  BY <3>1, <3>2
    <2>5. QED
      BY <2>1, <2>3, <2>4 DEF DueInv, Keeps
  <1>3. ASSUME NEW w \in Workers, Find(w) \/ LockTable(w) \/ LooksOnly(w) PROVE DueInv'
    <2>1. /\ UNCHANGED <<live, user, for, request, id, done, cookie, due, carried>>
          /\ pc[w] # "idle" /\ \A v \in Workers \ {w} : pc'[v] = pc[v]
      BY <1>3 DEF Find, LockTable, LooksOnly, At, Go, table, browser, TypeOK
    <2>2. QED
      BY <2>1, DueKept DEF Waits, Told
  <1>4. ASSUME NEW w \in Workers, NewSession(w) PROVE DueInv'
    BY <1>4, DueNewSession
  <1>5. ASSUME NEW w \in Workers, GetSessionInfo(w) PROVE DueInv'
    <2>1. /\ UNCHANGED <<live, user, for, request, id, done, cookie, due, carried>>
          /\ pc[w] # "idle" /\ \A v \in Workers \ {w} : pc'[v] = pc[v]
      BY <1>5 DEF GetSessionInfo, Dies, At, Go, table, worker, browser, TypeOK
    <2>2. QED
      BY <2>1, DueKept DEF Waits, Told
  <1>6. ASSUME NEW w \in Workers, Login(w) PROVE DueInv'
    <2>1. CASE id[w] \in live
      <3>1. /\ user' = [user EXCEPT ![id[w]] = request[w].name]
            /\ done' = [done EXCEPT ![w] = TRUE]
            /\ pc[w] = "view" /\ pc' = [pc EXCEPT ![w] = "reply"]
            /\ UNCHANGED <<live, id, for, request, cookie, due, carried>>
        BY <1>6, <2>1 DEF Login, At, Go, browser
      <3>2. for[w] \in Browsers
        BY <3>1 DEF WorkersInv, TypeOK
      <3>3. QED  BY <3>1, <3>2, DueWritten
    <2>2. CASE id[w] \notin live
      <3>1. UNCHANGED <<table, worker, browser>>
        BY <1>6, <2>2 DEF Login, Dies
      <3>2. QED
        BY <3>1, DueKept DEF table, worker, browser, Waits, Told
    <2>3. QED  BY <2>1, <2>2
  <1>7. ASSUME NEW w \in Workers, Logout(w) PROVE DueInv'
    <2>1. /\ user' = [user EXCEPT ![id[w]] = Nobody] /\ request[w].op = "logout"
          /\ done' = [done EXCEPT ![w] = TRUE]
          /\ pc[w] = "view" /\ pc' = [pc EXCEPT ![w] = "reply"]
          /\ UNCHANGED <<live, id, for, request, cookie, due, carried>>
      BY <1>7 DEF Logout, At, Go, browser
    <2>2. for[w] \in Browsers /\ request[w].name = Nobody
      <3>1. request[w] \in Ops
        BY DEF TypeOK
      <3>2. QED  BY <2>1, <3>1 DEF Ops, WorkersInv, TypeOK
    <2>3. QED  BY <2>1, <2>2, DueWritten
  <1>8. ASSUME NEW w \in Workers, Receive(w) \/ Lose(w) PROVE DueInv'
    BY <1>8, DueReceive
  <1>9. CASE Tick
    <2>1. PICK expired \in SUBSET live :
             /\ live' = live \ expired
             /\ user' = [i \in Ids |-> IF i \in live \ expired THEN user[i] ELSE Nobody]
             /\ due' = [b \in Browsers |-> IF cookie[b] \in expired THEN Nobody ELSE due[b]]
      BY <1>9 DEF Tick
    <2>2. UNCHANGED <<pc, for, request, id, done, cookie, carried>> /\ live \subseteq Ids
      BY <1>9 DEF Tick, TypeOK
    <2>3. \A i \in live' : i \in live /\ user'[i] = user[i]
      BY <2>1, <2>2
    <2>4. \A b \in Browsers : cookie[b] \in live' => due'[b] = due[b]
      BY <2>1
    <2>5. ASSUME NEW w \in Workers, pc[w] # "idle", id[w] \in live' PROVE Told(w)' = Told(w)
      <3>1. for[w] \in Browsers
        BY <2>5 DEF WorkersInv, TypeOK
      <3>2. QED  BY <2>2, <2>4, <2>5, <3>1 DEF Told
    <2>6. QED
      BY <2>2, <2>3, <2>4, <2>5 DEF DueInv, Keeps, Waits
  <1>10. CASE Restart
    <2>1. live' = {} /\ UNCHANGED cookie
      BY <1>10 DEF Restart
    <2>2. QED  BY <2>1 DEF DueInv, Keeps
  <1>11. QED
    BY <1>1, <1>2, <1>3, <1>4, <1>5, <1>6, <1>7, <1>8, <1>9, <1>10 DEF Next, WorkerStep

\* webccDemo.cpp:196 and 217: while no cookie is older than the process, a
\* browser that was told of its login or logout finds just that in its session
\* until the session expires, whatever the other browsers do.
THEOREM LoginStaysTrue == Spec => []LoginIsRemembered
  <1>1. TypeOK /\ DueInv => LoginIsRemembered
    BY DEF DueInv, LoginIsRemembered, Keeps, Waits
  <1>2. Spec => []IdsApartInv
    BY TypeCorrect, ApartInit, ApartStep, PTL DEF Spec
  <1>3. Spec => []WorkersInv
    BY TypeCorrect, WorkersInit, WorkersStep, PTL DEF Spec
  <1>4. Spec => []DueInv
    BY <1>2, <1>3, TypeCorrect, DueInit, DueStep, PTL DEF Spec
  <1>5. QED
    BY <1>1, <1>4, TypeCorrect, PTL
=============================================================================
