--------------------------- MODULE MainPageProofs ---------------------------
(***************************************************************************)
(* The warnings and the buttons of the main page, for any users, any       *)
(* number of documents, clicks, logins and warnings, and sockets that are  *)
(* never closed.                                                           *)
(***************************************************************************)
EXTENDS MainPage, TLAPS

---------------------------------------------------------------------------
(* Warnings are numbers: sequences of them that only grow.                 *)

Increasing(q) == \A i, j \in 1..Len(q) : i < j => q[i] < q[j]

LEMMA AppendIncreasing ==
    ASSUME NEW q \in Seq(Nat), Increasing(q), NEW n \in Nat,
           \A i \in 1..Len(q) : q[i] < n
    PROVE  /\ Append(q, n) \in Seq(Nat) /\ Increasing(Append(q, n))
           /\ Len(Append(q, n)) = Len(q) + 1
           /\ \A i \in 1..Len(q) : Append(q, n)[i] = q[i]
           /\ Append(q, n)[Len(q) + 1] = n
  <1>1. /\ Append(q, n) \in Seq(Nat) /\ Len(Append(q, n)) = Len(q) + 1 /\ Len(q) \in Nat
        /\ \A i \in 1..Len(q) : Append(q, n)[i] = q[i]
        /\ Append(q, n)[Len(q) + 1] = n
    OBVIOUS
  <1>2. \A i \in 1..Len(q) : q[i] \in Nat
    OBVIOUS
  <1>3. ASSUME NEW i \in 1..Len(Append(q, n)), NEW j \in 1..Len(Append(q, n)), i < j
        PROVE  Append(q, n)[i] < Append(q, n)[j]
    <2>1. i \in 1..Len(q)
      BY <1>1, <1>3
    <2>2. CASE j \in 1..Len(q)
      BY <1>1, <1>3, <2>1, <2>2 DEF Increasing
    <2>3. CASE j = Len(q) + 1
      BY <1>1, <1>2, <2>1, <2>3
    <2>4. QED  BY <1>1, <2>2, <2>3
  <1>4. QED  BY <1>1, <1>3 DEF Increasing

LEMMA TailIncreasing ==
    ASSUME NEW q \in Seq(Nat), Increasing(q), q # <<>>
    PROVE  /\ Tail(q) \in Seq(Nat) /\ Increasing(Tail(q)) /\ Head(q) \in Nat
           /\ \A i \in 1..Len(Tail(q)) : Head(q) < Tail(q)[i]
           /\ Head(q) = q[1] /\ 1 \in 1..Len(q)
           /\ \A i \in 1..Len(Tail(q)) : i + 1 \in 1..Len(q) /\ Tail(q)[i] = q[i + 1]
  <1>1. /\ Tail(q) \in Seq(Nat) /\ Head(q) \in Nat /\ Head(q) = q[1]
        /\ Len(Tail(q)) = Len(q) - 1 /\ Len(q) \in Nat \ {0}
        /\ \A i \in 1..Len(q) - 1 : Tail(q)[i] = q[i + 1]
    OBVIOUS
  <1>2. QED  BY <1>1 DEF Increasing

---------------------------------------------------------------------------
\* A socket carries what was sent since it was opened.
OnWire(s) ==
    /\ wire[s] \in Seq(Nat) /\ Increasing(wire[s])
    /\ \A i \in 1..Len(wire[s]) : wire[s][i] <= warnings

\* What the page shows was sent before all that comes to the scope that shows.
WarningsInv ==
    /\ warnings \in Nat /\ scope \in Nat
    /\ connecting \subseteq 1..scope /\ DOMAIN wire \subseteq 1..scope
    /\ \A s \in DOMAIN wire : OnWire(s)
    /\ warningList \in Seq(Nat) /\ Increasing(warningList)
    /\ \A i \in 1..Len(warningList) : warningList[i] <= warnings
    /\ scope \in DOMAIN wire =>
          \A i \in 1..Len(warningList), j \in 1..Len(wire[scope]) :
             warningList[i] < wire[scope][j]

LEMMA WarningsInit == Init => WarningsInv
  BY DEF Init, WarningsInv, OnWire, Increasing

\* What leaves the sockets and the list of warnings alone keeps the invariant.
LEMMA SocketsKept ==
    ASSUME WarningsInv, UNCHANGED <<socket, scope>> PROVE WarningsInv'
  BY DEF WarningsInv, OnWire, Increasing, socket

\* A document that is loaded starts with a new scope and without warnings.
LEMMA LoadKeeps ==
    ASSUME WarningsInv, NEW r, LoadMain(r) PROVE WarningsInv'
  <1>1. /\ scope' = scope + 1 /\ wire' = <<>> /\ warningList' = <<>> /\ warnings' = warnings
        /\ connecting' = Connects(r, scope + 1)
    BY DEF LoadMain, Start
  <1>2. connecting' \subseteq 1..scope'
    BY <1>1 DEF Connects, WarningsInv
  <1>3. DOMAIN wire' = {} /\ Len(warningList') = 0 /\ warningList' \in Seq(Nat)
    BY <1>1
  <1>4. QED
    BY <1>1, <1>2, <1>3 DEF WarningsInv, OnWire, Increasing

\* A route that is shown has a scope no socket has yet.
LEMMA ClickKeeps ==
    ASSUME WarningsInv, NEW r, Click(r) PROVE WarningsInv'
  <1>1. /\ scope' = scope + 1 /\ UNCHANGED <<wire, warningList, warnings>>
        /\ connecting' = connecting \cup Connects(r, scope + 1)
    BY DEF Click, Start
  <1>2. connecting' \subseteq 1..scope' /\ DOMAIN wire' \subseteq 1..scope'
    BY <1>1 DEF Connects, WarningsInv
  <1>3. scope' \notin DOMAIN wire'
    BY <1>1 DEF WarningsInv
  <1>4. \A s \in DOMAIN wire' : OnWire(s)'
    BY <1>1 DEF WarningsInv, OnWire, Increasing
  <1>5. QED
    BY <1>1, <1>2, <1>3, <1>4 DEF WarningsInv, Increasing

\* A socket that opens has nothing of what was sent before.
LEMMA ConnectedKeeps ==
    ASSUME WarningsInv, NEW s \in connecting, Connected(s) PROVE WarningsInv'
  <1>1. /\ DOMAIN wire' = DOMAIN wire \cup {s}
        /\ \A t \in DOMAIN wire \ {s} : wire'[t] = wire[t]
        /\ wire'[s] = <<>>
    BY DEF Connected
  <1>2. UNCHANGED <<scope, warningList, warnings>> /\ connecting' \subseteq connecting
    BY DEF Connected, list
  <1>3. ASSUME NEW t \in DOMAIN wire' PROVE OnWire(t)'
    <2>1. CASE t # s
      BY <1>1, <1>2, <1>3, <2>1 DEF WarningsInv, OnWire, Increasing
    <2>2. CASE t = s
      BY <1>1, <1>2, <2>2 DEF OnWire, Increasing
    <2>3. QED  BY <2>1, <2>2
  <1>4. ASSUME scope \in DOMAIN wire', NEW i \in 1..Len(warningList), NEW j \in 1..Len(wire'[scope])
        PROVE  warningList[i] < wire'[scope][j]
    <2>1. scope # s /\ scope \in DOMAIN wire
      BY <1>1, <1>4
    <2>2. QED  BY <1>1, <1>4, <2>1 DEF WarningsInv
  <1>5. connecting' \subseteq 1..scope /\ DOMAIN wire' \subseteq 1..scope
    BY <1>1, <1>2 DEF WarningsInv
  <1>6. QED
    BY <1>2, <1>3, <1>4, <1>5 DEF WarningsInv, Increasing

\* The number of a warning that is sent is above all that were sent before.
LEMMA WarnKeeps ==
    ASSUME WarningsInv, Warn PROVE WarningsInv'
  <1>1. /\ warnings' = warnings + 1 /\ UNCHANGED <<scope, warningList, connecting>>
        /\ wire' = [s \in DOMAIN wire |-> Append(wire[s], warnings + 1)]
    BY DEF Warn, list
  <1>2. ASSUME NEW s \in DOMAIN wire
        PROVE  /\ wire'[s] \in Seq(Nat) /\ Increasing(wire'[s])
               /\ Len(wire'[s]) = Len(wire[s]) + 1 /\ Len(wire[s]) \in Nat
               /\ \A i \in 1..Len(wire[s]) : wire'[s][i] = wire[s][i] /\ wire[s][i] \in Nat
               /\ wire'[s][Len(wire[s]) + 1] = warnings + 1
    <2>1. /\ wire[s] \in Seq(Nat) /\ Increasing(wire[s]) /\ warnings + 1 \in Nat
          /\ \A i \in 1..Len(wire[s]) : wire[s][i] <= warnings /\ wire[s][i] \in Nat
      BY <1>2 DEF WarningsInv, OnWire
    <2>2. \A i \in 1..Len(wire[s]) : wire[s][i] < warnings + 1
      BY <2>1 DEF WarningsInv
    <2>3. wire'[s] = Append(wire[s], warnings + 1)
      BY <1>1, <1>2
    <2>4. QED  BY <2>1, <2>2, <2>3, AppendIncreasing
  <1>3. ASSUME NEW s \in DOMAIN wire PROVE OnWire(s)'
    <2>1. \A i \in 1..Len(wire'[s]) : wire'[s][i] <= warnings'
      BY <1>1, <1>2, <1>3 DEF WarningsInv, OnWire
    <2>2. QED  BY <1>2, <1>3, <2>1 DEF OnWire, Increasing
  <1>4. ASSUME scope \in DOMAIN wire, NEW i \in 1..Len(warningList), NEW j \in 1..Len(wire'[scope])
        PROVE  warningList[i] < wire'[scope][j]
    <2>1. CASE j \in 1..Len(wire[scope])
      BY <1>2, <1>4, <2>1 DEF WarningsInv
    <2>2. CASE j = Len(wire[scope]) + 1
      BY <1>2, <1>4, <2>2 DEF WarningsInv
    <2>3. QED  BY <1>2, <1>4, <2>1, <2>2
  <1>5. DOMAIN wire' = DOMAIN wire
    BY <1>1
  <1>6. \A i \in 1..Len(warningList) : warningList[i] <= warnings'
    BY <1>1 DEF WarningsInv
  <1>7. QED
    BY <1>1, <1>3, <1>4, <1>5, <1>6 DEF WarningsInv, Increasing

\* The scope that is shown takes its warnings in order, the others drop theirs.
LEMMA MessageKeeps ==
    ASSUME WarningsInv, NEW s \in DOMAIN wire, OnMessage(s) PROVE WarningsInv'
  <1>1. /\ wire[s] # <<>> /\ wire' = [wire EXCEPT ![s] = Tail(wire[s])]
        /\ UNCHANGED <<scope, connecting, warnings>>
        /\ warningList' = IF s = scope THEN Append(warningList, Head(wire[s])) ELSE warningList
    BY DEF OnMessage, list
  <1>2. wire[s] \in Seq(Nat) /\ Increasing(wire[s]) /\ OnWire(s)
    BY DEF WarningsInv, OnWire
  <1>3. /\ DOMAIN wire' = DOMAIN wire /\ wire'[s] = Tail(wire[s])
        /\ \A t \in DOMAIN wire \ {s} : wire'[t] = wire[t]
    BY <1>1
  <1>4. ASSUME NEW t \in DOMAIN wire PROVE OnWire(t)'
    <2>1. CASE t = s
      <3>1. Tail(wire[s]) \in Seq(Nat) /\ Increasing(Tail(wire[s]))
        BY <1>1, <1>2, TailIncreasing
      <3>2. \A i \in 1..Len(Tail(wire[s])) : Tail(wire[s])[i] <= warnings
        BY <1>1, <1>2, TailIncreasing DEF OnWire
      <3>3. QED  BY <1>1, <1>3, <2>1, <3>1, <3>2 DEF OnWire, Increasing
    <2>2. CASE t # s
      BY <1>1, <1>3, <2>2 DEF WarningsInv, OnWire, Increasing
    <2>3. QED  BY <2>1, <2>2
  <1>5. CASE s = scope
    <2>1. /\ Head(wire[s]) \in Nat /\ Head(wire[s]) <= warnings
          /\ \A i \in 1..Len(Tail(wire[s])) : Head(wire[s]) < Tail(wire[s])[i]
      BY <1>1, <1>2, TailIncreasing DEF OnWire
    <2>2. \A i \in 1..Len(warningList) : warningList[i] < Head(wire[s])
      BY <1>1, <1>2, <1>5, TailIncreasing DEF WarningsInv
    <2>3. /\ warningList \in Seq(Nat) /\ Increasing(warningList) /\ Len(warningList) \in Nat
          /\ \A i \in 1..Len(warningList) : warningList[i] \in Nat
      BY DEF WarningsInv
    <2>4. warningList' = Append(warningList, Head(wire[s]))
      BY <1>1, <1>5
    <2>5. /\ warningList' \in Seq(Nat) /\ Increasing(warningList')
          /\ Len(warningList') = Len(warningList) + 1
          /\ \A i \in 1..Len(warningList) : warningList'[i] = warningList[i]
          /\ warningList'[Len(warningList) + 1] = Head(wire[s])
      <3> DEFINE n == Head(wire[s])
      <3>1. n \in Nat /\ \A i \in 1..Len(warningList) : warningList[i] < n
        BY <2>1, <2>2
      <3>2. warningList' = Append(warningList, n)
        BY <2>4
      <3> HIDE DEF n
      <3>3. /\ warningList' \in Seq(Nat) /\ Increasing(warningList')
            /\ Len(warningList') = Len(warningList) + 1
            /\ \A i \in 1..Len(warningList) : warningList'[i] = warningList[i]
            /\ warningList'[Len(warningList) + 1] = n
        BY <2>3, <3>1, <3>2, AppendIncreasing
      <3>4. QED  BY <3>3 DEF n
    <2>6. ASSUME NEW i \in 1..Len(warningList')
          PROVE  warningList'[i] <= Head(wire[s]) /\ warningList'[i] \in Nat
      <3>1. CASE i \in 1..Len(warningList)
        BY <2>1, <2>2, <2>3, <2>5, <3>1
      <3>2. CASE i = Len(warningList) + 1
        BY <2>1, <2>3, <2>5, <3>2
      <3>3. QED  BY <2>3, <2>5, <2>6, <3>1, <3>2
    <2>7. \A i \in 1..Len(warningList') : warningList'[i] <= warnings
      BY <2>1, <2>6 DEF WarningsInv
    <2>8. \A j \in 1..Len(Tail(wire[s])) : Tail(wire[s])[j] \in Nat
      BY <1>1, <1>2, TailIncreasing
    <2>9. \A i \in 1..Len(warningList'), j \in 1..Len(Tail(wire[s])) :
             warningList'[i] < Tail(wire[s])[j]
      BY <2>1, <2>6, <2>8
    <2>10. QED
      BY <1>1, <1>3, <1>4, <1>5, <2>5, <2>7, <2>9 DEF WarningsInv, Increasing
  <1>6. CASE s # scope
    BY <1>1, <1>3, <1>4, <1>6 DEF WarningsInv, Increasing
  <1>7. QED  BY <1>5, <1>6

LEMMA FailsKeeps ==
    ASSUME WarningsInv, NEW s, SocketFails(s) PROVE WarningsInv'
  <1>1. /\ wire' = [t \in DOMAIN wire \ {s} |-> wire[t]] /\ connecting' \subseteq connecting
        /\ UNCHANGED <<scope, warningList, warnings>>
    BY DEF SocketFails, list, Restrict
  <1>2. DOMAIN wire' = DOMAIN wire \ {s} /\ \A t \in DOMAIN wire' : wire'[t] = wire[t]
    BY <1>1
  <1>3. QED
    BY <1>1, <1>2 DEF WarningsInv, OnWire, Increasing

LEMMA WarningsStep == WarningsInv /\ [Next]_vars => WarningsInv'
  <1> SUFFICES ASSUME WarningsInv, [Next]_vars PROVE WarningsInv'
    OBVIOUS
  <1>1. CASE UNCHANGED vars
    BY <1>1, SocketsKept DEF vars, list
  <1>2. CASE Submit
    BY <1>2, SocketsKept DEF Submit, list
  <1>3. CASE Reload
    BY <1>3, LoadKeeps DEF Reload
  <1>4. CASE OpenIndex
    <2>1. /\ UNCHANGED <<scope, warnings>> /\ connecting' = {} /\ wire' = <<>>
          /\ warningList' = <<>>
      BY <1>4 DEF OpenIndex
    <2>2. DOMAIN wire' = {} /\ Len(warningList') = 0 /\ warningList' \in Seq(Nat)
      BY <2>1
    <2>3. QED  BY <2>1, <2>2 DEF WarningsInv, OnWire, Increasing
  <1>5. ASSUME NEW r \in Menu, Click(r) PROVE WarningsInv'
    BY <1>5, ClickKeeps
  <1>6. ASSUME NEW c \in calls, Serve(c) \/ Lose(c) PROVE WarningsInv'
    BY <1>6, SocketsKept DEF Serve, Lose, list
  <1>7. ASSUME NEW c \in calls, Callback(c) PROVE WarningsInv'
    <2>1. CASE OnLoginAnswered(c) /\ c.answer.ok
      BY <2>1, LoadKeeps DEF OnLoginAnswered
    <2>2. CASE OnLoginAnswered(c) /\ ~c.answer.ok
      BY <2>2, SocketsKept DEF OnLoginAnswered, list
    <2>3. CASE OnInfo(c) \/ OnList(c)
      BY <2>3, SocketsKept DEF OnInfo, OnList, list
    <2>4. QED  BY <1>7, <2>1, <2>2, <2>3 DEF Callback
  <1>8. CASE Expire
    BY <1>8, SocketsKept DEF Expire, list
  <1>9. CASE Warn
    BY <1>9, WarnKeeps
  <1>10. ASSUME NEW s \in connecting, Connected(s) PROVE WarningsInv'
    BY <1>10, ConnectedKeeps
  <1>11. ASSUME NEW s \in DOMAIN wire, OnMessage(s) PROVE WarningsInv'
    BY <1>11, MessageKeeps
  <1>12. ASSUME NEW s \in connecting \cup DOMAIN wire, SocketFails(s) PROVE WarningsInv'
    BY <1>12, FailsKeeps
  <1>13. QED
    BY <1>1, <1>2, <1>3, <1>4, <1>5, <1>6, <1>7, <1>8, <1>9, <1>10, <1>11, <1>12 DEF Next

\* warningController.js:40 and 69: however many sockets the visits leave open,
\* a warning is in the list once, and the list is in the order of sending.
THEOREM WarningsShownOnce == Spec => []WarningsOnce
  <1>1. WarningsInv => WarningsOnce
    <2> SUFFICES ASSUME WarningsInv PROVE WarningsOnce
      OBVIOUS
    <2>1. DOMAIN warningList = 1..Len(warningList)
      BY DEF WarningsInv
    <2>2. QED  BY <2>1 DEF WarningsInv, WarningsOnce, Increasing
  <1>2. QED  BY <1>1, WarningsInit, WarningsStep, PTL DEF Spec

---------------------------------------------------------------------------
(* Roles: what the page shows is put together from two answers.            *)

Lists   == {"listAll", "groups"}
Buttons == IF route = "/userList" THEN session = Admin ELSE session # Admin

\* What getInfo answers for the session as it is
InfoAgrees(i) == i.name = session /\ i.authorities = Authorities(session)

IsCall(c) == c = [do |-> c.do, user |-> c.user, answer |-> c.answer]

\* A document asks for the user once, and is blocked until it knows; a route
\* asks for its own list.
AsksOnce ==
    /\ \A c \in calls : IsCall(c)
    /\ doc = "main" =>
          /\ ~blocked => info # NULL
          /\ clicked => ~blocked
          /\ \A c \in calls : c.do = "getInfo" => info = NULL
          /\ \A c, d \in calls : c.do = "getInfo" /\ d.do = "getInfo" => c = d
          /\ \A c \in calls : /\ c.do = "listAll" => route = "/userList"
                              /\ c.do = "groups" => route = "/userGroup"

\* While the session stays, so does what was answered from it.
AnswersAgree ==
    doc = "main" /\ ~changed =>
       /\ info # NULL => InfoAgrees(info)
       /\ \A c \in calls : c.do = "getInfo" /\ c.answer # NULL => InfoAgrees(c.answer)
       /\ clicked => \A c \in calls : c.do \in Lists /\ c.answer # NULL => c.answer.buttons = Buttons
       /\ clicked /\ shown # NULL => shown.isAdmin = (session = Admin) /\ shown.buttons = Buttons

RolesInv == AsksOnce /\ AnswersAgree

LEMMA RolesInit == Init => RolesInv
  BY DEF Init, RolesInv, AsksOnce, AnswersAgree

LEMMA AnsweredCalls ==
    ASSUME NEW c \in calls, NEW a, Answered(c, a), \A d \in calls : IsCall(d)
    PROVE  /\ \A d \in calls' : IsCall(d)
           /\ \A d \in calls' : d \in calls \/ (d.do = c.do /\ d.answer = a /\ d.user = c.user)
           /\ \A d \in calls' : d \in calls => d # c \/ d.answer = a
  <1>1. [c EXCEPT !.answer = a] = [do |-> c.do, user |-> c.user, answer |-> a]
    BY DEF IsCall
  <1>2. calls' = (calls \ {c}) \cup {[do |-> c.do, user |-> c.user, answer |-> a]}
    BY <1>1 DEF Answered
  <1>3. QED  BY <1>2 DEF IsCall

\* What a document or a route starts with is not answered yet.
LEMMA FreshCalls ==
    /\ \A r : \A c \in Asks(r) :
          /\ IsCall(c) /\ c.answer = NULL /\ c.do \in Lists
          /\ c.do = "listAll" => r = "/userList"
          /\ c.do = "groups" => r = "/userGroup"
    /\ \A c \in Orphans : IsCall(c) /\ c.answer = NULL /\ c.do = "oldLogin"
    /\ LET c == Call("getInfo", NULL) IN IsCall(c) /\ c.answer = NULL /\ c.do = "getInfo"
  BY DEF Asks, Orphans, Call, IsCall, Lists

LEMMA RolesLoad ==
    ASSUME RolesInv, NEW r, LoadMain(r) PROVE RolesInv'
  <1>1. /\ info' = NULL /\ blocked' = TRUE /\ clicked' = FALSE /\ route' = r
        /\ calls' = {Call("getInfo", NULL)} \cup Asks(r) \cup Orphans
    BY DEF LoadMain, Start
  <1>2. \A c \in calls' : IsCall(c) /\ c.answer = NULL
    BY <1>1, FreshCalls
  <1>3. \A c \in calls' : /\ c.do = "getInfo" => c = Call("getInfo", NULL)
                          /\ c.do = "listAll" => r = "/userList"
                          /\ c.do = "groups" => r = "/userGroup"
    BY <1>1, FreshCalls DEF Lists
  <1>4. QED
    BY <1>1, <1>2, <1>3 DEF RolesInv, AsksOnce, AnswersAgree, IsCall

LEMMA RolesClick ==
    ASSUME RolesInv, NEW r, Click(r) PROVE RolesInv'
  <1>1. /\ doc = "main" /\ ~blocked /\ info # NULL
        /\ UNCHANGED <<doc, blocked, info, session, changed>>
        /\ route' = r /\ clicked' = TRUE /\ shown' = NULL
        /\ calls' = {c \in calls : c.do \in {"getInfo", "oldLogin"}} \cup Asks(r)
    BY DEF Click, Start, RolesInv, AsksOnce, document, server
  <1>2. \A c \in calls' : IsCall(c) /\ c.do # "getInfo"
    BY <1>1, FreshCalls DEF RolesInv, AsksOnce, Lists
  <1>3. \A c \in calls' : /\ c.do \in Lists => c.answer = NULL
                          /\ c.do = "listAll" => r = "/userList"
                          /\ c.do = "groups" => r = "/userGroup"
    BY <1>1, FreshCalls DEF Lists
  <1>4. AsksOnce'
    BY <1>1, <1>2, <1>3 DEF AsksOnce, IsCall
  <1>5. AnswersAgree'
    BY <1>1, <1>2, <1>3 DEF RolesInv, AnswersAgree, InfoAgrees, Lists
  <1>6. QED  BY <1>4, <1>5 DEF RolesInv

\* Steps that answer and show nothing
LEMMA RolesKept ==
    ASSUME RolesInv, calls' \subseteq calls, UNCHANGED <<session, changed, list, document>>
    PROVE  RolesInv'
  <1>1. AsksOnce'
    BY DEF RolesInv, AsksOnce, IsCall, list, document
  <1>2. AnswersAgree'
    BY DEF RolesInv, AnswersAgree, InfoAgrees, Authorities, Buttons, list, document
  <1>3. QED  BY <1>1, <1>2 DEF RolesInv

LEMMA RolesServe ==
    ASSUME RolesInv, NEW c \in calls, Serve(c) PROVE RolesInv'
  <1>1. /\ c.answer = NULL /\ UNCHANGED <<doc, blocked, info, route, shown, clicked>>
        /\ \A d \in calls : IsCall(d)
    BY DEF Serve, list, document, RolesInv, AsksOnce
  <1>2. ASSUME NEW a, Answered(c, a) PROVE AsksOnce'
    <2>1. /\ \A d \in calls' : IsCall(d)
          /\ \A d \in calls' : d \in calls \/ (d.do = c.do /\ d.answer = a /\ d.user = c.user)
          /\ \A d \in calls' : d \in calls => d # c \/ d.answer = a
      BY <1>1, <1>2, AnsweredCalls
    <2>2. ASSUME doc = "main", NEW d \in calls', NEW e \in calls', d.do = "getInfo", e.do = "getInfo"
          PROVE  d = e
      BY <1>1, <2>1, <2>2 DEF RolesInv, AsksOnce, IsCall
    <2>3. QED
      BY <1>1, <2>1, <2>2 DEF RolesInv, AsksOnce, IsCall
  <1>3. CASE OnLoginServed(c)
    <2>1. /\ Answered(c, [ok |-> c.do = "login"]) /\ c.do \in {"login", "badLogin"}
          /\ ~changed' => ~changed /\ session' = session
      BY <1>3 DEF OnLoginServed
    <2>2. \A d \in calls' : d.do \in Lists \cup {"getInfo"} => d \in calls
      BY <1>1, <2>1, AnsweredCalls DEF Lists
    <2>3. AnswersAgree'
      BY <1>1, <2>1, <2>2 DEF RolesInv, AnswersAgree, InfoAgrees, Authorities, Buttons, Lists
    <2>4. QED  BY <1>2, <2>1, <2>3 DEF RolesInv
  <1>4. CASE OnOldLogin(c)
    <2>1. calls' \subseteq calls /\ (~changed' => ~changed /\ session' = session)
      BY <1>4 DEF OnOldLogin
    <2>2. AsksOnce'
      BY <1>1, <2>1 DEF RolesInv, AsksOnce, IsCall
    <2>3. AnswersAgree'
      BY <1>1, <2>1 DEF RolesInv, AnswersAgree, InfoAgrees, Authorities, Buttons, Lists
    <2>4. QED  BY <2>2, <2>3 DEF RolesInv
  <1>5. CASE OnGetInfo(c)
    <2> DEFINE a == [name |-> session, authorities |-> Authorities(session)]
    <2>1. /\ Answered(c, a) /\ c.do = "getInfo" /\ session' = session
          /\ a.name = session /\ a.authorities = Authorities(session)
      BY <1>5 DEF OnGetInfo
    <2> HIDE DEF a
    <2>2. \A d \in calls' : d \in calls \/ (d.do = "getInfo" /\ d.answer = a)
      BY <1>1, <2>1, AnsweredCalls
    <2>3. doc = "main" => info = NULL /\ ~clicked
      BY <2>1 DEF RolesInv, AsksOnce
    <2>4. ASSUME doc = "main", NEW d \in calls', d.do = "getInfo", d.answer # NULL
          PROVE  InfoAgrees(d.answer)
      <3>1. d \in calls => d = c
        BY <2>1, <2>4 DEF RolesInv, AsksOnce
      <3>2. d.answer = a
        BY <1>1, <2>2, <2>4, <3>1
      <3>3. QED  BY <2>1, <3>2 DEF InfoAgrees
    <2>5. AnswersAgree'
      BY <1>1, <2>1, <2>3, <2>4 DEF AnswersAgree, InfoAgrees, Authorities
    <2>6. QED  BY <1>2, <2>1, <2>5 DEF RolesInv
  <1>6. CASE OnListAll(c) \/ OnGroupList(c)
    <2> DEFINE a == [buttons |-> IF c.do = "listAll" THEN session = Admin ELSE session # Admin]
    <2>1. Answered(c, a) /\ c.do \in Lists /\ UNCHANGED <<session, changed>>
      BY <1>6 DEF OnListAll, OnGroupList, Lists, server
    <2>2. doc = "main" => a.buttons = Buttons
      BY <2>1 DEF RolesInv, AsksOnce, Lists, Buttons
    <2> HIDE DEF a
    <2>3. \A d \in calls' : d \in calls \/ (d.do \in Lists /\ d.answer = a)
      BY <1>1, <2>1, AnsweredCalls
    <2>4. Buttons' = Buttons
      BY <1>1, <2>1 DEF Buttons
    <2>5. AnswersAgree'
      BY <1>1, <2>1, <2>2, <2>3, <2>4 DEF RolesInv, AnswersAgree, InfoAgrees, Authorities, Lists
    <2>6. QED  BY <1>2, <2>1, <2>5 DEF RolesInv
  <1>7. QED
    BY <1>3, <1>4, <1>5, <1>6 DEF Serve

LEMMA RolesCallback ==
    ASSUME RolesInv, NEW c \in calls, Callback(c) PROVE RolesInv'
  <1>1. CASE OnLoginAnswered(c) /\ c.answer.ok
    BY <1>1, RolesLoad DEF OnLoginAnswered
  <1>2. CASE OnLoginAnswered(c) /\ ~c.answer.ok
    <2>1. calls' \subseteq calls /\ UNCHANGED <<session, changed, list, document>>
      BY <1>2 DEF OnLoginAnswered, server
    <2>2. QED  BY <2>1, RolesKept
  <1>3. CASE OnInfo(c)
    <2>1. /\ c.do = "getInfo" /\ info' = c.answer /\ blocked' = FALSE /\ calls' = calls \ {c}
          /\ UNCHANGED <<session, changed, route, shown, clicked, doc>> /\ c.answer # NULL
      BY <1>3 DEF OnInfo, Callback, server, list
    <2>2. doc = "main" => \A d \in calls' : d.do # "getInfo"
      BY <2>1 DEF RolesInv, AsksOnce
    <2>3. AsksOnce'
      BY <2>1, <2>2 DEF RolesInv, AsksOnce, IsCall
    <2>4. doc = "main" /\ ~changed => InfoAgrees(c.answer)
      BY <2>1 DEF RolesInv, AnswersAgree
    <2>5. AnswersAgree'
      BY <2>1, <2>2, <2>4 DEF RolesInv, AnswersAgree, InfoAgrees, Authorities, Buttons, Lists
    <2>6. QED  BY <2>3, <2>5 DEF RolesInv
  <1>4. CASE OnList(c)
    <2>1. /\ c.do \in Lists /\ c.answer # NULL /\ calls' = calls \ {c}
          /\ UNCHANGED <<session, changed, route, clicked, doc, blocked, info>>
          /\ shown' = [isAdmin |-> IsAdmin, buttons |-> c.answer.buttons]
      BY <1>4 DEF OnList, Callback, server, document, Lists
    <2>2. AsksOnce'
      BY <2>1 DEF RolesInv, AsksOnce, IsCall
    <2>3. ASSUME doc = "main", ~changed, clicked
          PROVE  shown'.isAdmin = (session = Admin) /\ shown'.buttons = Buttons
      <3>1. info # NULL /\ info.authorities = Authorities(session)
        BY <2>3 DEF RolesInv, AsksOnce, AnswersAgree, InfoAgrees
      <3>2. IsAdmin <=> session = Admin
        BY <3>1, AdminIsUser DEF IsAdmin, Authorities
      <3>3. shown'.isAdmin = IsAdmin /\ shown'.buttons = c.answer.buttons
        BY <2>1
      <3>4. c.answer.buttons = Buttons
        BY <2>1, <2>3 DEF RolesInv, AnswersAgree
      <3>5. IsAdmin = (session = Admin)
        BY <3>2 DEF IsAdmin
      <3>6. QED  BY <3>3, <3>4, <3>5
    <2>4. AnswersAgree'
      <3>1. Buttons' = Buttons
        BY <2>1 DEF Buttons
      <3>2. QED
        BY <2>1, <2>3, <3>1 DEF RolesInv, AnswersAgree, InfoAgrees, Authorities, Lists
    <2>5. QED  BY <2>2, <2>4 DEF RolesInv
  <1>5. QED  BY <1>1, <1>2, <1>3, <1>4 DEF Callback

LEMMA RolesStep == RolesInv /\ [Next]_vars => RolesInv'
  <1> SUFFICES ASSUME RolesInv, [Next]_vars PROVE RolesInv'
    OBVIOUS
  <1>1. CASE UNCHANGED vars
    BY <1>1, RolesKept DEF vars, server
  <1>2. CASE Submit
    <2>1. PICK u \in Users, do \in {"login", "badLogin"} : calls' = calls \cup {Call(do, u)}
      BY <1>2 DEF Submit
    <2>2. /\ doc = "index" /\ doc' = "index"
      BY <1>2 DEF Submit, document
    <2>3. IsCall(Call(do, u))
      BY DEF IsCall, Call
    <2>4. QED  BY <2>1, <2>2, <2>3 DEF RolesInv, AsksOnce, AnswersAgree, IsCall
  <1>3. CASE Reload
    BY <1>3, RolesLoad DEF Reload
  <1>4. CASE OpenIndex
    BY <1>4, FreshCalls DEF OpenIndex, RolesInv, AsksOnce, AnswersAgree, IsCall
  <1>5. ASSUME NEW r \in Menu, Click(r) PROVE RolesInv'
    BY <1>5, RolesClick
  <1>6. ASSUME NEW c \in calls, Serve(c) PROVE RolesInv'
    BY <1>6, RolesServe
  <1>7. ASSUME NEW c \in calls, Callback(c) PROVE RolesInv'
    BY <1>7, RolesCallback
  <1>8. ASSUME NEW c \in calls, Lose(c) PROVE RolesInv'
    BY <1>8, RolesKept DEF Lose, server
  <1>9. CASE Expire
    BY <1>9 DEF Expire, RolesInv, AsksOnce, AnswersAgree, IsCall, list, document
  <1>10. CASE Warn \/ (\E s \in connecting : Connected(s)) \/ (\E s \in DOMAIN wire : OnMessage(s))
              \/ (\E s \in connecting \cup DOMAIN wire : SocketFails(s))
    BY <1>10, RolesKept DEF Warn, Connected, OnMessage, SocketFails, server
  <1>11. QED
    BY <1>1, <1>2, <1>3, <1>4, <1>5, <1>6, <1>7, <1>8, <1>9, <1>10 DEF Next

\* main.html:110: a list that was reached by a click offers what the session
\* allows, unless that changed since, in whatever order the answers came.
THEOREM RolesAlwaysAgree == Spec => []RolesAgree
  <1>1. RolesInv => RolesAgree
    BY DEF RolesInv, AsksOnce, AnswersAgree, RolesAgree, InfoAgrees, Buttons
  <1>2. QED  BY <1>1, RolesInit, RolesStep, PTL DEF Spec

---------------------------------------------------------------------------
(* Types: what the calls under way carry, and what the sockets carry.      *)

LoginCalls == {"login", "badLogin"}
PageCalls  == {"getInfo"} \cup Lists

CallOK(c) ==
    /\ c.do \in LoginCalls \cup PageCalls \cup {"oldLogin"}
    /\ c.do \in LoginCalls \cup {"oldLogin"} => c.user \in Users
    /\ c.do \in Lists => c.user = NULL /\ (c.answer # NULL => c.answer.buttons \in BOOLEAN)
    /\ c.do = "getInfo" /\ c.answer # NULL => c.answer.name \in Users \cup {NULL}

\* A document has none of the calls of the other one.
OwnCalls ==
    \A c \in calls : /\ CallOK(c)
                     /\ c.do \in LoginCalls => doc = "index"
                     /\ c.do \in PageCalls => doc = "main"

Values ==
    /\ session \in Users \cup {NULL} /\ doc \in {"index", "main"}
    /\ blocked \in BOOLEAN /\ clicked \in BOOLEAN /\ changed \in BOOLEAN /\ lost \in BOOLEAN
    /\ info = NULL \/ info.name \in Users \cup {NULL}
    /\ route \in Menu \cup {"/"}
    /\ shown = NULL \/ shown \in [isAdmin : BOOLEAN, buttons : BOOLEAN]

Sockets ==
    /\ connecting \cap DOMAIN wire = {}
    /\ warnings \in 0..MaxWarnings
    /\ \A s \in DOMAIN wire : wire[s] \in Seq(1..MaxWarnings)
    /\ warningList \in Seq(1..MaxWarnings)

TypesInv == Values /\ OwnCalls /\ Sockets

\* No socket, no warning
LEMMA NoSockets ==
    ASSUME NEW w, NEW l, w = <<>>, l = <<>>
    PROVE  DOMAIN w = {} /\ l \in Seq(1..MaxWarnings)
  OBVIOUS

LEMMA HeadAndTail ==
    ASSUME NEW S, NEW q \in Seq(S), q # <<>>
    PROVE  Head(q) \in S /\ Tail(q) \in Seq(S)
  OBVIOUS

LEMMA Appended ==
    ASSUME NEW S, NEW q \in Seq(S), NEW e \in S
    PROVE  Append(q, e) \in Seq(S)
  OBVIOUS

LEMMA TypesInit == Init => TypesInv
  <1> SUFFICES ASSUME Init PROVE TypesInv
    OBVIOUS
  <1>1. Sockets
    <2>1. DOMAIN wire = {} /\ warningList \in Seq(1..MaxWarnings)
      BY NoSockets DEF Init
    <2>2. QED  BY <2>1, BoundsAreNat DEF Init, Sockets
  <1>2. Values /\ OwnCalls
    BY DEF Init, Values, OwnCalls
  <1>3. QED  BY <1>1, <1>2 DEF TypesInv

LEMMA TypesImply == WarningsInv /\ RolesInv /\ TypesInv => TypeOK
  <1> SUFFICES ASSUME WarningsInv, RolesInv, TypesInv PROVE TypeOK
    OBVIOUS
  <1>1. ASSUME NEW c \in calls, c.do # "oldLogin", doc = "main", c.do # "getInfo"
        PROVE  [c EXCEPT !.answer = NULL] \in Asks(route)
    <2>1. c.do \in Lists /\ c.user = NULL
      BY <1>1 DEF TypesInv, OwnCalls, CallOK, PageCalls, LoginCalls
    <2>2. [c EXCEPT !.answer = NULL] = [do |-> c.do, user |-> NULL, answer |-> NULL]
      BY <2>1 DEF RolesInv, AsksOnce, IsCall
    <2>3. /\ c.do = "listAll" => route = "/userList"
          /\ c.do = "groups" => route = "/userGroup"
      BY <1>1 DEF RolesInv, AsksOnce
    <2>4. QED  BY <2>1, <2>2, <2>3 DEF Asks, Call, Lists
  <1>2. ASSUME NEW c \in calls, c.do # "oldLogin", doc = "index"
        PROVE  c.do \in {"login", "badLogin"}
    BY <1>2 DEF TypesInv, OwnCalls, CallOK, PageCalls, LoginCalls
  <1>3. QED
    BY <1>1, <1>2 DEF TypesInv, Values, Sockets, WarningsInv, TypeOK

\* What a document or a route starts with
LEMMA FreshCallsOK ==
    ASSUME OwnCalls
    PROVE  /\ \A r : \A c \in Asks(r) : CallOK(c) /\ c.do \in Lists
           /\ \A c \in Orphans : CallOK(c) /\ c.do = "oldLogin"
           /\ CallOK(Call("getInfo", NULL)) /\ Call("getInfo", NULL).do = "getInfo"
  <1>1. ASSUME NEW r, NEW c \in Asks(r) PROVE CallOK(c) /\ c.do \in Lists
    <2>1. c = Call("listAll", NULL) \/ c = Call("groups", NULL)
      BY <1>1 DEF Asks
    <2>2. QED  BY <2>1 DEF Call, CallOK, Lists, LoginCalls, PageCalls
  <1>2. ASSUME NEW c \in Orphans PROVE CallOK(c) /\ c.do = "oldLogin"
    <2>1. PICK d \in calls : d.do \in {"login", "oldLogin"} /\ c = Call("oldLogin", d.user)
      BY <1>2 DEF Orphans
    <2>2. d.user \in Users
      BY <2>1 DEF OwnCalls, CallOK, LoginCalls
    <2>3. QED  BY <2>1, <2>2 DEF Call, CallOK, Lists, LoginCalls, PageCalls
  <1>3. CallOK(Call("getInfo", NULL)) /\ Call("getInfo", NULL).do = "getInfo"
    BY DEF Call, CallOK, Lists, LoginCalls, PageCalls
  <1>4. QED  BY <1>1, <1>2, <1>3

LEMMA TypesLoad ==
    ASSUME TypesInv, NEW r \in Menu \cup {"/"}, LoadMain(r), UNCHANGED server PROVE TypesInv'
  <1>1. /\ doc' = "main" /\ info' = NULL /\ blocked' = TRUE /\ clicked' = FALSE /\ lost' = FALSE
        /\ route' = r /\ shown' = NULL /\ UNCHANGED <<warnings, session, changed>>
        /\ wire' = <<>> /\ warningList' = <<>>
        /\ calls' = {Call("getInfo", NULL)} \cup Asks(r) \cup Orphans
    BY DEF LoadMain, Start, server
  <1>2. OwnCalls'
    BY <1>1, FreshCallsOK DEF TypesInv, OwnCalls, CallOK, Lists, LoginCalls, PageCalls
  <1>3. Values'
    BY <1>1 DEF TypesInv, Values
  <1>4. DOMAIN wire' = {} /\ warningList' \in Seq(1..MaxWarnings)
    BY <1>1, NoSockets
  <1>5. QED  BY <1>1, <1>2, <1>3, <1>4 DEF TypesInv, Sockets

LEMMA TypesClick ==
    ASSUME TypesInv, WarningsInv, NEW r \in Menu, Click(r) PROVE TypesInv'
  <1>1. /\ doc = "main" /\ UNCHANGED <<session, changed, doc, blocked, info>>
        /\ UNCHANGED <<wire, warningList, warnings, lost>>
        /\ route' = r /\ clicked' = TRUE /\ shown' = NULL
        /\ calls' = {c \in calls : c.do \in {"getInfo", "oldLogin"}} \cup Asks(r)
        /\ connecting' \subseteq connecting \cup {scope + 1}
    BY DEF Click, Start, document, server, Connects
  <1>2. OwnCalls'
    BY <1>1, FreshCallsOK DEF TypesInv, OwnCalls, CallOK, Lists, LoginCalls, PageCalls
  <1>3. scope + 1 \notin DOMAIN wire
    BY DEF WarningsInv
  <1>4. Values' /\ Sockets'
    BY <1>1, <1>3 DEF TypesInv, Values, Sockets
  <1>5. QED  BY <1>2, <1>4 DEF TypesInv

LEMMA TypesServe ==
    ASSUME TypesInv, RolesInv, NEW c \in calls, Serve(c) PROVE TypesInv'
  <1>1. /\ UNCHANGED <<doc, blocked, info, route, shown, clicked, lost>>
        /\ UNCHANGED <<connecting, wire, warningList, warnings>>
        /\ CallOK(c) /\ session \in Users \cup {NULL} /\ changed \in BOOLEAN
    BY DEF Serve, list, document, socket, TypesInv, OwnCalls, Values
  <1>2. ASSUME session' \in Users \cup {NULL}, changed' \in BOOLEAN, OwnCalls' PROVE TypesInv'
    BY <1>1, <1>2 DEF TypesInv, Values, Sockets
  <1>3. ASSUME NEW a, Answered(c, a),
               c.do \in Lists => a.buttons \in BOOLEAN,
               c.do = "getInfo" => a.name \in Users \cup {NULL}
        PROVE  OwnCalls'
    <2>1. \A d \in calls' : d \in calls \/ (d.do = c.do /\ d.answer = a /\ d.user = c.user)
      BY <1>3, AnsweredCalls DEF RolesInv, AsksOnce
    <2>2. ASSUME NEW d \in calls', d \notin calls PROVE CallOK(d)
      BY <1>1, <1>3, <2>1, <2>2 DEF CallOK
    <2>3. QED  BY <1>1, <2>1, <2>2 DEF TypesInv, OwnCalls
  <1>4. CASE OnLoginServed(c)
    <2>1. /\ Answered(c, [ok |-> c.do = "login"]) /\ c.do \in LoginCalls
          /\ session' \in {c.user, session} /\ changed' \in BOOLEAN
      BY <1>1, <1>4 DEF OnLoginServed, LoginCalls
    <2>2. OwnCalls'
      BY <1>3, <2>1 DEF LoginCalls, Lists
    <2>3. QED  BY <1>1, <1>2, <2>1, <2>2 DEF CallOK
  <1>5. CASE OnOldLogin(c)
    <2>1. /\ calls' \subseteq calls /\ c.do = "oldLogin" /\ session' = c.user
          /\ changed' \in BOOLEAN
      BY <1>1, <1>5 DEF OnOldLogin
    <2>2. OwnCalls'
      BY <1>1, <2>1 DEF TypesInv, OwnCalls
    <2>3. QED  BY <1>1, <1>2, <2>1, <2>2 DEF CallOK
  <1>6. CASE OnGetInfo(c)
    <2> DEFINE a == [name |-> session, authorities |-> Authorities(session)]
    <2>1. /\ Answered(c, a) /\ c.do = "getInfo" /\ a.name = session
          /\ session' = session /\ changed' = FALSE
      BY <1>6 DEF OnGetInfo
    <2> HIDE DEF a
    <2>2. OwnCalls'
      BY <1>1, <1>3, <2>1 DEF Lists
    <2>3. QED  BY <1>1, <1>2, <2>1, <2>2
  <1>7. CASE OnListAll(c) \/ OnGroupList(c)
    <2>1. /\ \E b \in BOOLEAN : Answered(c, [buttons |-> b])
          /\ c.do \in Lists /\ UNCHANGED <<session, changed>>
      BY <1>7 DEF OnListAll, OnGroupList, Lists, server
    <2>2. OwnCalls'
      BY <1>3, <2>1 DEF Lists
    <2>3. QED  BY <1>1, <1>2, <2>1, <2>2
  <1>8. QED  BY <1>4, <1>5, <1>6, <1>7 DEF Serve

LEMMA TypesCallback ==
    ASSUME TypesInv, NEW c \in calls, Callback(c) PROVE TypesInv'
  <1>1. CASE OnLoginAnswered(c) /\ c.answer.ok
    BY <1>1, TypesLoad DEF OnLoginAnswered
  <1>2. CASE OnLoginAnswered(c) /\ ~c.answer.ok
    BY <1>2 DEF OnLoginAnswered, TypesInv, Values, OwnCalls, Sockets, list, socket, document, server
  <1>3. ASSUME UNCHANGED <<session, changed, route, clicked, doc, lost>>,
               UNCHANGED <<connecting, wire, warningList, warnings>>, calls' \subseteq calls,
               blocked' \in BOOLEAN, info' = NULL \/ info'.name \in Users \cup {NULL},
               shown' = NULL \/ shown' \in [isAdmin : BOOLEAN, buttons : BOOLEAN]
        PROVE  TypesInv'
    BY <1>3 DEF TypesInv, Values, OwnCalls, Sockets
  <1>4. CASE OnInfo(c)
    <2>1. /\ c.do = "getInfo" /\ c.answer # NULL /\ info' = c.answer /\ blocked' = FALSE
          /\ UNCHANGED <<session, changed, route, clicked, doc, lost, shown>>
          /\ UNCHANGED <<connecting, wire, warningList, warnings>> /\ calls' \subseteq calls
      BY <1>4 DEF OnInfo, Callback, server, list, socket
    <2>2. info'.name \in Users \cup {NULL}
      BY <2>1 DEF TypesInv, OwnCalls, CallOK
    <2>3. QED  BY <1>3, <2>1, <2>2 DEF TypesInv, Values
  <1>5. CASE OnList(c)
    <2>1. /\ c.do \in Lists /\ c.answer # NULL
          /\ shown' = [isAdmin |-> IsAdmin, buttons |-> c.answer.buttons]
          /\ UNCHANGED <<session, changed, route, clicked, doc, lost, info, blocked>>
          /\ UNCHANGED <<connecting, wire, warningList, warnings>> /\ calls' \subseteq calls
      BY <1>5 DEF OnList, Callback, server, document, socket, Lists
    <2>2. IsAdmin \in BOOLEAN /\ c.answer.buttons \in BOOLEAN
      BY <2>1 DEF TypesInv, OwnCalls, CallOK, IsAdmin
    <2>3. QED  BY <1>3, <2>1, <2>2 DEF TypesInv, Values
  <1>6. QED  BY <1>1, <1>2, <1>4, <1>5 DEF Callback

\* Steps of the sockets alone
LEMMA TypesSockets ==
    ASSUME TypesInv, WarningsInv,
           \/ Warn \/ \E s \in connecting : Connected(s)
           \/ \E s \in DOMAIN wire : OnMessage(s)
           \/ \E s \in connecting \cup DOMAIN wire : SocketFails(s)
    PROVE  TypesInv'
  <1>1. Values' /\ OwnCalls'
    BY DEF TypesInv, Values, OwnCalls, Warn, Connected, OnMessage, SocketFails,
           server, list, document
  <1>2. CASE Warn
    <2>1. warnings \in 0..MaxWarnings /\ warnings < MaxWarnings /\ MaxWarnings \in Nat
      BY <1>2, BoundsAreNat DEF Warn, TypesInv, Sockets
    <2>2. /\ warnings' = warnings + 1 /\ UNCHANGED <<connecting, warningList>>
          /\ wire' = [s \in DOMAIN wire |-> Append(wire[s], warnings + 1)]
      BY <1>2 DEF Warn
    <2>3. \A s \in DOMAIN wire : wire'[s] \in Seq(1..MaxWarnings)
      BY <2>1, <2>2 DEF TypesInv, Sockets
    <2>4. QED  BY <1>1, <2>1, <2>2, <2>3 DEF TypesInv, Sockets
  <1>3. ASSUME NEW s \in connecting, Connected(s) PROVE TypesInv'
    <2>1. /\ connecting' = connecting \ {s} /\ UNCHANGED <<warningList, warnings>>
          /\ wire' = [t \in DOMAIN wire \cup {s} |-> IF t = s THEN <<>> ELSE wire[t]]
      BY <1>3 DEF Connected
    <2>2. /\ DOMAIN wire' = DOMAIN wire \cup {s} /\ <<>> \in Seq(1..MaxWarnings)
          /\ \A t \in DOMAIN wire' : wire'[t] = IF t = s THEN <<>> ELSE wire[t]
      BY <2>1
    <2>3. \A t \in DOMAIN wire' : wire'[t] \in Seq(1..MaxWarnings)
      BY <2>2 DEF TypesInv, Sockets
    <2>4. QED  BY <1>1, <2>1, <2>2, <2>3 DEF TypesInv, Sockets
  <1>4. ASSUME NEW s \in DOMAIN wire, OnMessage(s) PROVE TypesInv'
    <2>1. /\ wire[s] # <<>> /\ wire' = [wire EXCEPT ![s] = Tail(wire[s])]
          /\ UNCHANGED <<connecting, warnings>>
          /\ warningList' \in {Append(warningList, Head(wire[s])), warningList}
      BY <1>4 DEF OnMessage
    <2>2. Head(wire[s]) \in 1..MaxWarnings /\ Tail(wire[s]) \in Seq(1..MaxWarnings)
      BY <2>1, HeadAndTail, Zenon DEF TypesInv, Sockets
    <2>3. DOMAIN wire' = DOMAIN wire /\ \A t \in DOMAIN wire : wire'[t] \in Seq(1..MaxWarnings)
      BY <2>1, <2>2 DEF TypesInv, Sockets
    <2>4. warningList' \in Seq(1..MaxWarnings)
      <3>1. Append(warningList, Head(wire[s])) \in Seq(1..MaxWarnings)
        BY <2>2, Appended, Zenon DEF TypesInv, Sockets
      <3>2. QED  BY <2>1, <3>1 DEF TypesInv, Sockets
    <2>5. QED  BY <1>1, <2>1, <2>3, <2>4 DEF TypesInv, Sockets
  <1>5. ASSUME NEW s, SocketFails(s) PROVE TypesInv'
    <2>1. /\ wire' = [t \in DOMAIN wire \ {s} |-> wire[t]] /\ connecting' \subseteq connecting
          /\ UNCHANGED <<warningList, warnings>>
      BY <1>5 DEF SocketFails, Restrict
    <2>2. QED  BY <1>1, <2>1 DEF TypesInv, Sockets
  <1>6. QED  BY <1>2, <1>3, <1>4, <1>5

LEMMA TypesStep ==
    TypesInv /\ WarningsInv /\ RolesInv /\ [Next]_vars => TypesInv'
  <1> SUFFICES ASSUME TypesInv, WarningsInv, RolesInv, [Next]_vars PROVE TypesInv'
    OBVIOUS
  <1>1. CASE UNCHANGED vars
    BY <1>1 DEF vars, server, list, socket, document, TypesInv, Values, OwnCalls, Sockets
  <1>2. CASE Submit
    <2>1. PICK u \in Users, do \in {"login", "badLogin"} : calls' = calls \cup {Call(do, u)}
      BY <1>2 DEF Submit
    <2>2. CallOK(Call(do, u)) /\ Call(do, u).do \in LoginCalls \ PageCalls
      BY DEF Call, CallOK, Lists, LoginCalls, PageCalls
    <2>3. doc = "index" /\ UNCHANGED <<server, list, socket, document, lost>>
      BY <1>2 DEF Submit
    <2>4. OwnCalls'
      BY <2>1, <2>2, <2>3 DEF TypesInv, OwnCalls, document
    <2>5. QED
      BY <2>3, <2>4 DEF TypesInv, Values, Sockets, server, list, socket, document
  <1>3. CASE Reload
    BY <1>3, TypesLoad DEF Reload, TypesInv, Values
  <1>4. CASE OpenIndex
    <2>1. /\ doc' = "index" /\ blocked' = FALSE /\ info' = NULL /\ lost' = FALSE
          /\ calls' = Orphans /\ shown' = NULL /\ wire' = <<>> /\ warningList' = <<>>
          /\ UNCHANGED <<session, changed, route, clicked, warnings>>
      BY <1>4 DEF OpenIndex, server
    <2>2. OwnCalls'
      BY <2>1, FreshCallsOK DEF TypesInv, OwnCalls, CallOK, Lists, LoginCalls, PageCalls
    <2>3. DOMAIN wire' = {} /\ warningList' \in Seq(1..MaxWarnings)
      BY <2>1, NoSockets
    <2>4. QED  BY <2>1, <2>2, <2>3 DEF TypesInv, Values, Sockets
  <1>5. ASSUME NEW r \in Menu, Click(r) PROVE TypesInv'
    BY <1>5, TypesClick
  <1>6. ASSUME NEW c \in calls, Serve(c) PROVE TypesInv'
    BY <1>6, TypesServe
  <1>7. ASSUME NEW c \in calls, Callback(c) PROVE TypesInv'
    BY <1>7, TypesCallback
  <1>8. ASSUME NEW c \in calls, Lose(c) PROVE TypesInv'
    BY <1>8 DEF Lose, server, list, socket, document, TypesInv, Values, OwnCalls, Sockets
  <1>9. CASE Expire
    BY <1>9 DEF Expire, list, socket, document, TypesInv, Values, OwnCalls, Sockets
  <1>10. CASE Warn \/ (\E s \in connecting : Connected(s)) \/ (\E s \in DOMAIN wire : OnMessage(s))
              \/ (\E s \in connecting \cup DOMAIN wire : SocketFails(s))
    BY <1>10, TypesSockets
  <1>11. QED
    BY <1>1, <1>2, <1>3, <1>4, <1>5, <1>6, <1>7, <1>8, <1>9, <1>10 DEF Next

\* The page keeps its types: it waits for its own calls only, those of the
\* document and the route that are shown, and no socket is opened twice.
THEOREM TypeCorrect == Spec => []TypeOK
  <1>1. Init => WarningsInv /\ RolesInv /\ TypesInv
    BY WarningsInit, RolesInit, TypesInit
  <1>2. WarningsInv /\ RolesInv /\ TypesInv /\ [Next]_vars => (WarningsInv /\ RolesInv /\ TypesInv)'
    BY WarningsStep, RolesStep, TypesStep
  <1>3. QED  BY <1>1, <1>2, TypesImply, PTL DEF Spec
=============================================================================
