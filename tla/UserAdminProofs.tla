-------------------------- MODULE UserAdminProofs --------------------------
(***************************************************************************)
(* The page of an administrator who waits for the answers, beside any      *)
(* number of pages that do not: a row leaves his list only with the user   *)
(* it names, and the users he added are in the list and can log in.  For   *)
(* any users, pages and number of calls; nothing is assumed of the ids.    *)
(***************************************************************************)
EXTENDS UserAdmin, SequenceLemmas

---------------------------------------------------------------------------
(* Sequences: what is in one, and what is left without one element.        *)

IsSeq(s) == s \in Seq(ToSet(s))

\* A list shows each row object once.
IsList(s) == IsSeq(s) /\ \A i, j \in 1..Len(s) : s[i] = s[j] => i = j

LEMMA SeqFacts ==
    ASSUME NEW s, IsSeq(s)
    PROVE  /\ Len(s) \in Nat /\ DOMAIN s = 1..Len(s)
           /\ \A e : e \in ToSet(s) <=> \E i \in 1..Len(s) : s[i] = e
  BY DEF IsSeq, ToSet

LEMMA IsSeqIf ==
    ASSUME NEW S, NEW s \in Seq(S) PROVE IsSeq(s)
  <1>1. Len(s) \in Nat /\ DOMAIN s = 1..Len(s) /\ s \in [1..Len(s) -> ToSet(s)]
    BY DEF ToSet
  <1>2. QED  BY <1>1 DEF IsSeq

LEMMA AppendFacts ==
    ASSUME NEW s, IsSeq(s), NEW e
    PROVE  /\ IsSeq(Append(s, e)) /\ DOMAIN Append(s, e) = 1..Len(s) + 1
           /\ \A i \in DOMAIN s : Append(s, e)[i] = s[i]
           /\ Append(s, e)[Len(s) + 1] = e
           /\ ToSet(Append(s, e)) = ToSet(s) \cup {e}
  <1> DEFINE S == ToSet(s) \cup {e}
  <1>1. s \in Seq(S) /\ Len(s) \in Nat /\ DOMAIN s = 1..Len(s)
    BY DEF IsSeq
  <1>2. e \in S
    OBVIOUS
  <1> HIDE DEF S
  <1>3. /\ Append(s, e) \in Seq(S) /\ Len(Append(s, e)) = Len(s) + 1
        /\ \A i \in 1..Len(s) : Append(s, e)[i] = s[i]
        /\ Append(s, e)[Len(s) + 1] = e
    BY <1>1, <1>2
  <1>4. DOMAIN Append(s, e) = 1..Len(s) + 1
    BY <1>3
  <1>5. IsSeq(Append(s, e))
    BY <1>3, IsSeqIf
  <1>6. QED  BY <1>1, <1>3, <1>4, <1>5 DEF ToSet

\* splice(i, 1)
LEMMA RemoveFacts ==
    ASSUME NEW s, IsList(s), NEW k \in 1..Len(s)
    PROVE  IsList(RemoveAt(s, k)) /\ ToSet(RemoveAt(s, k)) = ToSet(s) \ {s[k]}
  <1> DEFINE S == ToSet(s)
             a == SubSeq(s, 1, k - 1)
             b == SubSeq(s, k + 1, Len(s))
             r == RemoveAt(s, k)
  <1>1. s \in Seq(S) /\ Len(s) \in Nat /\ DOMAIN s = 1..Len(s) /\ k \in Nat
    BY DEF IsList, IsSeq
  <1>2. \A i \in 1..Len(s) : s[i] \in S
    BY <1>1 DEF ToSet
  <1>3. /\ a \in Seq(S) /\ Len(a) = k - 1 /\ \A i \in 1..k - 1 : a[i] = s[i]
    BY <1>1, <1>2
  <1>4. /\ b \in Seq(S) /\ Len(b) = Len(s) - k /\ \A i \in 1..Len(s) - k : b[i] = s[k + i]
    <2>1. k + 1 \in Int /\ Len(s) \in Int /\ \A i \in k + 1..Len(s) : s[i] \in S
      BY <1>1, <1>2
    <2>2. /\ b \in Seq(S)
          /\ Len(b) = IF k + 1 =< Len(s) THEN Len(s) - (k + 1) + 1 ELSE 0
          /\ \A i \in 1..Len(s) - (k + 1) + 1 : b[i] = s[k + 1 + i - 1]
      BY <2>1, SubSeqProperties
    <2>3. Len(b) = Len(s) - k /\ Len(s) - (k + 1) + 1 = Len(s) - k
      <3>1. \A m, n \in Nat : m \in 1..n =>
               /\ n - (m + 1) + 1 = n - m
               /\ (IF m + 1 =< n THEN n - (m + 1) + 1 ELSE 0) = n - m
        OBVIOUS
      <3>2. QED  BY <1>1, <2>2, <3>1
    <2>4. \A i \in 1..Len(s) - k : k + 1 + i - 1 = k + i
      BY <1>1
    <2>5. QED  BY <2>2, <2>3, <2>4
  <1>5. r = a \o b
    BY DEF RemoveAt
  <1> HIDE DEF S, a, b, r
  <1>6. /\ r \in Seq(S) /\ Len(r) = Len(s) - 1
        /\ \A i \in 1..Len(s) - 1 : r[i] = IF i =< k - 1 THEN a[i] ELSE b[i - (k - 1)]
    <2>1. /\ r \in Seq(S) /\ Len(r) = Len(a) + Len(b)
          /\ \A i \in 1..Len(a) + Len(b) :
                r[i] = IF i =< Len(a) THEN a[i] ELSE b[i - Len(a)]
      BY <1>3, <1>4, <1>5, ConcatProperties
    <2>2. Len(a) + Len(b) = Len(s) - 1
      BY <1>1, <1>3, <1>4
    <2>3. QED  BY <1>3, <2>1, <2>2
  <1>7. \A i \in 1..Len(s) - 1 : r[i] = s[IF i < k THEN i ELSE i + 1]
    BY <1>1, <1>3, <1>4, <1>6
  <1>8. DOMAIN r = 1..Len(s) - 1 /\ IsSeq(r)
    BY <1>6, IsSeqIf
  <1>9. \A i, j \in 1..Len(r) : r[i] = r[j] => i = j
    <2> DEFINE At(i) == IF i < k THEN i ELSE i + 1
    <2>1. ASSUME NEW i \in 1..Len(s) - 1, NEW j \in 1..Len(s) - 1, s[At(i)] = s[At(j)]
          PROVE  i = j
      <3>1. At(i) \in 1..Len(s) /\ At(j) \in 1..Len(s)
        BY <1>1
      <3>2. At(i) = At(j)
        BY <2>1, <3>1 DEF IsList
      <3>3. QED  BY <1>1, <3>2
    <2>2. QED  BY <1>6, <1>7, <2>1
  <1>10. ASSUME NEW e, e \in ToSet(r) PROVE e \in ToSet(s) \ {s[k]}
    <2>1. PICK i \in 1..Len(s) - 1 : e = s[IF i < k THEN i ELSE i + 1]
      BY <1>7, <1>8, <1>10 DEF ToSet
    <2>2. PICK j \in 1..Len(s) : j # k /\ e = s[j]
      BY <1>1, <2>1
    <2>3. QED  BY <1>1, <2>2 DEF IsList, ToSet
  <1>11. ASSUME NEW e \in ToSet(s), e # s[k] PROVE e \in ToSet(r)
    <2>1. PICK j \in 1..Len(s) : j # k /\ e = s[j]
      BY <1>1, <1>11 DEF ToSet
    <2>2. PICK i \in 1..Len(s) - 1 : j = IF i < k THEN i ELSE i + 1
      <3>1. CASE j < k
        BY <1>1, <3>1
      <3>2. CASE j > k
        <4>1. j - 1 \in 1..Len(s) - 1 /\ ~(j - 1 < k) /\ j = (j - 1) + 1
          BY <1>1, <3>2
        <4>2. QED  BY <4>1
      <3>3. QED  BY <1>1, <2>1, <3>1, <3>2
    <2>3. r[i] = e /\ i \in DOMAIN r
      BY <1>7, <1>8, <2>1, <2>2
    <2>4. QED  BY <2>3 DEF ToSet
  <1>12. QED  BY <1>8, <1>9, <1>10, <1>11 DEF IsList, r

LEMMA SpliceFacts ==
    ASSUME NEW s, IsList(s), NEW row \in ToSet(s)
    PROVE  IsList(Splice(s, row)) /\ ToSet(Splice(s, row)) = ToSet(s) \ {row}
  <1> DEFINE I == {i \in 1..Len(s) : s[i] = row}
  <1>1. Len(s) \in Nat /\ I # {} /\ I \subseteq Nat
    BY SeqFacts DEF IsList
  <1>2. SelectInSeq(s, LAMBDA r : r = row) = Min(I)
    BY <1>1, Zenon DEF SelectInSeq
  <1>3. Min(I) \in I
    <2> HIDE DEF I
    <2>1. QED  BY <1>1, Smallest
  <1>4. Min(I) # 0
    BY <1>1, <1>3
  <1>5. Splice(s, row) = RemoveAt(s, Min(I))
    BY <1>2, <1>4, Zenon DEF Splice
  <1>6. QED  BY <1>3, <1>5, RemoveFacts

\* Without the row the last one goes.
LEMMA SpliceList ==
    ASSUME NEW s, IsList(s), NEW row
    PROVE  IsList(Splice(s, row)) /\ ToSet(Splice(s, row)) \subseteq ToSet(s)
  <1>1. CASE row \in ToSet(s)
    BY <1>1, SpliceFacts
  <1>2. CASE row \notin ToSet(s)
    <2> DEFINE I == {i \in 1..Len(s) : s[i] = row}
    <2>1. Len(s) \in Nat /\ I = {}
      BY <1>2, SeqFacts DEF IsList
    <2>2. SelectInSeq(s, LAMBDA r : r = row) = 0
      BY <2>1, Zenon DEF SelectInSeq
    <2>3. Splice(s, row) = Front(s)
      BY <2>2, Zenon DEF Splice
    <2> HIDE DEF I
    <2>4. \A i \in 1..Len(s) - 1 : s[i] \in ToSet(s)
      BY <2>1, SeqFacts DEF IsList
    <2>5. /\ Front(s) \in Seq(ToSet(s))
          /\ Len(Front(s)) = IF 1 =< Len(s) - 1 THEN Len(s) - 1 ELSE 0
          /\ \A i \in 1..Len(s) - 1 : Front(s)[i] = s[i]
      <3>1. /\ SubSeq(s, 1, Len(s) - 1) \in Seq(ToSet(s))
            /\ Len(SubSeq(s, 1, Len(s) - 1))
                  = IF 1 =< Len(s) - 1 THEN Len(s) - 1 - 1 + 1 ELSE 0
            /\ \A i \in 1..Len(s) - 1 - 1 + 1 : SubSeq(s, 1, Len(s) - 1)[i] = s[1 + i - 1]
        BY <2>1, <2>4, SubSeqProperties
      <3>2. QED  BY <2>1, <3>1 DEF Front
    <2>6. ToSet(Front(s)) \subseteq ToSet(s)
      <3>1. \A q \in Seq(ToSet(s)) : \A i \in DOMAIN q : q[i] \in ToSet(s)
        OBVIOUS
      <3>2. QED  BY <2>5, <3>1 DEF ToSet
    <2>7. QED  BY <2>1, <2>3, <2>5, <2>6, IsSeqIf DEF IsList
  <1>3. QED  BY <1>1, <1>2

---------------------------------------------------------------------------
(* Users: a position is one user for ever, with his id and his name; only  *)
(* his password and group change, and then his id is in edited.            *)

IsUser(u) == u = [id |-> u.id, name |-> u.name, password |-> u.password, group |-> u.group]
UsersOK   == IsSeq(users) /\ \A i \in 1..Len(users) : IsUser(users[i])

\* What a step of the server may do to the users
UsersKept ==
    /\ DOMAIN users \subseteq DOMAIN users'
    /\ edited \subseteq edited'
    /\ \A i \in DOMAIN users :
          /\ users'[i].id = users[i].id /\ users'[i].name = users[i].name
          /\ users'[i].password = users[i].password \/ users[i].id \in edited'

LEMMA Unserved == UNCHANGED <<users, edited>> => UsersKept /\ (UsersOK => UsersOK')
  BY DEF UsersKept, UsersOK

LEMMA AddKeepsUsers ==
    ASSUME UsersOK, NEW c, AddUserInfo(c)
    PROVE  /\ UsersOK' /\ UsersKept /\ Len(users) + 1 \in DOMAIN users'
           /\ users'[Len(users) + 1].name = c.name
           /\ users'[Len(users) + 1].password = c.password
  <1> DEFINE u == [id |-> SumOfIds, name |-> c.name, password |-> c.password, group |-> c.group]
  <1>1. users' = Append(users, u) /\ edited' = edited
    BY DEF AddUserInfo
  <1>2. IsUser(u) /\ u.name = c.name /\ u.password = c.password
    BY DEF IsUser
  <1> HIDE DEF u
  <1>3. Len(users) \in Nat /\ DOMAIN users = 1..Len(users) /\ IsSeq(users)
    BY SeqFacts DEF UsersOK
  <1>4. /\ IsSeq(users') /\ DOMAIN users' = 1..Len(users) + 1
        /\ \A i \in DOMAIN users : users'[i] = users[i]
        /\ users'[Len(users) + 1] = u
    BY <1>1, <1>3, AppendFacts
  <1>5. \A i \in DOMAIN users' : IsUser(users'[i])
    BY <1>2, <1>3, <1>4 DEF UsersOK
  <1>6. DOMAIN users' = 1..Len(users')
    BY <1>4, SeqFacts
  <1>7. UsersOK'
    BY <1>4, <1>5, <1>6 DEF UsersOK, IsSeq, IsUser, ToSet
  <1>8. UsersKept
    BY <1>1, <1>3, <1>4 DEF UsersKept
  <1>9. QED  BY <1>2, <1>3, <1>4, <1>7, <1>8

LEMMA ChangedUser ==
    ASSUME NEW u, IsUser(u), NEW password, NEW group
    PROVE  [u EXCEPT !.password = password, !.group = group]
           = [id |-> u.id, name |-> u.name, password |-> password, group |-> group]
  <1> DEFINE a == [u EXCEPT !.password = password]
  <1>1. a = [id |-> u.id, name |-> u.name, password |-> password, group |-> u.group]
    BY DEF IsUser
  <1>2. [u EXCEPT !.password = password, !.group = group] = [a EXCEPT !.group = group]
    OBVIOUS
  <1> HIDE DEF a
  <1>3. QED  BY <1>1, <1>2

LEMMA UpdateKeepsUsers ==
    ASSUME UsersOK, NEW c, UpdateUserInfo(c)
    PROVE  UsersOK' /\ UsersKept
  <1> DEFINE id == c.row.id
             x  == Min(WithId(id))
  <1>1. CASE WithId(id) = {}
    BY <1>1, Unserved DEF UpdateUserInfo
  <1>2. CASE WithId(id) # {}
    <2>1. Len(users) \in Nat /\ DOMAIN users = 1..Len(users) /\ WithId(id) \subseteq Nat
      BY SeqFacts DEF UsersOK, WithId
    <2>2. x \in WithId(id)
      <3> HIDE DEF id
      <3>1. QED  BY <1>2, <2>1, Smallest
    <2>3. x \in DOMAIN users /\ users[x].id = id
      BY <2>2 DEF WithId
    <2>4. /\ users' = [users EXCEPT ![x] = [users[x] EXCEPT !.password = c.password, !.group = id]]
          /\ edited' = edited \cup {id}
      BY <1>2 DEF UpdateUserInfo
    <2> DEFINE v == [id |-> users[x].id, name |-> users[x].name,
                     password |-> c.password, group |-> id]
    <2> HIDE DEF x, id
    <2>5. users' = [users EXCEPT ![x] = v]
      <3>1. [users[x] EXCEPT !.password = c.password, !.group = id] = v
        <4>1. IsUser(users[x])
          BY <2>1, <2>3 DEF UsersOK
        <4>2. QED  BY <4>1, ChangedUser
      <3>2. QED  BY <2>4, <3>1
    <2>6. IsUser(v) /\ v.id = id /\ v.name = users[x].name
      BY <2>3 DEF IsUser
    <2> HIDE DEF v
    <2>7. /\ DOMAIN users' = DOMAIN users /\ users'[x] = v
          /\ \A i \in DOMAIN users : i # x => users'[i] = users[i]
      BY <2>3, <2>5
    <2>8. IsSeq(users') /\ DOMAIN users' = 1..Len(users')
      <3>1. users \in Seq(ToSet(users) \cup {v}) /\ x \in 1..Len(users)
        BY <2>1, <2>3 DEF UsersOK, IsSeq
      <3>2. users' \in Seq(ToSet(users) \cup {v})
        BY <2>5, <3>1
      <3>3. QED  BY <3>2, IsSeqIf, SeqFacts
    <2>9. UsersOK'
      BY <2>1, <2>6, <2>7, <2>8 DEF UsersOK, IsSeq, IsUser, ToSet
    <2>10. UsersKept
      BY <2>3, <2>4, <2>6, <2>7 DEF UsersKept
    <2>11. QED  BY <2>9, <2>10
  <1>3. QED  BY <1>1, <1>2

LEMMA UsersStep ==
    ASSUME UsersOK, [Next]_vars PROVE UsersOK' /\ UsersKept
  <1>1. CASE UNCHANGED vars
    BY <1>1, Unserved DEF vars
  <1>2. ASSUME NEW p \in Pages, Open(p) \/ DelUser(p) \/ EditUser(p) \/ AddUser(p)
        PROVE  UNCHANGED <<users, edited>>
    BY <1>2 DEF Open, DelUser, EditUser, AddUser
  <1>3. ASSUME NEW c \in answered, OnList(c) \/ OnDeleted(c) \/ OnAdded(c) \/ OnEdited(c)
        PROVE  UNCHANGED <<users, edited>>
    BY <1>3 DEF OnList, OnDeleted, OnAdded, OnEdited
  <1>4. ASSUME NEW c, Lose(c) PROVE UNCHANGED <<users, edited>>
    BY <1>4 DEF Lose
  <1>5. ASSUME NEW c \in sent, Serve(c) PROVE UsersOK' /\ UsersKept
    <2>1. CASE GetUserListAll(c) \/ DelUserByID(c)
      BY <2>1, Unserved DEF GetUserListAll, DelUserByID
    <2>2. CASE AddUserInfo(c)
      BY <2>2, AddKeepsUsers
    <2>3. CASE UpdateUserInfo(c)
      BY <2>3, UpdateKeepsUsers
    <2>4. QED  BY <1>5, <2>1, <2>2, <2>3 DEF Serve
  <1>6. QED
    BY <1>1, <1>2, <1>3, <1>4, <1>5, Unserved DEF Next

---------------------------------------------------------------------------
(* Calls: a patient page has one under way, and the row of a deletion is   *)
(* in its list meanwhile.                                                  *)

IsCall(c) ==
    c = [n |-> c.n, page |-> c.page, do |-> c.do, row |-> c.row, name |-> c.name,
         password |-> c.password, group |-> c.group, code |-> c.code, list |-> c.list]

ListsOK ==
    /\ DOMAIN view = Pages /\ DOMAIN added = Pages
    /\ \A p \in Pages : IsList(view[p])
    /\ \A c \in sent \cup answered : IsCall(c) /\ c.page \in Pages
    /\ \A c \in answered : c.do = "listAll" => IsList(c.list)

OneCall ==
    \A p \in Patient :
        /\ \A c, d \in sent \cup answered : c.page = p /\ d.page = p => c = d
        /\ \A c \in sent : c.page = p => c \notin answered

DeletedShown ==
    \A p \in Patient : \A c \in sent \cup answered :
        c.page = p /\ c.do = "del" => c.row \in ToSet(view[p])

CallsInv == ListsOK /\ OneCall /\ DeletedShown

HasUser(a, i) ==
    /\ users[i].name = a.name
    /\ users[i].password = a.password \/ users[i].id \in edited

Shows(list, i) == \E row \in ToSet(list) : row.name = users[i].name /\ row.id = users[i].id

\* A user who was added is there, and his row is in the list, or in the one
\* that is under way to replace it.
AddedShown(p, a) ==
    \E i \in DOMAIN users :
        /\ HasUser(a, i)
        /\ \A c \in answered : c.page = p /\ c.do = "listAll" => Shows(c.list, i)
        /\ Shows(view[p], i) \/ \E c \in sent \cup answered : c.page = p /\ c.do = "listAll"

AddedInv ==
    /\ \A c \in answered : c.do = "add" => \E i \in DOMAIN users : HasUser(c, i)
    /\ \A p \in Patient \ lost : \A a \in added[p] : AddedShown(p, a)

AdminInv == UsersOK /\ CallsInv /\ AddedInv

LEMMA AdminInit == Init => AdminInv
  <1> SUFFICES ASSUME Init PROVE AdminInv
    OBVIOUS
  <1>1. UsersOK
    BY UsersAreTyped, SeqFacts DEF Init, UsersOK, IsSeq, IsUser
  <1>2. IsList(<<>>)
    BY DEF IsList, IsSeq
  <1>3. CallsInv /\ AddedInv
    BY <1>2, PatientPages DEF Init, CallsInv, ListsOK, OneCall, DeletedShown, AddedInv
  <1>4. QED  BY <1>1, <1>3 DEF AdminInv

---------------------------------------------------------------------------
(* What the steps have in common: a click sends a call, the server answers *)
(* one, and a callback takes an answer and may send another call.          *)

shown == <<view, added, lost>>

Sends(p, k) ==
    /\ IsCall(k) /\ k.page = p
    /\ sent' = sent \cup {k}

Clicks(p, k) ==
    /\ p \in Patient => \A c \in sent \cup answered : c.page # p
    /\ k.do = "del" => k.row \in ToSet(view[p])
    /\ Sends(p, k) /\ UNCHANGED <<shown, users, edited, answered>>

LEMMA CallIs ==
    ASSUME NEW p, NEW do, NEW row, NEW name, NEW password, NEW group
    PROVE  LET k == Call(p, do, row, name, password, group)
           IN  IsCall(k) /\ k.page = p /\ k.do = do /\ k.row = row
  BY DEF Call, IsCall

LEMMA ClicksSend ==
    ASSUME NEW p \in Pages, Open(p) \/ DelUser(p) \/ EditUser(p) \/ AddUser(p)
    PROVE  \E k : Clicks(p, k)
  <1>1. p \in Patient => \A c \in sent \cup answered : c.page # p
    BY DEF Open, DelUser, EditUser, AddUser, MayClick, InFlight
  <1>2. UNCHANGED <<shown, users, edited, answered>>
    BY DEF Open, DelUser, EditUser, AddUser, page, shown
  <1>3. \E k : Sends(p, k) /\ (k.do = "del" => k.row \in ToSet(view[p]))
    <2>1. CASE Open(p)
      BY <2>1, CallIs DEF Open, Send, Sends
    <2>2. CASE DelUser(p)
      <3>1. PICK row \in ToSet(view[p]) : Send(Call(p, "del", row, NULL, NULL, NULL))
        BY <2>2 DEF DelUser, EditableRows
      <3>2. QED  BY <3>1, CallIs DEF Send, Sends
    <2>3. CASE EditUser(p)
      BY <2>3, CallIs DEF EditUser, Send, Sends
    <2>4. CASE AddUser(p)
      BY <2>4, CallIs DEF AddUser, Send, Sends
    <2>5. QED  BY <2>1, <2>2, <2>3, <2>4
  <1>4. QED  BY <1>1, <1>2, <1>3 DEF Clicks

LEMMA ClickStep ==
    ASSUME AdminInv, NEW p \in Pages, NEW k, Clicks(p, k) PROVE CallsInv' /\ AddedInv'
  <1>1. /\ sent' = sent \cup {k} /\ k.page = p /\ IsCall(k)
        /\ UNCHANGED <<view, added, lost, users, edited, answered>>
    BY DEF Clicks, Sends, shown
  <1>2. ListsOK'
    BY <1>1 DEF AdminInv, CallsInv, ListsOK, IsCall
  <1>3. OneCall'
    BY <1>1 DEF AdminInv, CallsInv, OneCall, Clicks
  <1>4. DeletedShown'
    BY <1>1 DEF AdminInv, CallsInv, DeletedShown, Clicks
  <1>5. AddedInv'
    BY <1>1 DEF AdminInv, AddedInv, AddedShown, HasUser, Shows
  <1>6. QED  BY <1>2, <1>3, <1>4, <1>5 DEF CallsInv

---------------------------------------------------------------------------
(* The server                                                              *)

Answers(c, d) ==
    /\ IsCall(d) /\ d.page = c.page /\ d.do = c.do /\ d.row = c.row
    /\ sent' = sent \ {c} /\ answered' = answered \cup {d} /\ UNCHANGED shown
    /\ d.do = "listAll" => IsList(d.list) /\ \A i \in DOMAIN users : Shows(d.list, i)
    /\ d.do = "listAll" => UNCHANGED <<users, edited>>
    /\ d.do = "add" => \E i \in DOMAIN users' : HasUser(d, i)'

LEMMA AnswerIs ==
    ASSUME NEW c, IsCall(c), NEW code, NEW list, Answer(c, code, list)
    PROVE  \E d : /\ IsCall(d) /\ d.page = c.page /\ d.do = c.do /\ d.row = c.row
                  /\ d.name = c.name /\ d.password = c.password /\ d.list = list
                  /\ sent' = sent \ {c} /\ answered' = answered \cup {d}
  <1> DEFINE a == [c EXCEPT !.code = code]
             d == [c EXCEPT !.code = code, !.list = list]
             e == [n |-> c.n, page |-> c.page, do |-> c.do, row |-> c.row, name |-> c.name,
                   password |-> c.password, group |-> c.group, code |-> code, list |-> list]
  <1>1. a = [n |-> c.n, page |-> c.page, do |-> c.do, row |-> c.row, name |-> c.name,
             password |-> c.password, group |-> c.group, code |-> code, list |-> c.list]
    BY DEF IsCall
  <1>2. d = [a EXCEPT !.list = list]
    OBVIOUS
  <1>3. sent' = sent \ {c} /\ answered' = answered \cup {d}
    BY DEF Answer
  <1> HIDE DEF a, d
  <1>4. d = e
    BY <1>1, <1>2
  <1>5. /\ IsCall(e) /\ e.page = c.page /\ e.do = c.do /\ e.row = c.row
        /\ e.name = c.name /\ e.password = c.password /\ e.list = list
    BY DEF IsCall
  <1>6. QED  BY <1>3, <1>4, <1>5

\* The rows of a new list
LEMMA ListOfUsers ==
    ASSUME UsersOK, NEW list, NEW n,
           list = [i \in DOMAIN users |-> [object |-> <<n, i>>, id |-> users[i].id,
                                           name |-> users[i].name,
                                           group |-> GroupName(users[i].group)]]
    PROVE  IsList(list) /\ \A i \in DOMAIN users : Shows(list, i)
  <1>1. Len(users) \in Nat /\ DOMAIN users = 1..Len(users)
    BY SeqFacts DEF UsersOK
  <1>2. /\ DOMAIN list = 1..Len(users)
        /\ \A i \in DOMAIN list : /\ list[i].object = <<n, i>> /\ list[i].id = users[i].id
                                  /\ list[i].name = users[i].name
    BY <1>1
  <1>3. list \in [1..Len(users) -> ToSet(list)]
    BY <1>1, <1>2 DEF ToSet
  <1>4. IsSeq(list) /\ Len(list) = Len(users)
    BY <1>1, <1>3 DEF IsSeq
  <1>5. \A i, j \in DOMAIN list : list[i] = list[j] => i = j
    <2>1. ASSUME NEW i \in DOMAIN list, NEW j \in DOMAIN list, list[i] = list[j] PROVE i = j
      <3>1. <<n, i>> = <<n, j>>
        BY <1>2, <2>1
      <3>2. QED  BY <3>1
    <2>2. QED  BY <2>1
  <1>6. \A i \in DOMAIN users : Shows(list, i)
    BY <1>1, <1>2 DEF Shows, ToSet
  <1>7. QED  BY <1>2, <1>4, <1>5, <1>6 DEF IsList

LEMMA ServeAnswers ==
    ASSUME UsersOK, NEW c \in sent, IsCall(c), Serve(c)
    PROVE  \E d : Answers(c, d)
  <1>1. UNCHANGED shown
    BY DEF Serve, page, shown
  <1>2. CASE GetUserListAll(c)
    <2> DEFINE list == [i \in DOMAIN users |->
                           [object |-> <<c.n, i>>, id |-> users[i].id, name |-> users[i].name,
                            group |-> GroupName(users[i].group)]]
    <2>1. c.do = "listAll" /\ Answer(c, 0, list) /\ UNCHANGED <<users, edited>>
      BY <1>2 DEF GetUserListAll
    <2>2. IsList(list) /\ \A i \in DOMAIN users : Shows(list, i)
      BY ListOfUsers
    <2> HIDE DEF list
    <2>3. PICK d : /\ IsCall(d) /\ d.page = c.page /\ d.do = c.do /\ d.row = c.row
                   /\ d.list = list /\ sent' = sent \ {c} /\ answered' = answered \cup {d}
      BY <2>1, AnswerIs
    <2>4. Answers(c, d)
      BY <1>1, <2>1, <2>2, <2>3 DEF Answers
    <2>5. QED  BY <2>4
  <1>3. CASE AddUserInfo(c)
    <2>1. c.do = "add" /\ Answer(c, 0, <<>>)
      BY <1>3 DEF AddUserInfo
    <2>2. PICK i \in DOMAIN users' : users'[i].name = c.name /\ users'[i].password = c.password
      BY <1>3, AddKeepsUsers
    <2>3. PICK d : /\ IsCall(d) /\ d.page = c.page /\ d.do = c.do /\ d.row = c.row
                   /\ d.name = c.name /\ d.password = c.password
                   /\ sent' = sent \ {c} /\ answered' = answered \cup {d}
      BY <2>1, AnswerIs
    <2>4. users'[i].name = d.name /\ users'[i].password = d.password
      BY <2>2, <2>3
    <2>5. Answers(c, d)
      BY <1>1, <2>1, <2>3, <2>4 DEF Answers, HasUser
    <2>6. QED  BY <2>5
  <1>4. CASE UpdateUserInfo(c) \/ DelUserByID(c)
    <2>1. c.do \in {"saveEdit", "del"}
      BY <1>4 DEF UpdateUserInfo, DelUserByID
    <2>2. PICK code : Answer(c, code, <<>>)
      BY <1>4 DEF UpdateUserInfo, DelUserByID
    <2>3. PICK d : /\ IsCall(d) /\ d.page = c.page /\ d.do = c.do /\ d.row = c.row
                   /\ sent' = sent \ {c} /\ answered' = answered \cup {d}
      BY <2>2, AnswerIs
    <2>4. Answers(c, d)
      BY <1>1, <2>1, <2>3 DEF Answers
    <2>5. QED  BY <2>4
  <1>5. QED  BY <1>2, <1>3, <1>4 DEF Serve

\* While the server works, who was there stays, and so does what shows him.
LEMMA StillThere ==
    ASSUME UsersKept, NEW i \in DOMAIN users
    PROVE  /\ i \in DOMAIN users'
           /\ \A a : HasUser(a, i) => HasUser(a, i)'
           /\ \A list : Shows(list, i) => Shows(list, i)'
  BY DEF UsersKept, HasUser, Shows

LEMMA ServeStep ==
    ASSUME AdminInv, UsersKept, NEW c \in sent, NEW d, Answers(c, d) PROVE CallsInv' /\ AddedInv'
  <1>1. /\ IsCall(d) /\ d.page = c.page /\ d.do = c.do /\ d.row = c.row
        /\ sent' = sent \ {c} /\ answered' = answered \cup {d}
        /\ UNCHANGED <<view, added, lost>>
    BY DEF Answers, shown
  <1>2. ListsOK'
    BY <1>1 DEF AdminInv, CallsInv, ListsOK, IsCall, Answers
  <1>3. OneCall'
    BY <1>1 DEF AdminInv, CallsInv, OneCall
  <1>4. DeletedShown'
    BY <1>1 DEF AdminInv, CallsInv, DeletedShown
  <1>5. ASSUME NEW e \in answered', e.do = "add" PROVE \E i \in DOMAIN users' : HasUser(e, i)'
    <2>1. CASE e = d
      BY <1>5, <2>1 DEF Answers
    <2>2. CASE e \in answered
      <3>1. PICK i \in DOMAIN users : HasUser(e, i)
        BY <1>5, <2>2 DEF AdminInv, AddedInv
      <3>2. QED  BY <3>1, StillThere
    <2>3. QED  BY <1>1, <2>1, <2>2
  <1>6. ASSUME NEW p \in Patient \ lost, NEW a \in added[p] PROVE AddedShown(p, a)'
    <2>1. PICK i \in DOMAIN users :
             /\ HasUser(a, i)
             /\ \A e \in answered : e.page = p /\ e.do = "listAll" => Shows(e.list, i)
             /\ Shows(view[p], i) \/ \E e \in sent \cup answered : e.page = p /\ e.do = "listAll"
      BY <1>6 DEF AdminInv, AddedInv, AddedShown
    <2>2. i \in DOMAIN users' /\ HasUser(a, i)'
      BY <2>1, StillThere
    <2>3. \A e \in answered' : e.page = p /\ e.do = "listAll" => Shows(e.list, i)'
      <3>1. d.do = "listAll" => Shows(d.list, i)
        BY DEF Answers
      <3>2. QED  BY <1>1, <2>1, <3>1, StillThere
    <2>4. Shows(view[p], i) => Shows(view[p], i)'
      BY <1>1 DEF Shows, UsersKept
    <2>5. \A e \in sent \cup answered : e.page = p /\ e.do = "listAll" =>
             \E f \in sent' \cup answered' : f.page = p /\ f.do = "listAll"
      BY <1>1
    <2>6. QED  BY <2>1, <2>2, <2>3, <2>4, <2>5 DEF AddedShown
  <1>7. AddedInv'
    BY <1>1, <1>5, <1>6 DEF AddedInv
  <1>8. QED  BY <1>2, <1>3, <1>4, <1>7 DEF CallsInv

---------------------------------------------------------------------------
(* Callbacks: the answer to c is taken, and a list may be asked for.       *)

Takes(c, asked) ==
    /\ answered' = answered \ {c} /\ sent' = sent \cup asked
    /\ \A k \in asked : IsCall(k) /\ k.page = c.page /\ k.do = "listAll"
    /\ \A k, l \in asked : k = l
    /\ UNCHANGED <<users, edited, lost>>
    /\ DOMAIN view' = Pages /\ DOMAIN added' = Pages /\ IsList(view'[c.page])
    /\ \A q \in Pages \ {c.page} : view'[q] = view[q] /\ added'[q] = added[q]

LEMMA TakeStep ==
    ASSUME AdminInv, NEW c \in answered, NEW asked, Takes(c, asked),
           c.page \in Patient \ lost => \A a \in added'[c.page] : AddedShown(c.page, a)'
    PROVE  CallsInv' /\ AddedInv'
  <1>1. /\ answered' = answered \ {c} /\ sent' = sent \cup asked
        /\ \A k \in asked : IsCall(k) /\ k.page = c.page /\ k.do = "listAll"
        /\ \A k, l \in asked : k = l
        /\ \A q \in Pages \ {c.page} : view'[q] = view[q] /\ added'[q] = added[q]
        /\ c.page \in Pages /\ UNCHANGED <<users, edited, lost>>
    BY DEF Takes, AdminInv, CallsInv, ListsOK
  <1>2. c.page \in Patient => /\ \A d \in sent \cup answered : d.page = c.page => d = c
                              /\ c \notin sent
    BY DEF AdminInv, CallsInv, OneCall
  <1>3. ListsOK'
    <2>1. \A q \in Pages : IsList(view'[q])
      BY <1>1 DEF Takes, AdminInv, CallsInv, ListsOK
    <2>2. \A d \in sent' \cup answered' : IsCall(d) /\ d.page \in Pages
      BY <1>1 DEF AdminInv, CallsInv, ListsOK
    <2>3. \A d \in answered' : d.do = "listAll" => IsList(d.list)
      BY <1>1 DEF AdminInv, CallsInv, ListsOK
    <2>4. QED  BY <2>1, <2>2, <2>3 DEF Takes, ListsOK
  <1>4. OneCall'
    <2>1. ASSUME NEW p \in Patient
          PROVE  /\ \A d, e \in sent' \cup answered' : d.page = p /\ e.page = p => d = e
                 /\ \A d \in sent' : d.page = p => d \notin answered'
      <3>1. CASE p = c.page
        BY <1>1, <1>2, <2>1, <3>1
      <3>2. CASE p # c.page
        BY <1>1, <2>1, <3>2 DEF AdminInv, CallsInv, OneCall
      <3>3. QED  BY <3>1, <3>2
    <2>2. QED  BY <2>1 DEF OneCall
  <1>5. DeletedShown'
    <2>1. ASSUME NEW p \in Patient, NEW d \in sent' \cup answered', d.page = p, d.do = "del"
          PROVE  d.row \in ToSet(view'[p])
      <3>1. d \in sent \cup answered /\ d # c /\ p # c.page
        BY <1>1, <1>2, <2>1
      <3>2. d.row \in ToSet(view[p]) /\ view'[p] = view[p]
        BY <1>1, <2>1, <3>1, PatientPages DEF AdminInv, CallsInv, DeletedShown
      <3>3. QED  BY <3>2
    <2>2. QED  BY <2>1 DEF DeletedShown
  <1>6. ASSUME NEW p \in Patient \ lost, NEW a \in added'[p] PROVE AddedShown(p, a)'
    <2>1. CASE p # c.page
      <3>1. /\ a \in added[p] /\ view'[p] = view[p]
        BY <1>1, <1>6, <2>1, PatientPages
      <3>2. \A d : d.page = p => /\ d \in answered' <=> d \in answered
                                /\ d \in sent' <=> d \in sent
        BY <1>1, <2>1
      <3>3. AddedShown(p, a)
        BY <1>6, <3>1 DEF AdminInv, AddedInv
      <3>4. QED  BY <1>1, <3>1, <3>2, <3>3 DEF AddedShown, HasUser, Shows
    <2>2. QED  BY <1>6, <2>1
  <1>7. AddedInv'
    <2>1. \A d \in answered' : d.do = "add" => \E i \in DOMAIN users : HasUser(d, i)'
      BY <1>1 DEF AdminInv, AddedInv, HasUser
    <2>2. QED  BY <1>1, <1>6, <2>1 DEF AddedInv
  <1>8. QED  BY <1>3, <1>4, <1>5, <1>7 DEF CallsInv

\* A patient page has no call but the one whose answer it takes.
LEMMA OnlyCall ==
    ASSUME AdminInv, NEW c \in answered, c.page \in Patient \ lost
    PROVE  /\ \A d \in sent \cup answered : d.page = c.page => d = c
           /\ c.do # "listAll" => \A a \in added[c.page] :
                  \E i \in DOMAIN users : HasUser(a, i) /\ Shows(view[c.page], i)
           /\ c.do = "listAll" => \A a \in added[c.page] :
                  \E i \in DOMAIN users : HasUser(a, i) /\ Shows(c.list, i)
  <1>1. \A d \in sent \cup answered : d.page = c.page => d = c
    BY DEF AdminInv, CallsInv, OneCall
  <1>2. QED  BY <1>1 DEF AdminInv, AddedInv, AddedShown

LEMMA TakenShows ==
    ASSUME AdminInv, NEW c \in answered, NEW asked, Takes(c, asked), c.page \in Patient \ lost,
           NEW a, NEW i \in DOMAIN users, HasUser(a, i),
           Shows(view[c.page], i)' \/ asked # {}
    PROVE  AddedShown(c.page, a)'
  <1>1. i \in DOMAIN users' /\ HasUser(a, i)'
    BY DEF Takes, HasUser
  <1>2. \A d \in answered' : d.page # c.page
    BY OnlyCall DEF Takes
  <1>3. asked # {} => \E d \in sent' \cup answered' : d.page = c.page /\ d.do = "listAll"
    BY DEF Takes
  <1>4. UNCHANGED <<users, edited>>
    BY DEF Takes
  <1>5. QED  BY <1>1, <1>2, <1>3, <1>4 DEF AddedShown

LEMMA ListStep ==
    ASSUME AdminInv, NEW c \in answered, OnList(c) PROVE CallsInv' /\ AddedInv'
  <1>1. /\ c.do = "listAll" /\ view' = [view EXCEPT ![c.page] = c.list]
        /\ answered' = answered \ {c} /\ UNCHANGED <<users, sent, added, edited, lost>>
    BY DEF OnList, Received
  <1>2. c.page \in Pages /\ IsList(c.list) /\ DOMAIN view = Pages /\ DOMAIN added = Pages
    BY <1>1 DEF AdminInv, CallsInv, ListsOK
  <1>3. view'[c.page] = c.list /\ DOMAIN view' = Pages
        /\ \A q \in Pages \ {c.page} : view'[q] = view[q]
    BY <1>1, <1>2
  <1>4. Takes(c, {})
    BY <1>1, <1>2, <1>3 DEF Takes
  <1>5. ASSUME c.page \in Patient \ lost, NEW a \in added[c.page] PROVE AddedShown(c.page, a)'
    <2>1. PICK i \in DOMAIN users : HasUser(a, i) /\ Shows(c.list, i)
      BY <1>1, <1>5, OnlyCall
    <2>2. Shows(view[c.page], i)'
      BY <1>1, <1>3, <2>1 DEF Shows
    <2>3. QED  BY <1>4, <1>5, <2>1, <2>2, TakenShows
  <1>6. QED  BY <1>1, <1>4, <1>5, TakeStep

\* What a list loses when a deletion is answered
LEMMA DeletedRow ==
    ASSUME AdminInv, NEW c \in answered, OnDeleted(c)
    PROVE  /\ DOMAIN view' = Pages /\ IsList(view'[c.page])
           /\ ToSet(view'[c.page]) \subseteq ToSet(view[c.page])
           /\ \A q \in Pages \ {c.page} : view'[q] = view[q]
           /\ c.page \in Patient =>
                 \/ view'[c.page] = view[c.page]
                 \/ c.code = 0 /\ ToSet(view'[c.page]) = ToSet(view[c.page]) \ {c.row}
  <1>1. /\ c.page \in Pages /\ DOMAIN view = Pages /\ IsList(view[c.page])
        /\ c.page \in Patient => c.row \in ToSet(view[c.page])
    BY DEF AdminInv, CallsInv, ListsOK, DeletedShown, OnDeleted
  <1>2. view' = [view EXCEPT ![c.page] = IF c.code = 0 THEN Splice(view[c.page], c.row)
                                        ELSE view[c.page]]
    BY DEF OnDeleted
  <1>3. /\ DOMAIN view' = Pages /\ \A q \in Pages \ {c.page} : view'[q] = view[q]
        /\ view'[c.page] = IF c.code = 0 THEN Splice(view[c.page], c.row) ELSE view[c.page]
    BY <1>1, <1>2
  <1>4. /\ IsList(Splice(view[c.page], c.row))
        /\ ToSet(Splice(view[c.page], c.row)) \subseteq ToSet(view[c.page])
    BY <1>1, SpliceList
  <1>5. QED  BY <1>1, <1>3, <1>4, SpliceFacts

LEMMA DeletedStep ==
    ASSUME AdminInv, NEW c \in answered, OnDeleted(c) PROVE CallsInv' /\ AddedInv'
  <1>1. /\ c.do = "del" /\ answered' = answered \ {c}
        /\ added' = [added EXCEPT ![c.page] = {a \in added[c.page] : a.name # c.row.name}]
        /\ UNCHANGED <<users, sent, edited, lost>>
    BY DEF OnDeleted, Received
  <1>2. c.page \in Pages /\ DOMAIN added = Pages
    BY DEF AdminInv, CallsInv, ListsOK
  <1>3. /\ DOMAIN added' = Pages /\ \A q \in Pages \ {c.page} : added'[q] = added[q]
        /\ added'[c.page] = {a \in added[c.page] : a.name # c.row.name}
    BY <1>1, <1>2
  <1>4. Takes(c, {})
    BY <1>1, <1>3, DeletedRow DEF Takes
  <1>5. ASSUME c.page \in Patient \ lost, NEW a \in added'[c.page] PROVE AddedShown(c.page, a)'
    <2>1. a \in added[c.page] /\ a.name # c.row.name
      BY <1>3, <1>5
    <2>2. PICK i \in DOMAIN users : HasUser(a, i) /\ Shows(view[c.page], i)
      BY <1>1, <1>5, <2>1, OnlyCall
    <2>3. PICK row \in ToSet(view[c.page]) : row.name = users[i].name /\ row.id = users[i].id
      BY <2>2 DEF Shows
    <2>4. row # c.row
      BY <2>1, <2>2, <2>3 DEF HasUser
    <2>5. row \in ToSet(view'[c.page])
      BY <1>5, <2>3, <2>4, DeletedRow
    <2>6. Shows(view[c.page], i)'
      BY <1>1, <2>3, <2>5 DEF Shows
    <2>7. QED  BY <1>4, <1>5, <2>2, <2>6, TakenShows
  <1>6. QED  BY <1>4, <1>5, TakeStep

\* The list stays, and a new one may be asked for.
LEMMA AddedStep ==
    ASSUME AdminInv, NEW c \in answered, OnAdded(c) \/ OnEdited(c) PROVE CallsInv' /\ AddedInv'
  <1> DEFINE k == Call(c.page, "listAll", NoRow, NULL, NULL, NULL)
  <1>1. IsCall(k) /\ k.page = c.page /\ k.do = "listAll"
    BY CallIs
  <1>2. /\ c.page \in Pages /\ DOMAIN added = Pages /\ DOMAIN view = Pages
        /\ IsList(view[c.page])
    BY DEF AdminInv, CallsInv, ListsOK
  <1>3. PICK asked \in {{}, {k}} : sent' = sent \cup asked /\ (OnAdded(c) => asked = {k})
    BY DEF OnAdded, OnEdited, Send
  <1> HIDE DEF k
  <1>4. /\ c.do \in {"add", "saveEdit"} /\ answered' = answered \ {c}
        /\ UNCHANGED <<users, view, edited, lost>>
        /\ OnEdited(c) => added' = added
        /\ OnAdded(c) => /\ c.do = "add"
                         /\ added' = [added EXCEPT ![c.page] = added[c.page] \cup
                                         {[name |-> c.name, password |-> c.password]}]
    BY DEF OnAdded, OnEdited, Received, page
  <1>5. Takes(c, asked)
    BY <1>1, <1>2, <1>3, <1>4 DEF Takes
  <1>6. ASSUME c.page \in Patient \ lost, NEW a \in added'[c.page] PROVE AddedShown(c.page, a)'
    <2>1. CASE a \in added[c.page]
      <3>1. PICK i \in DOMAIN users : HasUser(a, i) /\ Shows(view[c.page], i)
        BY <1>4, <1>6, <2>1, OnlyCall
      <3>2. Shows(view[c.page], i)'
        BY <1>4, <3>1 DEF Shows
      <3>3. QED  BY <1>5, <1>6, <3>1, <3>2, TakenShows
    <2>2. CASE a \notin added[c.page]
      <3>1. OnAdded(c) /\ a = [name |-> c.name, password |-> c.password]
        BY <1>2, <1>4, <1>6, <2>2
      <3>2. PICK i \in DOMAIN users : HasUser(c, i)
        BY <1>4, <3>1 DEF AdminInv, AddedInv
      <3>3. HasUser(a, i) /\ asked # {}
        BY <1>3, <3>1, <3>2 DEF HasUser
      <3>4. QED  BY <1>5, <1>6, <3>3, TakenShows
    <2>3. QED  BY <2>1, <2>2
  <1>7. QED  BY <1>5, <1>6, TakeStep

LEMMA LoseStep ==
    ASSUME AdminInv, NEW c \in sent \cup answered, Lose(c) PROVE CallsInv' /\ AddedInv'
  <1>1. /\ sent' = sent \ {c} /\ answered' = answered \ {c} /\ lost' = lost \cup {c.page}
        /\ UNCHANGED <<users, view, added, edited>>
    BY DEF Lose
  <1>2. ListsOK'
    BY <1>1 DEF AdminInv, CallsInv, ListsOK
  <1>3. OneCall' /\ DeletedShown'
    BY <1>1 DEF AdminInv, CallsInv, OneCall, DeletedShown
  <1>4. ASSUME NEW p \in Patient \ lost', NEW a \in added[p] PROVE AddedShown(p, a)'
    <2>1. p # c.page /\ AddedShown(p, a)
      BY <1>1, <1>4 DEF AdminInv, AddedInv
    <2>2. \A d : d.page = p => /\ d \in answered' <=> d \in answered
                              /\ d \in sent' <=> d \in sent
      BY <1>1, <2>1
    <2>3. QED  BY <1>1, <2>1, <2>2 DEF AddedShown, HasUser, Shows
  <1>5. AddedInv'
    BY <1>1, <1>4 DEF AdminInv, AddedInv, HasUser
  <1>6. QED  BY <1>2, <1>3, <1>5 DEF CallsInv

LEMMA AdminStep == AdminInv /\ [Next]_vars => AdminInv'
  <1> SUFFICES ASSUME AdminInv, [Next]_vars PROVE AdminInv'
    OBVIOUS
  <1>1. UsersOK' /\ UsersKept
    BY UsersStep DEF AdminInv
  <1>2. CASE UNCHANGED vars
    BY <1>2 DEF vars, page, AdminInv, UsersOK, CallsInv, ListsOK, OneCall, DeletedShown,
                AddedInv, AddedShown, HasUser, Shows
  <1>3. ASSUME NEW p \in Pages, Open(p) \/ DelUser(p) \/ EditUser(p) \/ AddUser(p)
        PROVE  CallsInv' /\ AddedInv'
    BY <1>3, ClicksSend, ClickStep
  <1>4. ASSUME NEW c \in sent, Serve(c) PROVE CallsInv' /\ AddedInv'
    <2>1. IsCall(c) /\ UsersOK
      BY DEF AdminInv, CallsInv, ListsOK
    <2>2. PICK d : Answers(c, d)
      BY <1>4, <2>1, ServeAnswers
    <2>3. QED  BY <1>1, <2>2, ServeStep
  <1>5. ASSUME NEW c \in answered, OnList(c) \/ OnDeleted(c) \/ OnAdded(c) \/ OnEdited(c)
        PROVE  CallsInv' /\ AddedInv'
    BY <1>5, ListStep, DeletedStep, AddedStep
  <1>6. ASSUME NEW c \in sent \cup answered, Lose(c) PROVE CallsInv' /\ AddedInv'
    BY <1>6, LoseStep
  <1>7. QED  BY <1>1, <1>2, <1>3, <1>4, <1>5, <1>6 DEF Next, AdminInv

---------------------------------------------------------------------------
\* fakeDB.cpp and userListController.js: when the page of a patient user is at
\* rest and lost no call, the users it added are in its list and log in with
\* their passwords unless these were changed, whatever other pages did.
THEOREM OwnWorkIsShown == Spec => []OwnWorkShown
  <1>1. ASSUME AdminInv PROVE OwnWorkShown
    <2>1. ASSUME NEW p \in Patient, InFlight(p) = {}, p \notin lost, NEW a \in added[p]
          PROVE  /\ \E row \in ToSet(view[p]) : row.name = a.name
                 /\ \/ IsLogin(a.name, a.password)
                    \/ \E row \in ToSet(view[p]) : row.name = a.name /\ row.id \in edited
      <3>1. \A c \in sent \cup answered : c.page # p
        BY <2>1 DEF InFlight
      <3>2. PICK i \in DOMAIN users : HasUser(a, i) /\ Shows(view[p], i)
        BY <1>1, <2>1, <3>1 DEF AdminInv, AddedInv, AddedShown
      <3>3. QED  BY <3>2 DEF HasUser, Shows, IsLogin
    <2>2. QED  BY <2>1 DEF OwnWorkShown
  <1>2. QED  BY <1>1, AdminInit, AdminStep, PTL DEF Spec

\* userListController.js:69: from the list of a patient user a row leaves only
\* when the deletion of that row is confirmed, or with a new list; indexOf()
\* finds it there, so splice() never takes another one.
THEOREM PatientRowsOnlyLeave == Spec => PatientRowsLeave
  <1>1. ASSUME AdminInv, [Next]_vars, NEW p \in Patient PROVE RowsLeaveAsConfirmed(p)
    <2>1. CASE view'[p] = view[p]
      BY <2>1 DEF RowsLeaveAsConfirmed
    <2>2. CASE view'[p] # view[p]
      <3>1. PICK c \in answered : OnList(c) \/ OnDeleted(c)
        BY <1>1, <2>2 DEF Next, vars, page, Open, DelUser, EditUser, AddUser, Serve, OnAdded,
                          OnEdited, Lose
      <3>2. answered' = answered \ {c} /\ p \in Pages /\ DOMAIN view = Pages
        BY <1>1, <3>1, PatientPages DEF OnList, OnDeleted, Received, AdminInv, CallsInv, ListsOK
      <3>3. CASE OnList(c)
        <4>1. view' = [view EXCEPT ![c.page] = c.list] /\ c.do = "listAll"
          BY <3>3 DEF OnList
        <4>2. view'[p] = c.list
          BY <2>2, <3>2, <4>1
        <4>3. QED  BY <3>2, <4>1, <4>2 DEF RowsLeaveAsConfirmed
      <3>4. CASE OnDeleted(c)
        <4>1. p = c.page /\ c.do = "del"
          BY <1>1, <2>2, <3>2, <3>4, DeletedRow DEF OnDeleted
        <4>2. c.code = 0 /\ ToSet(view'[p]) = ToSet(view[p]) \ {c.row}
          BY <1>1, <2>2, <3>4, <4>1, DeletedRow
        <4>3. QED  BY <3>2, <4>1, <4>2 DEF RowsLeaveAsConfirmed
      <3>5. QED  BY <3>1, <3>3, <3>4
    <2>3. QED  BY <2>1, <2>2
  <1>2. ASSUME AdminInv, [Next]_vars PROVE \A p \in Patient : RowsLeaveAsConfirmed(p)
    BY <1>1, <1>2
  <1>3. QED  BY <1>2, AdminInit, AdminStep, PTL DEF Spec, PatientRowsLeave
---------------------------------------------------------------------------
(***************************************************************************)
(* The ids: as long as the sum of all ids fits an unsigned int, a new user *)
(* has an id that is larger than all others, and a row names one user.     *)
(***************************************************************************)

HasIds(us) == Len(us) \in Nat /\ \A k \in 1..Len(us) : us[k].id \in Nat

\* f sums the ids of us up to the n-th.
Sums(us, n, f) ==
    /\ f \in [0..n -> Nat] /\ f[0] = 0
    /\ \A k \in 1..n : f[k] = f[k - 1] + us[k].id

LEMMA SumsExist ==
    ASSUME NEW us, HasIds(us)
    PROVE  \E f : Sums(us, Len(us), f)
  <1> DEFINE n == Len(us)
             step == [k \in 1..n |-> [x \in Nat |-> x + us[k].id]]
  <1>1. n \in Nat /\ \A k \in 1..n : us[k].id \in Nat
    BY DEF HasIds
  <1>2. step \in [1..n -> [Nat -> Nat]]
    BY <1>1
  <1>3. \A k \in 1..n : \A x \in Nat : step[k][x] = x + us[k].id
    OBVIOUS
  <1> HIDE DEF n, step
  <1>4. PICK f \in [0..n -> Nat] : StepsFrom(f, n, 0, step)
    BY <1>1, <1>2, StepsExist
  <1>5. ASSUME NEW k \in 1..n PROVE f[k] = f[k - 1] + us[k].id
    <2>1. k - 1 \in 0..n
      BY <1>1
    <2>2. f[k] = step[k][f[k - 1]] /\ f[k - 1] \in Nat
      BY <1>4, <2>1, Zenon DEF StepsFrom
    <2>3. QED  BY <1>3, <2>2, Zenon
  <1>6. f[0] = 0
    BY <1>4, Zenon DEF StepsFrom
  <1>7. QED  BY <1>4, <1>5, <1>6, Zenon DEF Sums, n

LEMMA SumFacts ==
    ASSUME NEW us, HasIds(us)
    PROVE  /\ SumTo(us, 0) = 0
           /\ \A n \in 0..Len(us) : SumTo(us, n) \in Nat
           /\ \A n \in 1..Len(us) : SumTo(us, n) = SumTo(us, n - 1) + us[n].id
  <1> DEFINE IsSum(f) == f = [k \in 0..Len(us) |-> IF k = 0 THEN 0 ELSE f[k - 1] + us[k].id]
             sum == CHOOSE f : IsSum(f)
  <1>1. Len(us) \in Nat
    BY DEF HasIds
  <1>2. \A n : SumTo(us, n) = sum[n]
    BY DEF SumTo
  <1>3. PICK f : Sums(us, Len(us), f)
    BY SumsExist
  <1>4. IsSum(f)
    <2>1. \A k \in 0..Len(us) : f[k] = IF k = 0 THEN 0 ELSE f[k - 1] + us[k].id
      BY <1>1, <1>3 DEF Sums
    <2>2. f = [k \in 0..Len(us) |-> f[k]]
      BY <1>3 DEF Sums
    <2>3. QED  BY <2>1, <2>2
  <1>5. IsSum(sum)
    <2> HIDE DEF IsSum
    <2>1. QED  BY <1>4
  <1>6. sum[0] = 0 /\ \A n \in 1..Len(us) : sum[n] = sum[n - 1] + us[n].id
    <2>1. \A n \in 0..Len(us) : sum[n] = IF n = 0 THEN 0 ELSE sum[n - 1] + us[n].id
      <3> HIDE DEF sum
      <3>1. QED  BY <1>5
    <2> HIDE DEF sum, IsSum
    <2>2. QED  BY <1>1, <2>1
  <1> HIDE DEF sum, IsSum
  <1> DEFINE S == {n \in Nat : n =< Len(us) => sum[n] \in Nat}
  <1>7. 0 \in S
    BY <1>6
  <1>8. ASSUME NEW n \in Nat, n \in S PROVE n + 1 \in S
    BY <1>1, <1>6, <1>8 DEF HasIds
  <1> HIDE DEF S
  <1>9. Nat \subseteq S
    BY <1>7, <1>8, Induction
  <1>10. \A n \in 0..Len(us) : sum[n] \in Nat
    BY <1>1, <1>9 DEF S
  <1>11. QED  BY <1>2, <1>6, <1>10

\* The sum depends on the ids alone.
LEMMA SameSums ==
    ASSUME NEW us, NEW vs, HasIds(us), HasIds(vs), Len(us) =< Len(vs),
           \A k \in 1..Len(us) : us[k].id = vs[k].id
    PROVE  \A n \in 0..Len(us) : SumTo(us, n) = SumTo(vs, n)
  <1> DEFINE S == {n \in Nat : n =< Len(us) => SumTo(us, n) = SumTo(vs, n)}
  <1>1. Len(us) \in Nat /\ Len(vs) \in Nat
    BY DEF HasIds
  <1>2. 0 \in S
    BY SumFacts
  <1>3. ASSUME NEW n \in Nat, n \in S PROVE n + 1 \in S
    <2>1. CASE n + 1 =< Len(us)
      <3>1. n + 1 \in 1..Len(us) /\ n + 1 \in 1..Len(vs) /\ (n + 1) - 1 = n
        BY <1>1, <2>1
      <3>2. /\ SumTo(us, n + 1) = SumTo(us, n) + us[n + 1].id
            /\ SumTo(vs, n + 1) = SumTo(vs, n) + vs[n + 1].id
        BY <3>1, SumFacts
      <3>3. SumTo(us, n) = SumTo(vs, n)
        BY <1>1, <1>3, <2>1
      <3>4. QED  BY <3>1, <3>2, <3>3
    <2>2. CASE ~(n + 1 =< Len(us))
      BY <2>2
    <2>3. QED  BY <2>1, <2>2
  <1> HIDE DEF S
  <1>4. Nat \subseteq S
    BY <1>2, <1>3, Induction
  <1>5. QED  BY <1>1, <1>4 DEF S

\* Two ids are not more than all of them.
LEMMA SumOfTwo ==
    ASSUME NEW us, HasIds(us)
    PROVE  \A i, j \in 1..Len(us) : i < j => us[i].id + us[j].id =< SumTo(us, Len(us))
  <1> DEFINE One(n) == \A i \in 1..n : us[i].id =< SumTo(us, n)
             Two(n) == \A i, j \in 1..n : i < j => us[i].id + us[j].id =< SumTo(us, n)
             S == {n \in Nat : n =< Len(us) => One(n) /\ Two(n)}
  <1>1. Len(us) \in Nat
    BY DEF HasIds
  <1>2. 0 \in S
    OBVIOUS
  <1>3. ASSUME NEW n \in Nat, n \in S PROVE n + 1 \in S
    <2>1. CASE n + 1 =< Len(us)
      <3>1. n + 1 \in 1..Len(us) /\ (n + 1) - 1 = n /\ n \in 0..Len(us) /\ n + 1 \in 0..Len(us)
        BY <1>1, <2>1
      <3>2. /\ SumTo(us, n + 1) = SumTo(us, n) + us[n + 1].id
            /\ SumTo(us, n) \in Nat /\ SumTo(us, n + 1) \in Nat
        BY <3>1, SumFacts
      <3>3. \A i \in 1..n + 1 : us[i].id \in Nat
        BY <1>1, <3>1 DEF HasIds
      <3>4. One(n) /\ Two(n)
        BY <1>3, <3>1
      <3>5. One(n + 1)
        BY <3>2, <3>3, <3>4
      <3>6. Two(n + 1)
        BY <3>2, <3>3, <3>4
      <3>7. QED  BY <3>5, <3>6
    <2>2. CASE ~(n + 1 =< Len(us))
      BY <2>2
    <2>3. QED  BY <2>1, <2>2
  <1> HIDE DEF S
  <1>4. Nat \subseteq S
    BY <1>2, <1>3, Induction
  <1>5. QED  BY <1>1, <1>4 DEF S

---------------------------------------------------------------------------
\* No sum that became an id was too large for an unsigned int.
IdsFit ==
    \A n \in Len(InitialUsers)..Len(users) - 1 : SumTo(users, n) < 2^IdBits

IdsApart == \A i, j \in 1..Len(users) : users[i].id = users[j].id => i = j

IdsInv ==
    /\ Len(users) >= Len(InitialUsers)
    /\ \A i \in 1..Len(users) : users[i].id \in Nat
    /\ IdsFit => IdsApart /\ \A i \in 1..Len(users) : users[i].id # 0

NamesUser(row) == \E i \in DOMAIN users : users[i].id = row.id /\ users[i].name = row.name

\* A row that is shown, or under way, is one of a user, whatever the ids are.
RowsInv ==
    /\ \A p \in Pages : \A row \in ToSet(view[p]) : NamesUser(row)
    /\ \A c \in sent \cup answered : c.row # NoRow => NamesUser(c.row)
    /\ \A c \in answered : c.do = "listAll" => \A row \in ToSet(c.list) : NamesUser(row)

LEMMA IdsAre ==
    ASSUME UsersOK, IdsInv
    PROVE  /\ HasIds(users) /\ Len(users) \in Nat /\ DOMAIN users = 1..Len(users)
           /\ Len(InitialUsers) \in Nat /\ Len(users) >= 2
  <1>1. Len(users) \in Nat /\ DOMAIN users = 1..Len(users)
    BY SeqFacts DEF UsersOK
  <1>2. Len(InitialUsers) \in Nat
    BY UsersAreTyped
  <1>3. QED  BY <1>1, <1>2, InitialIds DEF HasIds, IdsInv

\* A new user
LEMMA NewId ==
    ASSUME UsersOK, IdsInv, NEW c, AddUserInfo(c)
    PROVE  IdsInv'
  <1> DEFINE u == [id |-> SumOfIds, name |-> c.name, password |-> c.password, group |-> c.group]
             N == Len(users)
             Total == SumTo(users, N)
  <1>1. users' = Append(users, u) /\ u.id = Total % 2^IdBits
    BY DEF AddUserInfo, SumOfIds
  <1>2. /\ HasIds(users) /\ N \in Nat /\ DOMAIN users = 1..N
        /\ Len(InitialUsers) \in Nat /\ N >= 2 /\ IsSeq(users)
    BY IdsAre DEF UsersOK
  <1>3. Total \in Nat /\ \A i, j \in 1..N : i < j => users[i].id + users[j].id =< Total
    <2>1. Len(users) \in 0..Len(users)
      BY <1>2
    <2>2. SumTo(users, Len(users)) \in Nat
      BY <1>2, <2>1, SumFacts
    <2>3. QED  BY <1>2, <2>2, SumOfTwo
  <1> HIDE DEF u, N
  <1>4. /\ DOMAIN users' = 1..N + 1 /\ IsSeq(users')
        /\ \A i \in 1..N : users'[i] = users[i]
        /\ users'[N + 1] = u
    BY <1>1, <1>2, AppendFacts DEF N
  <1>5. Len(users') = N + 1
    <2>1. DOMAIN users' = 1..Len(users') /\ Len(users') \in Nat
      BY <1>4, SeqFacts
    <2>2. QED  BY <1>2, <1>4, <2>1
  <1> DEFINE M == 2^IdBits
  <1>6. M \in Nat \ {0}
    BY WordHasValues
  <1> HIDE DEF M
  <1>7. u.id = Total % M
    BY <1>1 DEF M
  <1> HIDE DEF Total
  <1>8. u.id \in Nat /\ (Total < M => u.id = Total)
    BY <1>3, <1>6, <1>7
  <1>9. \A i \in 1..N + 1 : users'[i].id \in Nat
    BY <1>2, <1>4, <1>8 DEF HasIds, N
  <1>10. HasIds(users')
    BY <1>2, <1>5, <1>9 DEF HasIds
  <1>11. \A n \in 0..N : SumTo(users', n) = SumTo(users, n)
    <2>1. \A k \in 1..Len(users) : users[k].id = users'[k].id
      BY <1>4 DEF N
    <2>2. Len(users) =< Len(users')
      BY <1>2, <1>5 DEF N
    <2>3. QED  BY <1>2, <1>10, <2>1, <2>2, SameSums DEF N
  <1>12. N >= Len(InitialUsers)
    BY DEF IdsInv, N
  <1>13. ASSUME IdsFit' PROVE IdsFit /\ Total < M
    <2>1. \A n \in Len(InitialUsers)..N : SumTo(users', n) < M
      BY <1>2, <1>5, <1>13 DEF IdsFit, M
    <2>2. \A n \in Len(InitialUsers)..N : SumTo(users, n) < M
      BY <1>2, <1>11, <2>1
    <2>3. IdsFit
      BY <1>2, <2>2 DEF IdsFit, N, M
    <2>4. Total < M
      BY <1>2, <1>12, <2>2 DEF Total
    <2>5. QED  BY <2>3, <2>4
  <1>14. ASSUME IdsFit' PROVE IdsApart' /\ \A i \in 1..N + 1 : users'[i].id # 0
    <2>1. IdsApart /\ \A i \in 1..N : users[i].id \in Nat \ {0}
      BY <1>13, <1>14, <1>2 DEF IdsInv, HasIds, N
    <2>2. u.id = Total
      BY <1>8, <1>13, <1>14
    <2>3. \A i \in 1..N : users[i].id < Total
      <3>1. ASSUME NEW i \in 1..N PROVE users[i].id < Total
        <4>1. PICK j \in 1..N : j # i
          BY <1>2
        <4>2. users[i].id + users[j].id =< Total
          BY <1>2, <1>3, <2>1, <4>1
        <4>3. QED  BY <1>3, <2>1, <4>2
      <3>2. QED  BY <3>1
    <2>4. IdsApart'
      BY <1>2, <1>3, <1>4, <1>5, <2>1, <2>2, <2>3 DEF IdsApart, N
    <2>5. u.id # 0
      BY <1>2, <1>3, <2>1, <2>2, <2>3
    <2>6. QED  BY <1>2, <1>4, <2>1, <2>4, <2>5
  <1>15. QED  BY <1>2, <1>5, <1>9, <1>12, <1>14 DEF IdsInv

\* No user comes, and ids stay.
LEMMA IdsStay ==
    ASSUME UsersOK, UsersOK', UsersKept, IdsInv, DOMAIN users' = DOMAIN users
    PROVE  IdsInv'
  <1>1. /\ HasIds(users) /\ Len(users) \in Nat /\ DOMAIN users = 1..Len(users)
        /\ Len(InitialUsers) \in Nat
    BY IdsAre
  <1>2. Len(users') = Len(users)
    <2>1. DOMAIN users' = 1..Len(users') /\ Len(users') \in Nat
      BY SeqFacts DEF UsersOK
    <2>2. QED  BY <1>1, <2>1
  <1>3. \A i \in 1..Len(users) : users'[i].id = users[i].id
    BY <1>1 DEF UsersKept
  <1>4. HasIds(users')
    BY <1>1, <1>2, <1>3 DEF HasIds
  <1>5. \A n \in 0..Len(users) : SumTo(users', n) = SumTo(users, n)
    BY <1>1, <1>2, <1>3, <1>4, SameSums
  <1>6. IdsFit' => IdsFit
    BY <1>1, <1>2, <1>5 DEF IdsFit
  <1>7. QED  BY <1>2, <1>3, <1>6 DEF IdsInv, IdsApart

LEMMA IdsStep ==
    ASSUME UsersOK, IdsInv, [Next]_vars PROVE IdsInv'
  <1>1. UsersOK' /\ UsersKept
    BY UsersStep
  <1>2. UNCHANGED users => IdsInv'
    BY <1>1, IdsStay
  <1>3. CASE \E c \in sent : Serve(c)
    <2>1. PICK c \in sent : Serve(c)
      BY <1>3
    <2>2. CASE GetUserListAll(c) \/ DelUserByID(c)
      BY <1>2, <2>2 DEF GetUserListAll, DelUserByID
    <2>3. CASE AddUserInfo(c)
      BY <2>3, NewId
    <2>4. CASE UpdateUserInfo(c)
      <3>1. DOMAIN users' = DOMAIN users
        BY <2>4 DEF UpdateUserInfo
      <3>2. QED  BY <1>1, <3>1, IdsStay
    <2>5. QED  BY <2>1, <2>2, <2>3, <2>4 DEF Serve
  <1>4. CASE ~ \E c \in sent : Serve(c)
    <2>1. UNCHANGED users
      BY <1>4 DEF Next, vars, Open, DelUser, EditUser, AddUser, OnList, OnDeleted, OnAdded,
                  OnEdited, Lose
    <2>2. QED  BY <1>2, <2>1
  <1>5. QED  BY <1>3, <1>4

LEMMA IdsInit == Init => IdsInv
  <1> SUFFICES ASSUME Init PROVE IdsInv
    OBVIOUS
  <1>1. users = InitialUsers /\ Len(InitialUsers) \in Nat
    BY UsersAreTyped DEF Init
  <1>2. QED  BY <1>1, InitialIds DEF IdsInv, IdsApart

---------------------------------------------------------------------------
\* The rows

LEMMA StillNames ==
    ASSUME UsersKept, NEW row, NamesUser(row) PROVE NamesUser(row)'
  BY DEF UsersKept, NamesUser

\* A call is sent with the row it is about, if any.
LEMMA ClickRows ==
    ASSUME RowsInv, UsersKept, NEW p \in Pages,
           Open(p) \/ DelUser(p) \/ EditUser(p) \/ AddUser(p)
    PROVE  RowsInv'
  <1>1. UNCHANGED <<view, answered>>
    BY DEF Open, DelUser, EditUser, AddUser, page
  <1>2. PICK k : sent' = sent \cup {k} /\ (k.row = NoRow \/ k.row \in ToSet(view[p]))
    <2>1. CASE Open(p)
      BY <2>1, CallIs DEF Open, Send
    <2>2. CASE DelUser(p)
      <3>1. PICK row \in ToSet(view[p]) : Send(Call(p, "del", row, NULL, NULL, NULL))
        BY <2>2 DEF DelUser, EditableRows
      <3>2. QED  BY <3>1, CallIs DEF Send
    <2>3. CASE EditUser(p)
      <3>1. PICK row \in ToSet(view[p]), password \in Passwords :
               Send(Call(p, "saveEdit", row, NULL, password, NULL))
        BY <2>3 DEF EditUser, EditableRows
      <3>2. QED  BY <3>1, CallIs DEF Send
    <2>4. CASE AddUser(p)
      <3>1. PICK name \in Names, password \in Passwords, group \in Groups :
               Send(Call(p, "add", NoRow, name, password, group))
        BY <2>4 DEF AddUser
      <3>2. QED  BY <3>1, CallIs DEF Send
    <2>5. QED  BY <2>1, <2>2, <2>3, <2>4
  <1>3. k.row # NoRow => NamesUser(k.row)
    BY <1>2 DEF RowsInv
  <1>4. QED  BY <1>1, <1>2, <1>3, StillNames DEF RowsInv

LEMMA ServeRows ==
    ASSUME UsersOK, RowsInv, UsersKept, NEW c \in sent, IsCall(c), Serve(c)
    PROVE  RowsInv'
  <1>1. UNCHANGED view
    BY DEF Serve, page
  <1>2. PICK list : /\ \E code : Answer(c, code, list)
                    /\ c.do = "listAll" => \A row \in ToSet(list) : NamesUser(row)
    <2>1. CASE GetUserListAll(c)
      <3> DEFINE l == [i \in DOMAIN users |->
                          [object |-> <<c.n, i>>, id |-> users[i].id, name |-> users[i].name,
                           group |-> GroupName(users[i].group)]]
      <3>1. Answer(c, 0, l)
        BY <2>1 DEF GetUserListAll
      <3>2. ASSUME NEW row \in ToSet(l) PROVE NamesUser(row)
        <4>1. PICK i \in DOMAIN users : row = l[i]
          BY DEF ToSet
        <4>2. row.id = users[i].id /\ row.name = users[i].name
          BY <4>1
        <4>3. QED  BY <4>2 DEF NamesUser
      <3> HIDE DEF l
      <3>3. QED  BY <3>1, <3>2
    <2>2. CASE AddUserInfo(c) \/ UpdateUserInfo(c) \/ DelUserByID(c)
      <3>1. c.do # "listAll" /\ \E code : Answer(c, code, <<>>)
        BY <2>2 DEF AddUserInfo, UpdateUserInfo, DelUserByID
      <3>2. QED  BY <3>1
    <2>3. QED  BY <2>1, <2>2 DEF Serve
  <1>3. PICK d : /\ d.do = c.do /\ d.row = c.row /\ d.list = list
                 /\ sent' = sent \ {c} /\ answered' = answered \cup {d}
    BY <1>2, AnswerIs
  <1>4. \A row : NamesUser(row) => NamesUser(row)'
    BY StillNames
  <1>5. \A e \in sent' \cup answered' : e.row # NoRow => NamesUser(e.row)'
    BY <1>3, <1>4 DEF RowsInv
  <1>6. \A e \in answered' : e.do = "listAll" => \A row \in ToSet(e.list) : NamesUser(row)'
    BY <1>2, <1>3, <1>4 DEF RowsInv
  <1>7. \A p \in Pages : \A row \in ToSet(view'[p]) : NamesUser(row)'
    BY <1>1, <1>4 DEF RowsInv
  <1>8. QED  BY <1>5, <1>6, <1>7 DEF RowsInv

LEMMA CallbackRows ==
    ASSUME AdminInv, RowsInv, NEW c \in answered,
           OnList(c) \/ OnDeleted(c) \/ OnAdded(c) \/ OnEdited(c)
    PROVE  RowsInv'
  <1>1. UNCHANGED users /\ answered' = answered \ {c}
    BY DEF OnList, OnDeleted, OnAdded, OnEdited, Received
  <1>2. c.page \in Pages /\ DOMAIN view = Pages
    BY DEF AdminInv, CallsInv, ListsOK
  <1>3. \A e \in sent' : e \in sent \/ e.row = NoRow
    <2>1. Call(c.page, "listAll", NoRow, NULL, NULL, NULL).row = NoRow
      BY CallIs
    <2>2. QED  BY <2>1 DEF OnList, OnDeleted, OnAdded, OnEdited, Send
  <1>4. ASSUME NEW p \in Pages, NEW row \in ToSet(view'[p]) PROVE NamesUser(row)
    <2>1. CASE OnList(c)
      <3>1. view' = [view EXCEPT ![c.page] = c.list] /\ c.do = "listAll"
        BY <2>1 DEF OnList
      <3>2. view'[p] = c.list \/ view'[p] = view[p]
        BY <1>2, <3>1
      <3>3. QED  BY <1>4, <3>1, <3>2 DEF RowsInv
    <2>2. CASE OnDeleted(c)
      <3>1. row \in ToSet(view[p])
        BY <1>4, <2>2, DeletedRow
      <3>2. QED  BY <3>1 DEF RowsInv
    <2>3. CASE OnAdded(c) \/ OnEdited(c)
      BY <1>4, <2>3 DEF OnAdded, OnEdited, page, RowsInv
    <2>4. QED  BY <2>1, <2>2, <2>3
  <1>5. QED  BY <1>1, <1>3, <1>4 DEF RowsInv, NamesUser

LEMMA RowsStep ==
    ASSUME AdminInv, RowsInv, [Next]_vars PROVE RowsInv'
  <1>1. UsersKept
    BY UsersStep DEF AdminInv
  <1>2. CASE UNCHANGED vars
    BY <1>2 DEF vars, page, RowsInv, NamesUser
  <1>3. ASSUME NEW p \in Pages, Open(p) \/ DelUser(p) \/ EditUser(p) \/ AddUser(p)
        PROVE  RowsInv'
    BY <1>1, <1>3, ClickRows
  <1>4. ASSUME NEW c \in sent, Serve(c) PROVE RowsInv'
    BY <1>1, <1>4, ServeRows DEF AdminInv, CallsInv, ListsOK
  <1>5. ASSUME NEW c \in answered, OnList(c) \/ OnDeleted(c) \/ OnAdded(c) \/ OnEdited(c)
        PROVE  RowsInv'
    BY <1>5, CallbackRows
  <1>6. ASSUME NEW c \in sent \cup answered, Lose(c) PROVE RowsInv'
    BY <1>6 DEF Lose, RowsInv, NamesUser
  <1>7. QED  BY <1>2, <1>3, <1>4, <1>5, <1>6 DEF Next

LEMMA RowsInit == Init => RowsInv
  BY DEF Init, RowsInv, ToSet

\* fakeDB.cpp:139-147: while no id was cut to 32 bits, a row that a page shows
\* or has sent names one user, by id and by name: an edit or a deletion by that
\* id is of the user the administrator saw, whatever was added since.
THEOREM RowsAlwaysNameUsers == Spec => [](IdsFit => RowsNameUsers)
  <1> DEFINE Inv == AdminInv /\ IdsInv /\ RowsInv
  <1>1. Init => Inv
    BY AdminInit, IdsInit, RowsInit
  <1>2. Inv /\ [Next]_vars => Inv'
    BY AdminStep, IdsStep, RowsStep DEF AdminInv
  <1>3. ASSUME Inv, IdsFit PROVE RowsNameUsers
    <2>1. ASSUME NEW p \in Pages,
                 NEW row \in ToSet(view[p]) \cup {c.row : c \in InFlight(p)}, row # NoRow
          PROVE  \E i \in DOMAIN users : WithId(row.id) = {i} /\ users[i].name = row.name
      <3>1. NamesUser(row)
        BY <1>3, <2>1 DEF RowsInv, InFlight
      <3>2. PICK i \in DOMAIN users : users[i].id = row.id /\ users[i].name = row.name
        BY <3>1 DEF NamesUser
      <3>3. DOMAIN users = 1..Len(users) /\ IdsApart
        BY <1>3, IdsAre DEF AdminInv, IdsInv
      <3>4. WithId(row.id) = {i}
        BY <3>2, <3>3 DEF WithId, IdsApart
      <3>5. QED  BY <3>2, <3>4
    <2>2. QED  BY <2>1 DEF RowsNameUsers
  <1> HIDE DEF Inv
  <1>4. QED  BY <1>1, <1>2, <1>3, PTL DEF Spec
=============================================================================
