----------------------------- MODULE UserAdmin -----------------------------
(***************************************************************************)
(* The administration of users: class FakeDB (fakeDB.cpp), the views that  *)
(* call it (webccDemo.cpp 253-364) and the page the administrator works    *)
(* with (userListController.js).                                           *)
(*                                                                         *)
(* The page never waits: a click sends a call and its callback changes the *)
(* list of the page, or asks for a new one, when the answer comes, and     *)
(* answers of different calls come in any order.  The demo's server has    *)
(* one worker thread, so a call is one step of the server.                 *)
(***************************************************************************)
EXTENDS Integers, Sequences, SequencesExt

CONSTANTS
    Pages,          \* open user lists
    Patient,        \* pages whose user waits for the answer before he goes on
    InitialUsers,   \* _userList and ...
    Groups,         \* ... the ids in _groupList, of FakeDB()
    Admin,          \* the login name "admin"
    Names,          \* login names of added users
    Passwords,
    NULL,           \* no name, no password, no group
    IdBits,         \* the width of unsigned int
    MaxCalls        \* bound: clicks that send a call

ASSUME PatientPages == Patient \subseteq Pages
ASSUME BoundsAreNat == IdBits \in Nat /\ MaxCalls \in Nat
ASSUME WordHasValues == 2^IdBits \in Nat \ {0}
ASSUME UsersAreTyped ==
    /\ InitialUsers \in Seq(ToSet(InitialUsers))
    /\ \A u \in ToSet(InitialUsers) :
          u = [id |-> u.id, name |-> u.name, password |-> u.password, group |-> u.group]
\* FakeDB() has more than one user, with ids of their own.
ASSUME InitialIds ==
    /\ Len(InitialUsers) >= 2
    /\ \A i \in 1..Len(InitialUsers) : InitialUsers[i].id \in Nat \ {0}
    /\ \A i, j \in 1..Len(InitialUsers) : InitialUsers[i].id = InitialUsers[j].id => i = j

VARIABLES
    users,     \* _userList
    view,      \* $scope.listUser of each page
    sent,      \* calls under way to the server
    answered,  \* calls whose answer is under way to the page
    count,     \* number of calls so far: it names the next one
    added,     \* what each page was told it added, and ...
    edited,    \* ... the ids whose password was changed, and ...
    lost       \* ... the pages that lost a call, for the properties

page == <<view, added, lost>>
vars == <<users, view, sent, answered, count, added, edited, lost>>

Init ==
    /\ users = InitialUsers
    /\ view = [p \in Pages |-> <<>>] /\ added = [p \in Pages |-> {}]
    /\ sent = {} /\ answered = {} /\ count = 0
    /\ edited = {} /\ lost = {}

NoRow == [object |-> <<0, 0>>, id |-> 0, name |-> NULL, group |-> NULL]
Call(p, do, row, name, password, group) ==
    [n |-> count + 1, page |-> p, do |-> do, row |-> row, name |-> name,
     password |-> password, group |-> group, code |-> NULL, list |-> <<>>]

Send(c) == sent' = sent \cup {c} /\ count' = count + 1
InFlight(p) == {c \in sent \cup answered : c.page = p}

---------------------------------------------------------------------------
\* The page: clicks

MayClick(p) == count < MaxCalls /\ (p \in Patient => InFlight(p) = {})

\* The controller starts: it asks for the list.
Open(p) ==
    /\ MayClick(p) /\ view[p] = <<>>
    /\ Send(Call(p, "listAll", NoRow, NULL, NULL, NULL))
    /\ UNCHANGED <<users, answered, page, edited>>

\* isEditable is 0 in the row of the administrator.
EditableRows(p) == {row \in ToSet(view[p]) : row.name # Admin}

DelUser(p) ==
    /\ MayClick(p)
    /\ \E row \in EditableRows(p) : Send(Call(p, "del", row, NULL, NULL, NULL))
    /\ UNCHANGED <<users, answered, page, edited>>

\* The dialog insists on a password; a group that is not chosen is -1.
EditUser(p) ==
    /\ MayClick(p)
    /\ \E row \in EditableRows(p), password \in Passwords :
          Send(Call(p, "saveEdit", row, NULL, password, NULL))
    /\ UNCHANGED <<users, answered, page, edited>>

\* That the name is taken is a warning in the dialog, not an obstacle.
AddUser(p) ==
    /\ MayClick(p)
    /\ \E name \in Names, password \in Passwords, group \in Groups :
          Send(Call(p, "add", NoRow, name, password, group))
    /\ UNCHANGED <<users, answered, page, edited>>

---------------------------------------------------------------------------
\* The server

Answer(c, code, list) ==
    /\ sent' = sent \ {c}
    /\ answered' = answered \cup {[c EXCEPT !.code = code, !.list = list]}

GroupName(group) == IF group \in Groups THEN group ELSE NULL

GetUserListAll(c) ==
    /\ c.do = "listAll"
    /\ Answer(c, 0, [i \in DOMAIN users |->
                        [object |-> <<c.n, i>>, id |-> users[i].id, name |-> users[i].name,
                         group |-> GroupName(users[i].group)]])
    /\ UNCHANGED <<users, edited>>

\* The sum of the first n ids
SumTo(us, n) ==
    LET sum[k \in 0..Len(us)] == IF k = 0 THEN 0 ELSE sum[k - 1] + us[k].id
    IN  sum[n]

SumOfIds == SumTo(users, Len(users)) % 2^IdBits

\* Mutant: the new id is the last one.
AddUserInfoLastId(c) ==
    /\ c.do = "add"
    /\ users' = Append(users, [id |-> users[Len(users)].id, name |-> c.name,
                               password |-> c.password, group |-> c.group])
    /\ Answer(c, 0, <<>>)
    /\ UNCHANGED edited

\* addUser: the new id is the sum of all ids, an unsigned int.
AddUserInfo(c) ==
    /\ c.do = "add"
    /\ users' = Append(users, [id |-> SumOfIds, name |-> c.name,
                               password |-> c.password, group |-> c.group])
    /\ Answer(c, 0, <<>>)
    /\ UNCHANGED edited

WithId(id) == {i \in DOMAIN users : users[i].id = id}

\* updateUserInfo takes "iduserinfo" for the group too (line 155).
UpdateUserInfo(c) ==
    /\ c.do = "saveEdit"
    /\ LET id == c.row.id IN
       IF WithId(id) # {}
       THEN /\ users' = [users EXCEPT ![Min(WithId(id))] =
                            [@ EXCEPT !.password = c.password, !.group = id]]
            /\ Answer(c, 0, <<>>)
            /\ edited' = edited \cup {id}
       ELSE Answer(c, 1, <<>>) /\ UNCHANGED <<users, edited>>

\* delUserByID finds the user and leaves him where he is.
DelUserByID(c) ==
    /\ c.do = "del"
    /\ Answer(c, IF WithId(c.row.id) # {} THEN 0 ELSE 1, <<>>)
    /\ UNCHANGED <<users, edited>>

Serve(c) ==
    /\ GetUserListAll(c) \/ AddUserInfo(c) \/ UpdateUserInfo(c) \/ DelUserByID(c)
    /\ UNCHANGED <<page, count>>

---------------------------------------------------------------------------
\* The page: callbacks

Received(c) == answered' = answered \ {c}

OnList(c) ==
    /\ c.do = "listAll"
    /\ view' = [view EXCEPT ![c.page] = c.list]
    /\ Received(c)
    /\ UNCHANGED <<users, sent, count, added, edited, lost>>

\* Array.splice(indexOf(row), 1): without the row indexOf is -1, and splice
\* counts a negative position from the end.
Splice(list, row) ==
    LET i == SelectInSeq(list, LAMBDA r : r = row)
    IN  IF i # 0 THEN RemoveAt(list, i) ELSE Front(list)

\* Mutant: splice() without looking at indexOf().
OnDeletedFirst(c) ==
    /\ c.do = "del"
    /\ view' = [view EXCEPT ![c.page] = IF @ = <<>> THEN @ ELSE Tail(@)]
    /\ added' = [added EXCEPT ![c.page] = {a \in @ : a.name # c.row.name}]
    /\ Received(c)
    /\ UNCHANGED <<users, sent, count, edited, lost>>

OnDeleted(c) ==
    /\ c.do = "del"
    /\ view' = [view EXCEPT ![c.page] = IF c.code = 0 THEN Splice(@, c.row) ELSE @]
    /\ added' = [added EXCEPT ![c.page] = {a \in @ : a.name # c.row.name}]
    /\ Received(c)
    /\ UNCHANGED <<users, sent, count, edited, lost>>

\* Mutant: the page does not ask for the new list.
OnAddedNoRefresh(c) ==
    /\ c.do = "add"
    /\ added' = [added EXCEPT ![c.page] = @ \cup {[name |-> c.name, password |-> c.password]}]
    /\ Received(c)
    /\ UNCHANGED <<users, view, sent, count, edited, lost>>

\* A user who was added, or changed, is shown by a new list.
OnAdded(c) ==
    /\ c.do = "add"
    /\ Send(Call(c.page, "listAll", NoRow, NULL, NULL, NULL))
    /\ added' = [added EXCEPT ![c.page] = @ \cup {[name |-> c.name, password |-> c.password]}]
    /\ Received(c)
    /\ UNCHANGED <<users, view, edited, lost>>

OnEdited(c) ==
    /\ c.do = "saveEdit"
    /\ IF c.code = 0 THEN Send(Call(c.page, "listAll", NoRow, NULL, NULL, NULL))
                     ELSE UNCHANGED <<sent, count>>
    /\ Received(c)
    /\ UNCHANGED <<users, page, edited>>

\* The connection fails; the callbacks for that are misspelt ("eror").
Lose(c) ==
    /\ sent' = sent \ {c} /\ answered' = answered \ {c}
    /\ lost' = lost \cup {c.page}
    /\ UNCHANGED <<users, view, count, added, edited>>

---------------------------------------------------------------------------
Next ==
    \/ \E p \in Pages : Open(p) \/ DelUser(p) \/ EditUser(p) \/ AddUser(p)
    \/ \E c \in sent : Serve(c)
    \/ \E c \in answered : OnList(c) \/ OnDeleted(c) \/ OnAdded(c) \/ OnEdited(c)
    \/ \E c \in sent \cup answered : Lose(c)

Spec == Init /\ [][Next]_vars

---------------------------------------------------------------------------
\* Properties

\* A row names the user that its id will change: whatever was added since the
\* list was made, one user has the id, and he has the name in the row.
RowsNameUsers ==
    \A p \in Pages : \A row \in ToSet(view[p]) \cup {c.row : c \in InFlight(p)} :
        row # NoRow => \E i \in DOMAIN users :
                          WithId(row.id) = {i} /\ users[i].name = row.name

\* FakeDB::isLogin
IsLogin(name, password) ==
    \E i \in DOMAIN users : users[i].name = name /\ users[i].password = password

\* When a page is at rest and lost no call, the users it added are in its list,
\* and log in with the password they were given unless it was changed.
OwnWorkShown ==
    \A p \in Patient : InFlight(p) = {} /\ p \notin lost =>
        \A a \in added[p] :
            /\ \E row \in ToSet(view[p]) : row.name = a.name
            /\ \/ IsLogin(a.name, a.password)
               \/ \E row \in ToSet(view[p]) : row.name = a.name /\ row.id \in edited

\* A list loses a row only when a new list comes or the deletion that was
\* confirmed of that row has succeeded.
RowsLeaveAsConfirmed(p) ==
    view'[p] # view[p] =>
        \E c \in answered \ answered' :
            \/ c.do = "listAll" /\ view'[p] = c.list
            \/ /\ c.do = "del" /\ c.code = 0
               /\ ToSet(view'[p]) = ToSet(view[p]) \ {c.row}

PatientRowsLeave == [][\A p \in Patient : RowsLeaveAsConfirmed(p)]_vars

\* userListController.js:69: the row that is deleted from the view is the one
\* whose deletion was confirmed, whatever else is under way.
RowsLeave == [][\A p \in Pages : RowsLeaveAsConfirmed(p)]_vars
=============================================================================
