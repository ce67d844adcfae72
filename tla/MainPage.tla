------------------------------ MODULE MainPage ------------------------------
(***************************************************************************)
(* The page of a user: the login page (index.html), the main page          *)
(* (main.html), the routes inside it (controller/config.js) with what      *)
(* their controllers load, and the views they call (webccDemo.cpp).        *)
(*                                                                         *)
(* The browser runs one callback at a time.  A call is answered at any     *)
(* time and the answers come in any order; fetching a template or a header *)
(* first delays a call as the network may, and is part of that.  To leave  *)
(* a document drops its callbacks.  To leave a route destroys its $scope:  *)
(* the callbacks of its calls then change nothing that is shown, and       *)
(* $apply() of the scope does nothing.  Sessions models the session, here  *)
(* it is the name in it.                                                   *)
(***************************************************************************)
EXTENDS Naturals, FiniteSets, Sequences, Functions

CONSTANTS
    Users,        \* the login names, of which ...
    Admin,        \* ... "admin" is one
    NULL,         \* nobody, nothing, no answer yet
    MaxLoads,     \* bound: documents loaded
    MaxClicks,    \* bound: clicks in the menu
    MaxLogins,    \* bound: logins under way
    MaxWarnings   \* bound: warnings

ASSUME AdminIsUser == Admin \in Users /\ NULL \notin Users
ASSUME BoundsAreNat == {MaxLoads, MaxClicks, MaxLogins, MaxWarnings} \subseteq Nat

VARIABLES
    session,      \* pSI->session["username"] at the server, or NULL
    doc,          \* the document: "index" or "main"
    calls,        \* calls under way whose callback would still change something
    blocked,      \* App.blockUI is on
    info,         \* g_user and g_user_authority, or NULL
    route,        \* the route of the main page
    scope,        \* the number of the $scope of its controller
    shown,        \* what the list of this scope offers, or NULL
    connecting,   \* the scopes whose WebSocket is not open yet
    wire,         \* the warnings under way to each open WebSocket
    warningList,  \* warningList of the service WarningInfo
    warnings,     \* warnings sent so far
    loads, clicks,
    clicked,      \* the route was reached by a click, and ...
    changed,      \* ... the session is not the one of info any more, and ...
    lost          \* ... this document lost a call, for the properties

server   == <<session, changed>>
list     == <<route, scope, shown, clicked>>
socket   == <<connecting, wire, warningList, warnings>>
document == <<doc, blocked, info>>
bounds   == <<loads, clicks>>
vars     == <<server, list, socket, document, bounds, calls, lost>>

WarningRoutes == {"/", "/Warning"}
ListRoutes    == {"/userList", "/userGroup"}
Menu          == {"/Warning", "/warningHistory"} \cup ListRoutes

Init ==
    /\ session = NULL /\ changed = FALSE
    /\ doc = "index" /\ blocked = FALSE /\ info = NULL
    /\ calls = {} /\ lost = FALSE
    /\ route = "/" /\ scope = 0 /\ shown = NULL /\ clicked = FALSE
    /\ connecting = {} /\ wire = <<>> /\ warningList = <<>> /\ warnings = 0
    /\ loads = 0 /\ clicks = 0

Call(do, user) == [do |-> do, user |-> user, answer |-> NULL]

---------------------------------------------------------------------------
\* Documents and routes

\* What the controller of a route asks for when it starts.
Asks(r) == CASE r = "/userList"  -> {Call("listAll", NULL)}
             [] r = "/userGroup" -> {Call("groups", NULL)}
             [] OTHER            -> {}

\* WarningController opens a WebSocket each time it starts and closes none.
Connects(r, s) == IF r \in WarningRoutes THEN {s} ELSE {}

\* To leave a document drops its callbacks; a login that was sent may still be
\* served.
Orphans == {Call("oldLogin", c.user) :
               c \in {d \in calls : d.do \in {"login", "oldLogin"} /\ d.answer = NULL}}

\* The controller of r starts in a new scope.
Start(r) ==
    /\ route' = r /\ scope' = scope + 1 /\ shown' = NULL

\* Mutant: nothing is blocked while getInfo is under way.
LoadMainOpen(r) ==
    /\ loads < MaxLoads /\ loads' = loads + 1
    /\ doc' = "main" /\ blocked' = FALSE /\ info' = NULL /\ lost' = FALSE
    /\ Start(r) /\ clicked' = FALSE
    /\ calls' = {Call("getInfo", NULL)} \cup Asks(r) \cup Orphans
    /\ connecting' = Connects(r, scope + 1) /\ wire' = <<>> /\ warningList' = <<>>
    /\ UNCHANGED <<warnings, clicks>>

\* main.html is loaded, at the route in its URL: it is blocked until getInfo
\* has answered.  Scripts start anew, the sockets of the old ones are closed.
LoadMain(r) ==
    /\ loads < MaxLoads /\ loads' = loads + 1
    /\ doc' = "main" /\ blocked' = TRUE /\ info' = NULL /\ lost' = FALSE
    /\ Start(r) /\ clicked' = FALSE
    /\ calls' = {Call("getInfo", NULL)} \cup Asks(r) \cup Orphans
    /\ connecting' = Connects(r, scope + 1) /\ wire' = <<>> /\ warningList' = <<>>
    /\ UNCHANGED <<warnings, clicks>>

Reload == doc = "main" /\ LoadMain(route) /\ UNCHANGED server

\* The user goes back to the login page.
OpenIndex ==
    /\ doc = "main" /\ loads < MaxLoads /\ loads' = loads + 1
    /\ doc' = "index" /\ blocked' = FALSE /\ info' = NULL /\ lost' = FALSE
    /\ calls' = Orphans /\ shown' = NULL
    /\ connecting' = {} /\ wire' = <<>> /\ warningList' = <<>>
    /\ UNCHANGED <<server, route, scope, clicked, warnings, clicks>>

\* Mutant: an answer for a scope that is gone is shown in the one that is there.
ClickKeepsCalls(r) ==
    /\ doc = "main" /\ ~blocked /\ r # route
    /\ clicks < MaxClicks /\ clicks' = clicks + 1
    /\ Start(r) /\ clicked' = TRUE
    /\ calls' = calls \cup Asks(r)
    /\ connecting' = connecting \cup Connects(r, scope + 1)
    /\ UNCHANGED <<server, document, loads, wire, warningList, warnings, lost>>

\* A click in the menu, which is below what App.blockUI covers.
Click(r) ==
    /\ doc = "main" /\ ~blocked /\ r # route
    /\ clicks < MaxClicks /\ clicks' = clicks + 1
    /\ Start(r) /\ clicked' = TRUE
    /\ calls' = {c \in calls : c.do \in {"getInfo", "oldLogin"}} \cup Asks(r)
    /\ connecting' = connecting \cup Connects(r, scope + 1)
    /\ UNCHANGED <<server, document, loads, wire, warningList, warnings, lost>>

\* The login form, with the right password or a wrong one.
Submit ==
    /\ doc = "index" /\ Cardinality(calls) < MaxLogins
    /\ \E u \in Users, do \in {"login", "badLogin"} :
          calls' = calls \cup {Call(do, u)} /\ calls' # calls
    /\ UNCHANGED <<server, list, socket, document, bounds, lost>>

---------------------------------------------------------------------------
\* The server: one worker, so a call is one step

Answered(c, a) == calls' = (calls \ {c}) \cup {[c EXCEPT !.answer = a]}

Authorities(u) == CASE u = NULL  -> {"admin"}
                    [] u = Admin -> {"ROLE_ADMIN"}
                    [] OTHER     -> {"ROLE_USER"}

\* The password is right: the name goes into the session.
OnLoginServed(c) ==
    /\ c.do \in {"login", "badLogin"}
    /\ Answered(c, [ok |-> c.do = "login"])
    /\ session' = IF c.do = "login" THEN c.user ELSE session
    /\ changed' = (changed \/ session' # session)

OnOldLogin(c) ==
    /\ c.do = "oldLogin"
    /\ calls' = calls \ {c}
    /\ session' = c.user
    /\ changed' = (changed \/ session' # session)

\* Without a name in the session the answer is "Unknown", and code 0 as well.
OnGetInfo(c) ==
    /\ c.do = "getInfo"
    /\ Answered(c, [name |-> session, authorities |-> Authorities(session)])
    /\ changed' = FALSE
    /\ UNCHANGED session

\* isEditable of the users is 1 for the administrator ...
OnListAll(c) ==
    /\ c.do = "listAll"
    /\ Answered(c, [buttons |-> session = Admin])
    /\ UNCHANGED server

\* ... and so is undeletable of the groups, which takes the buttons away.
OnGroupList(c) ==
    /\ c.do = "groups"
    /\ Answered(c, [buttons |-> session # Admin])
    /\ UNCHANGED server

Serve(c) ==
    /\ c.answer = NULL
    /\ OnLoginServed(c) \/ OnOldLogin(c) \/ OnGetInfo(c) \/ OnListAll(c) \/ OnGroupList(c)
    /\ UNCHANGED <<list, socket, document, bounds, lost>>

\* Sessions: the session expires or the server is restarted.
Expire ==
    /\ session # NULL
    /\ session' = NULL /\ changed' = TRUE
    /\ UNCHANGED <<list, socket, document, bounds, calls, lost>>

---------------------------------------------------------------------------
\* Callbacks

OnLoginAnswered(c) ==
    /\ c.do \in {"login", "badLogin"}
    /\ IF c.answer.ok
       THEN LoadMain("/")
       ELSE calls' = calls \ {c} /\ UNCHANGED <<list, socket, document, bounds, lost>>
    /\ UNCHANGED server

\* Mutant: the authorities are there, the page stays blocked.
OnInfoBlocked(c) ==
    /\ c.do = "getInfo"
    /\ info' = c.answer
    /\ calls' = calls \ {c}
    /\ UNCHANGED <<server, list, socket, doc, blocked, bounds, lost>>

OnInfo(c) ==
    /\ c.do = "getInfo"
    /\ info' = c.answer /\ blocked' = FALSE
    /\ calls' = calls \ {c}
    /\ UNCHANGED <<server, list, socket, doc, bounds, lost>>

\* g_user_authority != null && g_user_authority.has('ROLE_ADMIN')
IsAdmin == info # NULL /\ "ROLE_ADMIN" \in info.authorities

\* The buttons in the rows are the server's word, the one to add is the page's.
OnList(c) ==
    /\ c.do \in {"listAll", "groups"}
    /\ shown' = [isAdmin |-> IsAdmin, buttons |-> c.answer.buttons]
    /\ calls' = calls \ {c}
    /\ UNCHANGED <<server, route, scope, clicked, socket, document, bounds, lost>>

\* The connection fails: the page logs it, or does nothing (.error of getInfo).
Lose(c) ==
    /\ calls' = calls \ {c} /\ lost' = (lost \/ c.do # "oldLogin")
    /\ UNCHANGED <<server, list, socket, document, bounds>>

---------------------------------------------------------------------------
\* Warnings: a service at 127.0.0.1:9002 sends each to every socket

Connected(s) ==
    /\ connecting' = connecting \ {s}
    /\ wire' = [t \in DOMAIN wire \cup {s} |-> IF t = s THEN <<>> ELSE wire[t]]
    /\ UNCHANGED <<server, list, document, bounds, calls, lost, warningList, warnings>>

Warn ==
    /\ warnings < MaxWarnings /\ warnings' = warnings + 1
    /\ wire' = [s \in DOMAIN wire |-> Append(wire[s], warnings + 1)]
    /\ UNCHANGED <<server, list, document, bounds, calls, lost, connecting, warningList>>

\* Mutant: the callback pushes whether its scope lives or not.
OnMessageAnyScope(s) ==
    /\ wire[s] # <<>>
    /\ wire' = [wire EXCEPT ![s] = Tail(@)]
    /\ warningList' = Append(warningList, Head(wire[s]))
    /\ UNCHANGED <<server, list, document, bounds, calls, lost, connecting, warnings>>

\* ws.onmessage: $scope.$apply() of a destroyed scope is a function that does
\* nothing, so only the scope of the route that is shown pushes.
OnMessage(s) ==
    /\ wire[s] # <<>>
    /\ wire' = [wire EXCEPT ![s] = Tail(@)]
    /\ warningList' = IF s = scope THEN Append(warningList, Head(wire[s])) ELSE warningList
    /\ UNCHANGED <<server, list, document, bounds, calls, lost, connecting, warnings>>

\* onclose and onerror only log: nothing connects again.
SocketFails(s) ==
    /\ wire' = Restrict(wire, DOMAIN wire \ {s})
    /\ connecting' = connecting \ {s}
    /\ UNCHANGED <<server, list, document, bounds, calls, lost, warningList, warnings>>

---------------------------------------------------------------------------
Callback(c) ==
    /\ c.answer # NULL
    /\ OnLoginAnswered(c) \/ OnInfo(c) \/ OnList(c)

Next ==
    \/ Submit \/ Reload \/ OpenIndex
    \/ \E r \in Menu : Click(r)
    \/ \E c \in calls : Serve(c) \/ Callback(c) \/ Lose(c)
    \/ Expire \/ Warn
    \/ \E s \in connecting : Connected(s)
    \/ \E s \in DOMAIN wire : OnMessage(s)
    \/ \E s \in connecting \cup DOMAIN wire : SocketFails(s)

\* The server answers and the browser runs its callbacks.
Spec == /\ Init /\ [][Next]_vars
        /\ WF_vars(\E c \in calls : Serve(c))
        /\ WF_vars(\E c \in calls : Callback(c))

---------------------------------------------------------------------------
\* Properties

TypeOK ==
    /\ session \in Users \cup {NULL} /\ doc \in {"index", "main"}
    /\ blocked \in BOOLEAN /\ clicked \in BOOLEAN /\ changed \in BOOLEAN /\ lost \in BOOLEAN
    /\ info = NULL \/ info.name \in Users \cup {NULL}
    /\ route \in Menu \cup {"/"} /\ scope \in Nat
    /\ shown = NULL \/ shown \in [isAdmin : BOOLEAN, buttons : BOOLEAN]
    /\ \A c \in calls : c.do # "oldLogin" =>
          IF doc = "index" THEN c.do \in {"login", "badLogin"}
          ELSE c.do = "getInfo" \/ [c EXCEPT !.answer = NULL] \in Asks(route)
    /\ connecting \cap DOMAIN wire = {} /\ connecting \cup DOMAIN wire \subseteq 1..scope
    /\ warningList \in Seq(1..MaxWarnings)

\* main.html:110: the pages depend on what the user may do, so he is kept from
\* them until that is known.  A list that was reached by a click offers what
\* the session at the server allows, in the button of the page (from getInfo)
\* as in those of the rows (from the list), unless the session changed since.
RolesAgree ==
    doc = "main" /\ clicked /\ ~changed /\ shown # NULL =>
        /\ info # NULL /\ info.name = session
        /\ shown.isAdmin = (session = Admin)
        /\ shown.buttons = (IF route = "/userList" THEN session = Admin ELSE session # Admin)

\* Each visit of the warnings opens a socket and none is closed, but a warning
\* is shown once, and in the order in which it was sent.
WarningsOnce ==
    \A i, j \in DOMAIN warningList : i < j => warningList[i] < warningList[j]

\* The main page opens, unless a call of it was lost.
MainOpens == doc = "main" /\ blocked ~> ~blocked \/ lost
=============================================================================
