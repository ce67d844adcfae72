------------------------------ MODULE Sessions ------------------------------
(***************************************************************************)
(* Sessions: class SessionSupport (sessionSupport.cpp), the part of        *)
(* Server::Handle() that gives a POST request its session (server.cc       *)
(* 317-341), and the views that keep the name of the user in it            *)
(* (webccDemo.cpp).  The worker threads share the table of sessions with   *)
(* the thread that expires them; browsers keep the id in a cookie, and     *)
(* their cookie outlives the process.                                      *)
(*                                                                         *)
(* A browser sends one request at a time.  A SessionInfo that was erased   *)
(* stays with the worker that holds it; ids are not reused before a        *)
(* restart, so the object is named by its id.                              *)
(***************************************************************************)
EXTENDS Integers, FiniteSets

CONSTANTS
    Browsers, Workers,
    Users,         \* names that can log in
    Nobody,        \* no user name in the session
    Unsure,        \* the browser does not know what became of its request
    NULL,          \* no browser, no thread, no cookie
    Timeout,       \* 3600 seconds of checkTimeout()
    Prompt,        \* does every step of a worker take less than a second?
    MaxRequests,   \* bound: requests
    MaxRestarts    \* bound: restarts of the process

ASSUME BoundsAreNat ==
    /\ Timeout \in Nat /\ MaxRequests \in Nat /\ MaxRestarts \in Nat
    /\ Prompt \in BOOLEAN
ASSUME NamesDiffer ==
    /\ Nobody \notin Users /\ Unsure \notin Users /\ Nobody # Unsure
    /\ NULL \notin Browsers \cup Workers \cup Nat

Ids == 1..MaxRequests
Ops == [op : {"login"}, name : Users] \cup [op : {"logout", "getInfo"}, name : {Nobody}]

NoRequest == [op |-> "getInfo", name |-> Nobody]  \* of an idle worker

VARIABLES
    live,        \* the keys of m_si
    count, user, \* of each SessionInfo: count, and session["username"]
    index,       \* sessionIndex
    lock,        \* the holder of m_mutexRW, or NULL
    down,        \* the process has died
    pc,          \* of each worker
    for,         \* the browser whose request a worker handles
    request,     \* the operation it asks for
    id,          \* kagulaArgs_[session_key]: first the id in the Cookie header
    done,        \* did the operation succeed?
    slow,        \* if Prompt, the workers whose step began before this second
    cookie,      \* of each browser: its session id
    due,         \* the user name its session has to have, from the responses
    carried,     \* the cookies that outlived a process, for the properties
    requests, restarts

table   == <<live, count, user, index, lock>>
worker  == <<pc, for, request, id, done, slow>>
browser == <<cookie, due, carried>>
vars    == <<table, down, worker, browser, requests, restarts>>

Init ==
    /\ live = {} /\ index = 0 /\ lock = NULL /\ down = FALSE
    /\ count = [i \in Ids |-> 0] /\ user = [i \in Ids |-> Nobody]
    /\ pc = [w \in Workers |-> "idle"] /\ for = [w \in Workers |-> NULL]
    /\ request = [w \in Workers |-> NoRequest]
    /\ id = [w \in Workers |-> NULL] /\ done = [w \in Workers |-> FALSE]
    /\ slow = {}
    /\ cookie = [b \in Browsers |-> NULL] /\ due = [b \in Browsers |-> Nobody]
    /\ carried = {}
    /\ requests = 0 /\ restarts = 0

At(w, step) == ~down /\ pc[w] = step
Go(w, step) == pc' = [pc EXCEPT ![w] = step] /\ slow' = slow \ {w}

Idle(w) ==
    /\ Go(w, "idle") /\ for' = [for EXCEPT ![w] = NULL]
    /\ request' = [request EXCEPT ![w] = NoRequest]
    /\ id' = [id EXCEPT ![w] = NULL] /\ done' = [done EXCEPT ![w] = FALSE]

---------------------------------------------------------------------------
\* Browsers

Send(b, w, r) ==
    /\ At(w, "idle") /\ requests < MaxRequests
    /\ \A u \in Workers : for[u] # b
    /\ requests' = requests + 1
    /\ for' = [for EXCEPT ![w] = b] /\ request' = [request EXCEPT ![w] = r]
    /\ id' = [id EXCEPT ![w] = cookie[b]]
    /\ Go(w, "find")
    /\ UNCHANGED <<table, down, done, browser, restarts>>

\* The response arrives, with Set-Cookie.
Receive(w) ==
    /\ At(w, "reply")
    /\ LET b == for[w] IN
       /\ cookie' = [cookie EXCEPT ![b] = id[w]]
       /\ due' = [due EXCEPT ![b] = IF id[w] \notin live THEN Nobody
                                    ELSE IF done[w] THEN request[w].name
                                    ELSE IF id[w] = cookie[b] THEN @ ELSE Nobody]
    /\ Idle(w)
    /\ UNCHANGED <<table, down, carried, requests, restarts>>

\* The connection fails before the response arrives.
Lose(w) ==
    /\ At(w, "reply")
    /\ due' = [due EXCEPT ![for[w]] = Unsure]
    /\ Idle(w)
    /\ UNCHANGED <<table, down, cookie, carried, requests, restarts>>

---------------------------------------------------------------------------
\* parseReq

\* checkTimeout() may be at the erasure of a session.
Expiring == \E i \in live : count[i] + 1 > Timeout

\* m_si.find() is not under the lock: it may miss an id while another worker
\* inserts or the timer erases, and then the browser gets another session.
Find(w) ==
    /\ At(w, "find")
    /\ \/ id[w] \in live /\ Go(w, "info")
       \/ /\ id[w] \notin live \/ lock # NULL \/ Expiring
          /\ Go(w, "new")
    /\ UNCHANGED <<table, down, for, request, id, done, browser, requests, restarts>>

LockTable(w) ==
    /\ At(w, "new") /\ lock = NULL
    /\ lock' = w
    /\ Go(w, "insert")
    /\ UNCHANGED <<live, count, user, index, down, for, request, id, done, browser,
                   requests, restarts>>

\* Mutant: the new id is the number of sessions.
NewSessionBySize(w) ==
    /\ At(w, "insert")
    /\ LET new == Cardinality(live) + 1 IN
       /\ index' = new
       /\ live' = live \cup {new}
       /\ count' = [count EXCEPT ![new] = 0] /\ user' = [user EXCEPT ![new] = Nobody]
       /\ id' = [id EXCEPT ![w] = new]
    /\ lock' = NULL
    /\ Go(w, "info")
    /\ UNCHANGED <<down, for, request, done, browser, requests, restarts>>

\* NewSessionID() until the id is not in the table.
NewSession(w) ==
    /\ At(w, "insert")
    /\ \E new \in Ids :
          /\ new > index /\ new \notin live
          /\ \A i \in Ids : i > index /\ i < new => i \in live
          /\ index' = new
          /\ live' = live \cup {new}
          /\ count' = [count EXCEPT ![new] = 0] /\ user' = [user EXCEPT ![new] = Nobody]
          /\ id' = [id EXCEPT ![w] = new]
    /\ lock' = NULL
    /\ Go(w, "info")
    /\ UNCHANGED <<down, for, request, done, browser, requests, restarts>>

---------------------------------------------------------------------------
\* getSessionInfo and the views

Dies == down' = TRUE /\ UNCHANGED <<table, worker>>

\* Mutant: the lock is not released.
GetSessionInfoLocked(w) ==
    /\ At(w, "info") /\ lock = NULL
    /\ IF id[w] \in live
       THEN /\ count' = [count EXCEPT ![id[w]] = 0] /\ lock' = w
            /\ Go(w, "view")
            /\ UNCHANGED <<live, user, index, for, request, id, done, down>>
       ELSE Dies
    /\ UNCHANGED <<browser, requests, restarts>>

\* m_si[sessionID]->count: a missing id gets a null pointer, which is then
\* dereferenced.
GetSessionInfo(w) ==
    /\ At(w, "info") /\ lock = NULL
    /\ IF id[w] \in live
       THEN /\ count' = [count EXCEPT ![id[w]] = 0]
            /\ Go(w, "view")
            /\ UNCHANGED <<live, user, index, lock, for, request, id, done, down>>
       ELSE Dies
    /\ UNCHANGED <<browser, requests, restarts>>

\* onLogin with a name and password that are not in the database; onGetInfo.
LooksOnly(w) ==
    /\ At(w, "view") /\ request[w].op \in {"login", "getInfo"}
    /\ Go(w, "reply")
    /\ UNCHANGED <<table, down, for, request, id, done, browser, requests, restarts>>

\* onLogin gets the session by its id again.
Login(w) ==
    /\ At(w, "view") /\ request[w].op = "login" /\ lock = NULL
    /\ IF id[w] \in live
       THEN /\ count' = [count EXCEPT ![id[w]] = 0]
            /\ user' = [user EXCEPT ![id[w]] = request[w].name]
            /\ done' = [done EXCEPT ![w] = TRUE]
            /\ Go(w, "reply")
            /\ UNCHANGED <<live, index, lock, for, request, id, down>>
       ELSE Dies
    /\ UNCHANGED <<browser, requests, restarts>>

\* Mutant: the name stays in the session.
LogoutKeepsName(w) ==
    /\ At(w, "view") /\ request[w].op = "logout"
    /\ done' = [done EXCEPT ![w] = TRUE]
    /\ Go(w, "reply")
    /\ UNCHANGED <<table, down, for, request, id, browser, requests, restarts>>

Logout(w) ==
    /\ At(w, "view") /\ request[w].op = "logout"
    /\ user' = [user EXCEPT ![id[w]] = Nobody]
    /\ done' = [done EXCEPT ![w] = TRUE]
    /\ Go(w, "reply")
    /\ UNCHANGED <<live, count, index, lock, down, for, request, id, browser, requests, restarts>>

---------------------------------------------------------------------------
\* checkTimeout, once a second; when try_lock() fails the second is skipped.

\* Mutant: a session that is due to expire starts over.
TickStartsOver ==
    /\ ~down /\ lock = NULL
    /\ count' = [i \in Ids |-> IF i \in live THEN (count[i] + 1) % (Timeout + 1) ELSE 0]
    /\ UNCHANGED <<live, user, index, lock, down, worker, browser, requests, restarts>>

Tick ==
    /\ ~down /\ lock = NULL
    /\ slow = {} /\ slow' = {w \in Workers : Prompt /\ pc[w] # "idle"}
    /\ LET expired == {i \in live : count[i] + 1 > Timeout} IN
       /\ count' = [i \in Ids |-> IF i \in live \ expired THEN count[i] + 1 ELSE 0]
       /\ user' = [i \in Ids |-> IF i \in live \ expired THEN user[i] ELSE Nobody]
       /\ live' = live \ expired
       /\ due' = [b \in Browsers |-> IF cookie[b] \in expired THEN Nobody ELSE due[b]]
    /\ UNCHANGED <<index, lock, down, pc, for, request, id, done, cookie, carried, requests, restarts>>

\* The process ends, or has died, and is started again: its table is empty and
\* sessionIndex is 0; the browsers keep their cookies.
Restart ==
    /\ restarts < MaxRestarts
    /\ restarts' = restarts + 1
    /\ live' = {} /\ index' = 0 /\ lock' = NULL /\ down' = FALSE
    /\ count' = [i \in Ids |-> 0] /\ user' = [i \in Ids |-> Nobody]
    /\ pc' = [w \in Workers |-> "idle"] /\ for' = [w \in Workers |-> NULL]
    /\ request' = [w \in Workers |-> NoRequest]
    /\ id' = [w \in Workers |-> NULL] /\ done' = [w \in Workers |-> FALSE]
    /\ slow' = {}
    /\ due' = [b \in Browsers |-> IF \E w \in Workers : for[w] = b THEN Unsure ELSE Nobody]
    /\ carried' = carried \cup {<<b, cookie[b]>> : b \in {c \in Browsers : cookie[c] # NULL}}
    /\ UNCHANGED <<cookie, requests>>

---------------------------------------------------------------------------
WorkerStep(w) == \/ Find(w) \/ LockTable(w) \/ NewSession(w) \/ GetSessionInfo(w)
                 \/ LooksOnly(w) \/ Login(w) \/ Logout(w) \/ Receive(w) \/ Lose(w)

Next == \/ \E b \in Browsers, w \in Workers, r \in Ops : Send(b, w, r)
        \/ \E w \in Workers : WorkerStep(w)
        \/ Tick \/ Restart

Spec == Init /\ [][Next]_vars

\* The workers go on, and a second passes; m_mutexRW is held for one insertion
\* at a time and the number of requests is bounded.
FairSpec == Spec /\ WF_vars(Tick) /\ \A w \in Workers : WF_vars(WorkerStep(w))

---------------------------------------------------------------------------
\* Properties

TypeOK ==
    /\ live \subseteq Ids /\ index \in 0..MaxRequests /\ lock \in Workers \cup {NULL}
    /\ count \in [Ids -> 0..Timeout + 1] /\ user \in [Ids -> Users \cup {Nobody}]
    /\ down \in BOOLEAN /\ done \in [Workers -> BOOLEAN] /\ slow \subseteq Workers
    /\ pc \in [Workers -> {"idle", "find", "new", "insert", "info", "view", "reply"}]
    /\ for \in [Workers -> Browsers \cup {NULL}] /\ request \in [Workers -> Ops]
    /\ id \in [Workers -> Ids \cup {NULL}]
    /\ cookie \in [Browsers -> Ids \cup {NULL}]
    /\ due \in [Browsers -> Users \cup {Nobody, Unsure}]
    /\ requests \in Nat /\ restarts \in Nat /\ carried \subseteq Browsers \X Ids
    /\ \A i \in live : i <= index /\ count[i] <= Timeout
    /\ lock # NULL => pc[lock] = "insert"

\* The session ids a browser has, or is about to be given
HasSession(b, i) ==
    \/ cookie[b] = i
    \/ \E w \in Workers : for[w] = b /\ id[w] = i /\ pc[w] \in {"info", "view", "reply"}

\* sessionSupport.h:10: a session id identifies one user: no two browsers are
\* given the same session, unless one of them had this very id in a cookie from
\* before a restart, which starts the ids at 1 again (sessionInfo.cpp:12).
OneBrowserPerSession ==
    \A b, c \in Browsers, i \in live :
        HasSession(b, i) /\ HasSession(c, i) => b = c \/ {<<b, i>>, <<c, i>>} \cap carried # {}

\* What a browser was told of its login or logout stays true of the session
\* that its cookie names until that session expires, if no cookie is from
\* before a restart.
LoginIsRemembered ==
    carried = {} =>
        \A b \in Browsers :
            cookie[b] \in live /\ due[b] # Unsure /\ (\A w \in Workers : for[w] # b)
                => user[cookie[b]] = due[b]

\* A session is never looked up after it expired.
NoNullSession == ~down

\* Every request is answered: no worker waits for ever for m_mutexRW.
Answered == \A w \in Workers : []<>(pc[w] = "idle" \/ down)

\* sessionSupport.cpp:38: a session nobody uses any more is erased.
SessionsExpire == \A i \in Ids : []<>(i \notin live \/ down)
=============================================================================
