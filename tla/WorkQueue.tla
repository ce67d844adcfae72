------------------------------ MODULE WorkQueue ------------------------------
(***************************************************************************)
(* What the threads of the server are promised by its queue: messages are  *)
(* taken in the order in which they were put, each once, unless the queue  *)
(* is emptied, and none stays there while a thread calls for one.          *)
(* A thread that calls has a message before it goes on.  MessageQueue      *)
(* shows that the mutex and the condition variable keep this promise,      *)
(* WebccServer that the whole server uses the queue in no other way.       *)
(***************************************************************************)
EXTENDS Sequences

CONSTANTS Messages, Callers

VARIABLES
    list,     \* the messages
    calling   \* the threads that call for one

Init == list = <<>> /\ calling \subseteq Callers

Put(m) == list' = Append(list, m) /\ UNCHANGED calling

\* A thread that took a message does something else with it, or is back.
Take(c) ==
    /\ c \in calling /\ list # <<>>
    /\ list' = Tail(list)
    /\ calling' \in {calling, calling \ {c}}

Empty == list' = <<>> /\ UNCHANGED calling

\* More threads call; none goes on without a message.
Come == calling \subseteq calling' /\ calling' \subseteq Callers /\ UNCHANGED list

TakeSome == \E c \in Callers : Take(c)

Next == TakeSome \/ Empty \/ Come \/ \E m \in Messages : Put(m)

Spec == Init /\ [][Next]_<<list, calling>> /\ WF_<<list, calling>>(TakeSome)
=============================================================================
