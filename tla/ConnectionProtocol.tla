------------------------- MODULE ConnectionProtocol -------------------------
(***************************************************************************)
(* What the server promises each connection, whatever the threads do: its  *)
(* requests are read, handled and answered one at a time and in order, a   *)
(* request that was read is handled at most once, and a connection that    *)
(* was dropped never comes back.  WebccServer implements it.               *)
(***************************************************************************)
CONSTANT Conns

VARIABLE phase

Phases == {"new", "reading", "queued", "handling", "writing", "gone"}

PhaseOK == phase \in [Conns -> Phases]

Init == phase = [c \in Conns |-> "new"]

Move(c, from, to) == phase[c] = from /\ phase' = [phase EXCEPT ![c] = to]

Accept(c)  == Move(c, "new", "reading")
Receive(c) == Move(c, "reading", "queued")
Refuse(c)  == Move(c, "reading", "writing")     \* a 400, without a view
Take(c)    == Move(c, "queued", "handling")
Answer(c)  == Move(c, "handling", "writing")
Again(c)   == Move(c, "writing", "reading")     \* keep-alive

\* Connections are dropped one at a time, or all that wait when the server
\* stops; never while a worker handles their request.
Drop(S) ==
    /\ S # {} /\ \A c \in S : phase[c] # "handling"
    /\ phase' = [c \in Conns |-> IF c \in S THEN "gone" ELSE phase[c]]

Next ==
    \/ \E c \in Conns : \/ Accept(c) \/ Receive(c) \/ Refuse(c)
                        \/ Take(c) \/ Answer(c) \/ Again(c)
    \/ \E S \in SUBSET Conns : Drop(S)

Spec == Init /\ [][Next]_phase

\* A request that is queued is taken or dropped; one that is taken is answered.
Attend(c) == phase[c] = "queued" /\ (Take(c) \/ \E S \in SUBSET Conns : c \in S /\ Drop(S))

FairSpec == Spec /\ \A c \in Conns : WF_phase(Attend(c)) /\ WF_phase(Answer(c))
=============================================================================
