---------------------------- MODULE MCUserAdmin ----------------------------
\* Two administrators and the first users of FakeDB().
EXTENDS UserAdmin

CONSTANTS p1, p2, admin, inuyasha, kagome, kikyo, old, new

Users2 == <<[id |-> 1, name |-> admin, password |-> old, group |-> 1],
            [id |-> 2, name |-> inuyasha, password |-> old, group |-> 2]>>

Users3 == Append(Users2, [id |-> 3, name |-> kagome, password |-> old, group |-> 2])
=============================================================================
