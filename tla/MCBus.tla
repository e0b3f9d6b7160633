------------------------------- MODULE MCBus -------------------------------
(***************************************************************************)
(* Instances of Bus for TLC.                                               *)
(***************************************************************************)
EXTENDS Bus

CONSTANTS p1, p2, s1, s2, d1, m0, m1, m2, data, drops

\* d1 reads the drop notices, the others the data topic.
MCTopicOf == [s \in Subs |-> IF s = d1 THEN drops ELSE data]

\* m0 has expired before it is published, m1 expires within the clock bound, m2 does not.
MCExpiresAt == [m \in Msgs |-> IF m = m0 THEN 0 ELSE IF m = m1 THEN 1 ELSE 9]
NoExpiry == [m \in Msgs |-> 9]

AllAgents == [p \in Publishers |-> "agent"]

Symmetry == Permutations(Publishers)
FanoutSymmetry == Permutations(Publishers) \cup Permutations(Subs) \cup Permutations(Msgs)
=============================================================================
