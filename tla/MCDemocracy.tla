---------------------------- MODULE MCDemocracy -----------------------------
(* Instances of Democracy for TLC: programs m1 and m2, another thread o1. *)
EXTENDS Democracy, TLC
CONSTANTS m1, m2, o1, summer1, summer2
MCOwner == [w \in Candidate |-> IF w = summer1 THEN m1 ELSE m2]
\* Bound of the model: the affinity of o1 stays as it is.
OnlyPrograms == o1 \in Task => cpus_ptr[o1] = Cpu
=============================================================================
