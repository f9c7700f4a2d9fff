----------------------------- MODULE MCInKernel -----------------------------
(* Instances of InKernel for TLC: a per-CPU kernel thread k and programs t1, t2. *)
EXTENDS InKernel, TLC
CONSTANTS k, t1, t2
MCCore    == [c \in Cpu |-> c]
MCCpusPtr == [p \in Task |-> IF p = k THEN {0} ELSE Cpu]
MCWeight  == [p \in Task |-> 100]
MCRates   == [p \in Task |-> {0}]
MCRates4  == [p \in Task |-> IF p = t1 THEN {0, 4} ELSE {0}]
=============================================================================
