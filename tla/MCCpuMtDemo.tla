----------------------------- MODULE MCCpuMtDemo -----------------------------
(***************************************************************************)
(* Instance of CpuMtDemo for TLC: two threads are enough to show what goes *)
(* wrong and what does not.                                                *)
(***************************************************************************)
EXTENDS CpuMtDemo

CONSTANTS t1, t2

TwoThreads == {t1, t2}

=============================================================================
