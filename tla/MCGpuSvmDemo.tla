---------------------------- MODULE MCGpuSvmDemo ----------------------------
(***************************************************************************)
(* Instances of GpuSvmDemo for TLC: main's own five calls, and a longer    *)
(* script for a small ring so that indices and counters wrap.              *)
(***************************************************************************)
EXTENDS GpuSvmDemo

CONSTANTS cpu, gpu, m1, m2, m3, m4, m5, m6

Say(p, m) == [by |-> p, msg |-> m]

\* main_demo_target.cpp: two messages from the CPU, two from the kernel,
\* one from the CPU.
DemoScript ==
  <<Say(cpu, m1), Say(cpu, m2), Say(gpu, m3), Say(gpu, m4), Say(cpu, m5)>>

LapScript == DemoScript \o <<Say(gpu, m6)>>

=============================================================================
