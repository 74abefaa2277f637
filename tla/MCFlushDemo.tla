----------------------------- MODULE MCFlushDemo -----------------------------
(***************************************************************************)
(* Instances of FlushDemo for TLC.                                         *)
(***************************************************************************)
EXTENDS FlushDemo, SequencesExt

CONSTANTS
  MaxOps,    \* length of the programs in Scripts
  MaxFails,  \* how many flushes of a program fail
  cpu, gpu, m1, m2, m3, m4, m5, m6, m7, m8, m9

Names == <<m1, m2, m3, m4, m5, m6, m7, m8, m9>>

\* The flushes of a program fail in every way, but at most MaxFails of them.
Fates(sqpoll, scripts) ==
  UNION {{[sqpoll |-> sqpoll, script |-> s, fails |-> f] :
            f \in {g \in SUBSET {i \in DOMAIN s : s[i].op = "flush"} :
                     Cardinality(g) <= MaxFails}} : s \in scripts}

\* io_uring_gpu_no_poll/src/main_demo_target.cpp.
NoPoll ==
  <<Say(cpu, m1), Say(cpu, m2), Flush, Say(gpu, m3), Say(cpu, m4), Flush, Reap,
    Flush, Reap>>

\* io_uring_svm_cpu_only/src/main_demo_target.cpp is one round.
Rounds(msgs) ==
  FlattenSeq([i \in DOMAIN msgs |-> <<Say(cpu, msgs[i]), Flush, Reap>>])

\* io_uring_cpu_mt/src/main_demo_target.c and uring_device.c.  The loop that
\* waits in the kernel has no effect that anyone else waits for.
DeviceBuild == <<Say(gpu, m1)>>

\* More calls than the ring has entries, and no flush.
Burst == [i \in 1 .. Entries + 1 |-> Say(cpu, Names[i])]

\* Every order of at most MaxOps calls; the i-th prints the i-th name, from
\* the CPU and from the GPU in turn.
Scripts ==
  {[i \in DOMAIN ops |->
      IF ops[i] = "call" THEN Say(IF i % 2 = 1 THEN cpu ELSE gpu, Names[i])
      ELSE [op |-> ops[i]]] :
     ops \in SeqOf({"call", "flush", "reap"}, MaxOps)}

AllPrograms ==
  Fates(FALSE, Scripts \union {NoPoll})
    \union Fates(TRUE, {DeviceBuild, Burst, Rounds(<<m1, m2, m3>>)})
    \union {[sqpoll |-> TRUE, script |-> Rounds(Names), fails |-> {}]}

OnlyNoPoll == {[sqpoll |-> FALSE, script |-> NoPoll, fails |-> {}]}

OnlyDeviceBuild == {[sqpoll |-> TRUE, script |-> DeviceBuild, fails |-> {}]}

=============================================================================
