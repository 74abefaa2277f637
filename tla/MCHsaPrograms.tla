---------------------------- MODULE MCHsaPrograms ----------------------------
(***************************************************************************)
(* HsaPrograms on small machines: every sequence of at most MaxAgents      *)
(* agents, and, with a CPU and a GPU, every sequence of at most MaxPools   *)
(* pools of the one or the other.                                          *)
(***************************************************************************)
EXTENDS HsaPrograms, SequencesExt

CONSTANTS MaxAgents, MaxPools

SmallMachines ==
  [agents : SeqOf(AgentKinds, MaxAgents), pools : {<<>>, <<"fine">>}, vram : {<<"coarse">>}]
    \union
  [agents : {<<"cpu", "gpu">>}, pools : SeqOf(PoolKinds, MaxPools),
   vram : {<<>>, <<"coarse">>}]
    \union
  [agents : {<<"cpu", "gpu">>}, pools : {<<"kernarg_fine">>},
   vram : SeqOf(PoolKinds, MaxPools)]

(* Iterate's sets of elements describe the loop of the runtime, one call   *)
(* after the other: on every list of at most four visits both agree.       *)
Loop(visits) ==
  FoldLeft(LAMBDA acc, i :
             IF ~Continue(acc) THEN acc
             ELSE [out |-> IF visits[i].sets THEN i ELSE acc.out,
                   status |-> visits[i].status],
           [out |-> Null, status |-> "success"],
           [i \in DOMAIN visits |-> i])

ASSUME IterateIsTheLoop ==
  \A visits \in SeqOf({Skip, Take, Stop, Pass, Fail}, 4) : Iterate(visits) = Loop(visits)

=============================================================================
