---------------------------- MODULE HsaDiscovery ----------------------------
(***************************************************************************)
(* How the programs find a GPU, a CPU and a memory pool of the CPU: the    *)
(* callbacks of get_agent and get_agent_memory_pool, and the iteration of  *)
(* the HSA runtime that calls them on each element until one returns       *)
(* something else than HSA_STATUS_SUCCESS.                                 *)
(*                                                                         *)
(* A machine is a sequence of agents and the sequences of the CPU's and of *)
(* the GPU's pools.  A handle is a position in its sequence; Null is what  *)
(* a handle holds when nothing is found: zero, or in svm_migration_cg,     *)
(* which does not initialise its handles, anything.                        *)
(***************************************************************************)
EXTENDS Integers, Sequences, FiniteSetsExt

CONSTANT Machines   \* [agents, pools, vram]: the machines considered

\* "mute": HSA_AGENT_INFO_DEVICE fails; "mute_gpu": its features cannot be read.
AgentKinds == {"cpu", "gpu", "gpu_no_dispatch", "mute", "mute_gpu"}

\* A global pool by its flags, or a pool of another segment, or one whose
\* info cannot be read.
PoolKinds == {"fine", "kernarg_fine", "coarse", "group", "mute"}

ASSUME MachineAssumption ==
  Machines \subseteq
    [agents : Seq(AgentKinds), pools : Seq(PoolKinds), vram : Seq(PoolKinds)]

Null == 0

Flags(kind) ==
  CASE kind = "fine" -> {"fine"}
    [] kind = "kernarg_fine" -> {"kernarg", "fine"}
    [] kind = "coarse" -> {"coarse"}
    [] OTHER -> {}

-----------------------------------------------------------------------------
(* What a callback does for one element: whether it sets *out to the       *)
(* element, and the status that it returns.                                *)

Skip == [sets |-> FALSE, status |-> "success"]
Take == [sets |-> TRUE, status |-> "success"]
Stop == [sets |-> TRUE, status |-> "break"]
Pass == [sets |-> FALSE, status |-> "break"]
Fail == [sets |-> FALSE, status |-> "error"]

\* Faulty: a GPU that cannot be dispatched to is taken too.
VisitAgent_AnyGpu(want, kind) ==
  CASE kind = "mute" -> Fail
    [] kind = "mute_gpu" /\ want = "gpu" -> Fail
    [] kind = want -> Stop
    [] kind = "gpu_no_dispatch" /\ want = "gpu" -> Stop
    [] OTHER -> Skip

VisitAgent(want, kind) ==
  CASE kind = "mute" -> Fail
    [] kind = "mute_gpu" /\ want = "gpu" -> Fail
    [] kind = want -> Stop
    [] OTHER -> Skip

\* svm_migration_cg: the first GPU ends the search, taken or not.
VisitFirstAgent(want, kind) ==
  CASE kind = "mute" -> Fail
    [] kind = "mute_gpu" /\ want = "gpu" -> Fail
    [] kind = "gpu_no_dispatch" /\ want = "gpu" -> Pass
    [] kind = want -> Stop
    [] OTHER -> Skip

\* Faulty: the flags are compared for equality.
VisitPool_Equal(flag, kind) ==
  CASE kind = "mute" -> Fail
    [] {flag} = Flags(kind) -> Take
    [] OTHER -> Skip

\* It never stops the iteration: a later pool replaces an earlier one.
VisitPool(flag, kind) ==
  CASE kind = "mute" -> Fail
    [] flag \in Flags(kind) -> Take
    [] OTHER -> Skip

\* hsa_iterate_agents and hsa_amd_agent_iterate_memory_pools call on while
\* the callback succeeds.
Continue(visit) == visit.status = "success"

\* The elements that the callback is called on.
Visited(visits) ==
  {i \in DOMAIN visits : \A j \in 1 .. i - 1 : Continue(visits[j])}

\* What the last of them to set *out has left there.
Found(visits) ==
  LET setters == {i \in Visited(visits) : visits[i].sets}
  IN IF setters = {} THEN Null ELSE Max(setters)

\* The runtime returns what ended the iteration.
Status(visits) ==
  IF \A i \in Visited(visits) : Continue(visits[i])
  THEN "success"
  ELSE visits[Max(Visited(visits))].status

Iterate(visits) == [out |-> Found(visits), status |-> Status(visits)]

get_agent(want, agents) ==
  Iterate([i \in DOMAIN agents |-> VisitAgent(want, agents[i])])

get_first_agent(want, agents) ==
  Iterate([i \in DOMAIN agents |-> VisitFirstAgent(want, agents[i])])

get_agent_memory_pool(flag, pools) ==
  Iterate([i \in DOMAIN pools |-> VisitPool(flag, pools[i])])

\* handle_error lets these pass and ends the process on any other.
NoError(result) == result.status \in {"success", "break"}

=============================================================================
