------------------------- MODULE HsaDiscovery_proofs -------------------------
(***************************************************************************)
(* What the searches of HsaDiscovery find, on machines of every size.      *)
(***************************************************************************)
EXTENDS HsaDiscovery, WellFoundedInduction, TLAPS

(* Every nonempty set of natural numbers has a least element: induction in *)
(* the form in which it can be used here.                                  *)
LEMMA LeastElement ==
  ASSUME NEW T \in SUBSET Nat, T # {}
  PROVE  \E x \in T : \A y \in T : x <= y
  <1> DEFINE R == OpToRel(<, Nat)
  <1>1. IsWellFoundedOn(R, Nat)
    BY NatLessThanWellFounded
  <1>2. \A x, y \in Nat : y < x => <<y, x>> \in R
    BY DEF OpToRel
  <1> HIDE DEF R
  <1>3. PICK x \in T : \A y \in T : ~(<<y, x>> \in R)
    BY <1>1, WFMin
  <1>4. \A y \in T : ~(y < x)
    BY <1>2, <1>3
  <1> QED
    BY <1>4

(* The last of some positions of a list is one of them.                    *)
LEMMA LastPosition ==
  ASSUME NEW n \in Nat, NEW S \in SUBSET (1 .. n), S # {}
  PROVE  Max(S) \in S /\ \A x \in S : Max(S) >= x
  <1> DEFINE T == {n - x : x \in S}
  <1>1. T \in SUBSET Nat /\ T # {}
    <2>1. \A x \in S : n - x \in Nat
      OBVIOUS
    <2> QED
      BY <2>1
  <1>2. PICK t \in T : \A y \in T : t <= y
    <2> HIDE DEF T
    <2> QED
      BY <1>1, LeastElement
  <1>3. PICK m \in S : t = n - m
    OBVIOUS
  <1>4. \A x \in S : n - m <= n - x
    BY <1>2, <1>3
  <1>5. \A x \in S : m >= x
    BY <1>4
  <1> QED
    BY <1>5 DEF Max

(* The first of some positions of a list.                                  *)
LEMMA FirstPosition ==
  ASSUME NEW n \in Nat, NEW S \in SUBSET (1 .. n), S # {}
  PROVE  \E i \in S : \A j \in 1 .. i - 1 : j \notin S
  <1>1. S \in SUBSET Nat
    OBVIOUS
  <1>2. PICK i \in S : \A j \in S : i <= j
    BY <1>1, LeastElement
  <1> QED
    BY <1>2

-----------------------------------------------------------------------------
(* The iteration.                                                          *)

Visits == {Skip, Take, Stop, Pass, Fail}

(* An iteration leaves a null handle or that of an element it visited and  *)
(* whose callback set it.                                                  *)
LEMMA FoundIsSet ==
  ASSUME NEW visits \in Seq(Visits), Iterate(visits).out # Null
  PROVE  /\ Iterate(visits).out \in 1 .. Len(visits)
         /\ visits[Iterate(visits).out].sets
         /\ \A j \in 1 .. Iterate(visits).out - 1 : Continue(visits[j])
  <1> DEFINE setters == {i \in Visited(visits) : visits[i].sets}
  <1>1. setters \in SUBSET (1 .. Len(visits)) /\ Len(visits) \in Nat
    BY DEF Visited
  <1>2. setters # {} /\ Iterate(visits).out = Max(setters)
    BY DEF Iterate, Found
  <1>3. Max(setters) \in setters
    <2> HIDE DEF setters
    <2> QED
      BY <1>1, <1>2, LastPosition
  <1> QED
    BY <1>2, <1>3 DEF Visited

(* If a callback sets the handle, and none fails or stops before, then the *)
(* iteration does not leave a null handle.                                 *)
LEMMA SetIsFound ==
  ASSUME NEW visits \in Seq(Visits), NEW i \in 1 .. Len(visits),
         visits[i].sets, \A j \in 1 .. i - 1 : Continue(visits[j])
  PROVE  Iterate(visits).out # Null
  <1> DEFINE setters == {k \in Visited(visits) : visits[k].sets}
  <1>1. setters \in SUBSET (1 .. Len(visits)) /\ Len(visits) \in Nat
    BY DEF Visited
  <1>2. i \in setters
    BY DEF Visited
  <1>3. Max(setters) \in setters
    <2> HIDE DEF setters
    <2> QED
      BY <1>1, <1>2, LastPosition
  <1>4. Max(setters) # Null
    BY <1>1, <1>3 DEF Null
  <1> QED
    BY <1>2, <1>4 DEF Iterate, Found

LEMMA EveryVisitMade ==
  ASSUME NEW visits \in Seq(Visits), \A i \in 1 .. Len(visits) : Continue(visits[i])
  PROVE  Visited(visits) = 1 .. Len(visits) /\ Iterate(visits).status = "success"
  <1>1. Visited(visits) = 1 .. Len(visits)
    <2>1. Len(visits) \in Nat /\ DOMAIN visits = 1 .. Len(visits)
      OBVIOUS
    <2>2. \A i \in 1 .. Len(visits) : \A j \in 1 .. i - 1 : j \in 1 .. Len(visits)
      BY <2>1
    <2> QED
      BY <2>1, <2>2 DEF Visited
  <1> QED
    BY <1>1 DEF Iterate, Status

LEMMA VisitsEnd ==
  ASSUME NEW visits \in Seq(Visits), NEW k \in 1 .. Len(visits),
         ~Continue(visits[k]), \A i \in 1 .. k - 1 : Continue(visits[i])
  PROVE  Visited(visits) = 1 .. k /\ Iterate(visits).status = visits[k].status
  <1>1. Len(visits) \in Nat /\ DOMAIN visits = 1 .. Len(visits)
    OBVIOUS
  <1>2. ASSUME NEW i \in 1 .. Len(visits)
        PROVE  i <= k <=> \A j \in 1 .. i - 1 : Continue(visits[j])
    <2>1. CASE i <= k
      BY <1>1, <2>1
    <2>2. CASE i > k
      <3>1. k \in 1 .. i - 1
        BY <1>1, <2>2
      <3> QED
        BY <1>1, <2>2, <3>1
    <2> QED
      BY <1>1, <2>1, <2>2
  <1>3. Visited(visits) = 1 .. k
    <2>1. \A i \in 1 .. Len(visits) : i \in 1 .. k <=> i <= k
      BY <1>1
    <2>2. \A i \in 1 .. k : i \in 1 .. Len(visits)
      BY <1>1
    <2> QED
      BY <1>1, <1>2, <2>1, <2>2 DEF Visited
  <1>4. Max(1 .. k) = k
    <2>1. k \in 1 .. k /\ k \in Nat
      BY <1>1
    <2>2. Max(1 .. k) \in 1 .. k /\ Max(1 .. k) >= k
      BY <2>1, LastPosition
    <2> QED
      BY <2>1, <2>2
  <1>5. k \in 1 .. k
    BY <1>1
  <1> QED
    BY <1>3, <1>4, <1>5 DEF Iterate, Status

(* An iteration that ends without an error does not leave a null handle if *)
(* a callback would set it and none before breaks off without setting it.  *)
LEMMA NotMissed ==
  ASSUME NEW visits \in Seq(Visits), NoError(Iterate(visits)),
         NEW n \in 1 .. Len(visits), visits[n].sets,
         \A i \in 1 .. n : visits[i].status = "break" => visits[i].sets
  PROVE  Iterate(visits).out # Null
  <1> DEFINE enders == {i \in 1 .. Len(visits) : ~Continue(visits[i])}
  <1>1. Len(visits) \in Nat
    OBVIOUS
  <1>2. CASE \A j \in 1 .. n - 1 : Continue(visits[j])
    BY <1>2, SetIsFound
  <1>3. CASE ~ \A j \in 1 .. n - 1 : Continue(visits[j])
    <2>1. PICK j \in 1 .. n - 1 : ~Continue(visits[j])
      BY <1>3
    <2>2. j \in enders
      BY <1>1, <2>1
    <2>3. PICK k \in enders : \A i \in 1 .. k - 1 : i \notin enders
      <3>1. enders \in SUBSET (1 .. Len(visits)) /\ enders # {}
        BY <2>2
      <3> HIDE DEF enders
      <3> QED
        BY <1>1, <3>1, FirstPosition
    <2>4. k \in 1 .. Len(visits) /\ ~Continue(visits[k])
      BY <2>3
    <2>5. \A i \in 1 .. k - 1 : Continue(visits[i])
      BY <1>1, <2>3, <2>4
    <2>6. k <= j
      BY <1>1, <2>1, <2>4, <2>5
    <2>7. visits[k].status = "break"
      BY <2>4, <2>5, VisitsEnd DEF NoError, Continue
    <2>8. visits[k].sets
      BY <1>1, <2>1, <2>4, <2>6, <2>7
    <2> QED
      BY <2>4, <2>5, <2>8, SetIsFound
  <1> QED
    BY <1>2, <1>3

(* What the runtime does for one element more: nothing if the iteration    *)
(* has ended, else a call whose status it goes on with.                    *)
Step(result, i, visit) ==
  IF Continue(result)
  THEN [out |-> IF visit.sets THEN i ELSE result.out, status |-> visit.status]
  ELSE result

(* Found and Status, which speak of the list as a whole, are what the loop *)
(* of the runtime computes, one callback after the other, on every list.   *)
THEOREM IterateIsALoop ==
  /\ Iterate(<<>>) = [out |-> Null, status |-> "success"]
  /\ \A visits \in Seq(Visits), visit \in Visits :
       Iterate(Append(visits, visit)) = Step(Iterate(visits), Len(visits) + 1, visit)
  <1>1. Iterate(<<>>) = [out |-> Null, status |-> "success"]
    <2>1. Visited(<<>>) = {}
      BY DEF Visited
    <2> QED
      BY <2>1 DEF Iterate, Found, Status
  <1>2. ASSUME NEW visits \in Seq(Visits), NEW visit \in Visits
        PROVE  Iterate(Append(visits, visit)) = Step(Iterate(visits), Len(visits) + 1, visit)
    <2> DEFINE n == Len(visits)
               t == Append(visits, visit)
               setters(s) == {i \in Visited(s) : s[i].sets}
    <2>1. /\ n \in Nat /\ t \in Seq(Visits) /\ Len(t) = n + 1
          /\ \A i \in 1 .. n : t[i] = visits[i]
          /\ t[n + 1] = visit
      OBVIOUS
    <2>2. /\ \A s : Iterate(s).out = IF setters(s) = {} THEN Null ELSE Max(setters(s))
          /\ \A s : Iterate(s) = [out |-> Iterate(s).out, status |-> Iterate(s).status]
      BY DEF Iterate, Found
    <2> HIDE DEF n, t
    <2>3. CASE \A i \in 1 .. n : Continue(visits[i])
      <3>1. Visited(visits) = 1 .. n /\ Iterate(visits).status = "success"
        BY <2>3, EveryVisitMade DEF n
      <3>2. Visited(t) = 1 .. n + 1 /\ Iterate(t).status = visit.status
        <4>1. \A i \in 1 .. n : Continue(t[i])
          BY <2>1, <2>3
        <4>2. CASE Continue(visit)
          <5>1. \A i \in 1 .. Len(t) : Continue(t[i])
            BY <2>1, <4>1, <4>2
          <5>2. visit.status = "success"
            BY <4>2 DEF Continue
          <5> QED
            BY <2>1, <5>1, <5>2, EveryVisitMade
        <4>3. CASE ~Continue(visit)
          <5>1. n + 1 \in 1 .. Len(t) /\ (n + 1) - 1 = n
            BY <2>1
          <5> QED
            BY <2>1, <4>1, <4>3, <5>1, VisitsEnd
        <4> QED
          BY <4>2, <4>3
      <3>3. Iterate(t).out = IF visit.sets THEN n + 1 ELSE Iterate(visits).out
        <4>1. CASE visit.sets
          <5>1. setters(t) \in SUBSET (1 .. n + 1) /\ n + 1 \in setters(t) /\ n + 1 \in Nat
            BY <2>1, <3>2, <4>1
          <5> HIDE DEF setters
          <5>2. Max(setters(t)) \in setters(t) /\ Max(setters(t)) >= n + 1
            BY <5>1, LastPosition
          <5>3. Max(setters(t)) = n + 1
            BY <2>1, <5>1, <5>2
          <5> QED
            BY <2>2, <4>1, <5>1, <5>3
        <4>2. CASE ~visit.sets
          <5>1. setters(t) = setters(visits)
            BY <2>1, <3>1, <3>2, <4>2
          <5> HIDE DEF setters
          <5> QED
            BY <2>2, <4>2, <5>1
        <4> QED
          BY <4>1, <4>2
      <3>4. Continue(Iterate(visits))
        BY <3>1 DEF Continue
      <3> HIDE DEF setters
      <3> QED
        BY <2>2, <3>2, <3>3, <3>4 DEF Step, t, n
    <2>4. CASE ~(\A i \in 1 .. n : Continue(visits[i]))
      <3> DEFINE ends == {i \in 1 .. n : ~Continue(visits[i])}
      <3>1. ends \in SUBSET (1 .. n) /\ ends # {}
        BY <2>4
      <3>2. PICK k \in ends : \A j \in 1 .. k - 1 : j \notin ends
        <4> HIDE DEF ends
        <4> QED
          BY <2>1, <3>1, FirstPosition
      <3>3. /\ k \in 1 .. n /\ k \in 1 .. n + 1
            /\ ~Continue(visits[k]) /\ \A j \in 1 .. k - 1 : Continue(visits[j])
        BY <2>1, <3>2
      <3>4. Visited(visits) = 1 .. k /\ Iterate(visits).status = visits[k].status
        BY <3>3, VisitsEnd DEF n
      <3>5. Visited(t) = 1 .. k /\ Iterate(t).status = visits[k].status
        <4>1. \A j \in 1 .. k : t[j] = visits[j]
          BY <2>1, <3>3
        <4>2. t[k] = visits[k] /\ \A j \in 1 .. k - 1 : t[j] = visits[j]
          BY <2>1, <3>3, <4>1
        <4> QED
          BY <2>1, <3>3, <4>2, VisitsEnd
      <3>6. setters(t) = setters(visits)
        BY <2>1, <3>3, <3>4, <3>5
      <3>7. ~Continue(Iterate(visits))
        BY <3>3, <3>4 DEF Continue
      <3> HIDE DEF setters
      <3> QED
        BY <2>2, <3>4, <3>5, <3>6, <3>7 DEF Step, t, n
    <2> QED
      BY <2>3, <2>4
  <1> QED
    BY <1>1, <1>2

-----------------------------------------------------------------------------
(* Agents.                                                                 *)

AgentVisits(want, agents) == [i \in DOMAIN agents |-> VisitAgent(want, agents[i])]

FirstAgentVisits(want, agents) ==
  [i \in DOMAIN agents |-> VisitFirstAgent(want, agents[i])]

PoolVisits(flag, pools) == [i \in DOMAIN pools |-> VisitPool(flag, pools[i])]

LEMMA VisitTypes ==
  /\ \A want, kind : VisitAgent(want, kind) \in Visits
  /\ \A want, kind : VisitFirstAgent(want, kind) \in Visits
  /\ \A flag, kind : VisitPool(flag, kind) \in Visits
  BY DEF VisitAgent, VisitFirstAgent, VisitPool, Visits

LEMMA AgentVisitsTyped ==
  ASSUME NEW want, NEW agents \in Seq(AgentKinds)
  PROVE  /\ AgentVisits(want, agents) \in Seq(Visits)
         /\ Len(AgentVisits(want, agents)) = Len(agents)
         /\ \A i \in 1 .. Len(agents) :
              AgentVisits(want, agents)[i] = VisitAgent(want, agents[i])
         /\ FirstAgentVisits(want, agents) \in Seq(Visits)
         /\ Len(FirstAgentVisits(want, agents)) = Len(agents)
         /\ \A i \in 1 .. Len(agents) :
              FirstAgentVisits(want, agents)[i] = VisitFirstAgent(want, agents[i])
  BY VisitTypes DEF AgentVisits, FirstAgentVisits

LEMMA PoolVisitsTyped ==
  ASSUME NEW flag, NEW pools \in Seq(PoolKinds)
  PROVE  /\ PoolVisits(flag, pools) \in Seq(Visits)
         /\ Len(PoolVisits(flag, pools)) = Len(pools)
         /\ \A i \in 1 .. Len(pools) :
              PoolVisits(flag, pools)[i] = VisitPool(flag, pools[i])
  BY VisitTypes DEF PoolVisits

(* get_agent finds the first agent of the kind that is wanted.             *)
LEMMA AgentFound ==
  ASSUME NEW want \in {"cpu", "gpu"}, NEW agents \in Seq(AgentKinds),
         get_agent(want, agents).out # Null
  PROVE  LET a == get_agent(want, agents).out
         IN /\ a \in 1 .. Len(agents)
            /\ agents[a] = want
            /\ \A i \in 1 .. a - 1 : agents[i] # want
  <1> DEFINE visits == AgentVisits(want, agents)
             a == get_agent(want, agents).out
  <1>1. get_agent(want, agents) = Iterate(visits)
    BY DEF get_agent, AgentVisits
  <1>2. /\ visits \in Seq(Visits) /\ Len(visits) = Len(agents)
        /\ \A i \in 1 .. Len(agents) : visits[i] = VisitAgent(want, agents[i])
    BY AgentVisitsTyped
  <1> HIDE DEF visits
  <1>3. /\ a \in 1 .. Len(agents)
        /\ visits[a].sets
        /\ \A j \in 1 .. a - 1 : Continue(visits[j])
    BY <1>1, <1>2, FoundIsSet
  <1>4. \A kind \in AgentKinds :
          /\ VisitAgent(want, kind).sets => kind = want
          /\ Continue(VisitAgent(want, kind)) => kind # want
    BY DEF VisitAgent, Continue, Skip, Stop, Fail, AgentKinds
  <1>5. \A i \in 1 .. Len(agents) : agents[i] \in AgentKinds
    OBVIOUS
  <1> QED
    BY <1>2, <1>3, <1>4, <1>5

(* It finds one if there is one and every agent can be read.               *)
LEMMA AgentNotMissed ==
  ASSUME NEW want \in {"cpu", "gpu"}, NEW agents \in Seq(AgentKinds),
         NEW n \in 1 .. Len(agents), agents[n] = want,
         \A i \in 1 .. n : agents[i] \in {"cpu", "gpu", "gpu_no_dispatch"}
  PROVE  get_agent(want, agents).out # Null
  <1> DEFINE visits == AgentVisits(want, agents)
             wanted == {i \in 1 .. Len(agents) : agents[i] = want}
  <1>1. get_agent(want, agents) = Iterate(visits)
    BY DEF get_agent, AgentVisits
  <1>2. /\ visits \in Seq(Visits) /\ Len(visits) = Len(agents)
        /\ \A i \in 1 .. Len(agents) : visits[i] = VisitAgent(want, agents[i])
    BY AgentVisitsTyped
  <1>3. PICK i \in wanted : \A j \in 1 .. i - 1 : j \notin wanted
    <2>1. wanted \in SUBSET (1 .. Len(agents)) /\ wanted # {} /\ Len(agents) \in Nat
      OBVIOUS
    <2> HIDE DEF wanted
    <2> QED
      BY <2>1, FirstPosition
  <1>4. i <= n /\ n <= Len(agents) /\ Len(agents) \in Nat
    BY <1>3
  <1>5. \A kind \in {"cpu", "gpu", "gpu_no_dispatch"} :
          kind # want => Continue(VisitAgent(want, kind))
    BY DEF VisitAgent, Continue, Skip, Stop, Fail
  <1>6. VisitAgent(want, want).sets
    BY DEF VisitAgent, Stop
  <1> HIDE DEF visits
  <1>7. visits[i].sets
    BY <1>2, <1>3, <1>6
  <1>8. \A j \in 1 .. i - 1 : Continue(visits[j])
    BY <1>2, <1>3, <1>4, <1>5
  <1> QED
    BY <1>1, <1>2, <1>3, <1>7, <1>8, SetIsFound

(* It finds one, if there is one and the search ends without an error.     *)
LEMMA AgentFoundIfThere ==
  ASSUME NEW want \in {"cpu", "gpu"}, NEW agents \in Seq(AgentKinds),
         NoError(get_agent(want, agents)),
         NEW n \in 1 .. Len(agents), agents[n] = want
  PROVE  get_agent(want, agents).out # Null
  <1> DEFINE visits == AgentVisits(want, agents)
  <1>1. get_agent(want, agents) = Iterate(visits)
    BY DEF get_agent, AgentVisits
  <1>2. /\ visits \in Seq(Visits) /\ Len(visits) = Len(agents)
        /\ \A i \in 1 .. Len(agents) : visits[i] = VisitAgent(want, agents[i])
    BY AgentVisitsTyped
  <1> HIDE DEF visits
  <1>3. /\ \A kind : VisitAgent(want, kind).status = "break" => VisitAgent(want, kind).sets
        /\ VisitAgent(want, want).sets
    BY DEF VisitAgent, Skip, Stop, Fail
  <1>4. \A i \in 1 .. n : i \in 1 .. Len(agents)
    OBVIOUS
  <1>5. visits[n].sets /\ \A i \in 1 .. n : visits[i].status = "break" => visits[i].sets
    BY <1>2, <1>3, <1>4
  <1> QED
    BY <1>1, <1>2, <1>5, NotMissed

(* svm_migration_cg finds a GPU, if its search ends without an error,      *)
(* exactly if there is one and none before it that runs no kernels.        *)
LEMMA FirstAgentFoundIfThere ==
  ASSUME NEW agents \in Seq(AgentKinds), NoError(get_first_agent("gpu", agents))
  PROVE  get_first_agent("gpu", agents).out # Null <=>
           \E n \in DOMAIN agents :
             /\ agents[n] = "gpu"
             /\ \A i \in 1 .. n - 1 : agents[i] # "gpu_no_dispatch"
  <1> DEFINE visits == FirstAgentVisits("gpu", agents)
             f == get_first_agent("gpu", agents).out
  <1>1. get_first_agent("gpu", agents) = Iterate(visits)
    BY DEF get_first_agent, FirstAgentVisits
  <1>2. /\ visits \in Seq(Visits) /\ Len(visits) = Len(agents)
        /\ \A i \in 1 .. Len(agents) : visits[i] = VisitFirstAgent("gpu", agents[i])
    BY AgentVisitsTyped
  <1> HIDE DEF visits
  <1>3. /\ DOMAIN agents = 1 .. Len(agents) /\ Len(agents) \in Nat
        /\ \A i \in 1 .. Len(agents) : agents[i] \in AgentKinds
    OBVIOUS
  <1>4. /\ \A kind \in AgentKinds : VisitFirstAgent("gpu", kind).sets => kind = "gpu"
        /\ \A kind \in AgentKinds :
             Continue(VisitFirstAgent("gpu", kind)) => kind # "gpu_no_dispatch"
        /\ \A kind \in AgentKinds :
             VisitFirstAgent("gpu", kind).status = "break" /\ kind # "gpu_no_dispatch"
               => VisitFirstAgent("gpu", kind).sets
        /\ VisitFirstAgent("gpu", "gpu").sets
    BY DEF VisitFirstAgent, Continue, Skip, Stop, Pass, Fail, AgentKinds
  <1>5. ASSUME f # Null
        PROVE  /\ f \in DOMAIN agents /\ agents[f] = "gpu"
               /\ \A i \in 1 .. f - 1 : agents[i] # "gpu_no_dispatch"
    <2>1. /\ f \in 1 .. Len(agents) /\ visits[f].sets
          /\ \A j \in 1 .. f - 1 : Continue(visits[j])
      BY <1>1, <1>2, <1>5, FoundIsSet
    <2> QED
      BY <1>2, <1>3, <1>4, <2>1
  <1>6. ASSUME NEW n \in DOMAIN agents, agents[n] = "gpu",
               \A i \in 1 .. n - 1 : agents[i] # "gpu_no_dispatch"
        PROVE  f # Null
    <2>1. n \in 1 .. Len(agents) /\ visits[n].sets
      BY <1>2, <1>3, <1>4, <1>6
    <2>2. ASSUME NEW i \in 1 .. n, visits[i].status = "break"
          PROVE  visits[i].sets
      <3>1. i \in 1 .. Len(agents) /\ agents[i] # "gpu_no_dispatch"
        BY <1>3, <1>6, <2>1
      <3> QED
        BY <1>2, <1>3, <1>4, <2>2, <3>1
    <2> QED
      BY <1>1, <1>2, <2>1, <2>2, NotMissed
  <1> QED
    BY <1>5, <1>6

(* What svm_migration_cg finds is what the other programs would find.      *)
LEMMA FirstAgentFound ==
  ASSUME NEW agents \in Seq(AgentKinds), get_first_agent("gpu", agents).out # Null
  PROVE  get_agent("gpu", agents).out = get_first_agent("gpu", agents).out
  <1> DEFINE visits == FirstAgentVisits("gpu", agents)
             f == get_first_agent("gpu", agents).out
             a == get_agent("gpu", agents).out
  <1>1. get_first_agent("gpu", agents) = Iterate(visits)
    BY DEF get_first_agent, FirstAgentVisits
  <1>2. /\ visits \in Seq(Visits) /\ Len(visits) = Len(agents)
        /\ \A i \in 1 .. Len(agents) : visits[i] = VisitFirstAgent("gpu", agents[i])
    BY AgentVisitsTyped
  <1> HIDE DEF visits
  <1>3. /\ f \in 1 .. Len(agents)
        /\ visits[f].sets
        /\ \A j \in 1 .. f - 1 : Continue(visits[j])
    BY <1>1, <1>2, FoundIsSet
  <1>4. \A kind \in AgentKinds :
          /\ VisitFirstAgent("gpu", kind).sets => kind = "gpu"
          /\ Continue(VisitFirstAgent("gpu", kind)) => kind = "cpu"
    BY DEF VisitFirstAgent, Continue, Skip, Stop, Pass, Fail, AgentKinds
  <1>5. \A i \in 1 .. Len(agents) : agents[i] \in AgentKinds
    OBVIOUS
  <1>6. agents[f] = "gpu" /\ \A i \in 1 .. f - 1 : agents[i] = "cpu"
    BY <1>2, <1>3, <1>4, <1>5
  <1>7. a # Null
    BY <1>3, <1>6, AgentNotMissed
  <1>8. /\ a \in 1 .. Len(agents)
        /\ agents[a] = "gpu"
        /\ \A i \in 1 .. a - 1 : agents[i] # "gpu"
    BY <1>7, AgentFound
  <1> QED
    BY <1>3, <1>6, <1>8

-----------------------------------------------------------------------------
(* Pools.                                                                  *)

(* The pool that get_agent_memory_pool finds has the flag.                 *)
LEMMA PoolFound ==
  ASSUME NEW flag, NEW pools \in Seq(PoolKinds),
         get_agent_memory_pool(flag, pools).out # Null
  PROVE  LET p == get_agent_memory_pool(flag, pools).out
         IN p \in 1 .. Len(pools) /\ flag \in Flags(pools[p])
  <1> DEFINE visits == PoolVisits(flag, pools)
             p == get_agent_memory_pool(flag, pools).out
  <1>1. get_agent_memory_pool(flag, pools) = Iterate(visits)
    BY DEF get_agent_memory_pool, PoolVisits
  <1>2. /\ visits \in Seq(Visits) /\ Len(visits) = Len(pools)
        /\ \A i \in 1 .. Len(pools) : visits[i] = VisitPool(flag, pools[i])
    BY PoolVisitsTyped
  <1> HIDE DEF visits
  <1>3. p \in 1 .. Len(pools) /\ visits[p].sets
    BY <1>1, <1>2, FoundIsSet
  <1>4. \A kind : VisitPool(flag, kind).sets => flag \in Flags(kind)
    BY DEF VisitPool, Skip, Take, Fail
  <1> QED
    BY <1>2, <1>3, <1>4

(* It finds one, if there is one and the search ends without an error.     *)
LEMMA PoolFoundIfThere ==
  ASSUME NEW flag, NEW pools \in Seq(PoolKinds),
         NoError(get_agent_memory_pool(flag, pools)),
         NEW n \in 1 .. Len(pools), flag \in Flags(pools[n])
  PROVE  get_agent_memory_pool(flag, pools).out # Null
  <1> DEFINE visits == PoolVisits(flag, pools)
  <1>1. get_agent_memory_pool(flag, pools) = Iterate(visits)
    BY DEF get_agent_memory_pool, PoolVisits
  <1>2. /\ visits \in Seq(Visits) /\ Len(visits) = Len(pools)
        /\ \A i \in 1 .. Len(pools) : visits[i] = VisitPool(flag, pools[i])
    BY PoolVisitsTyped
  <1> HIDE DEF visits
  <1>3. \A kind : VisitPool(flag, kind).status # "break"
    BY DEF VisitPool, Skip, Take, Fail
  <1>4. \A kind : flag \in Flags(kind) => VisitPool(flag, kind).sets
    BY DEF VisitPool, Take, Fail, Flags
  <1>5. \A i \in 1 .. n : i \in 1 .. Len(pools)
    OBVIOUS
  <1>6. visits[n].sets /\ \A i \in 1 .. n : visits[i].status # "break"
    BY <1>2, <1>3, <1>4, <1>5
  <1> QED
    BY <1>1, <1>2, <1>6, NotMissed

=============================================================================
