--------------------------- MODULE HelperCli_proofs ---------------------------
(***************************************************************************)
(* Proofs about HelperCli, for every set of command lines.                 *)
(***************************************************************************)
EXTENDS HelperCli, FiniteSetTheorems, TLAPS

(* A set of numbers after i that contains, with each number, all before it *)
(* back to i is an interval, as long as the set is large.                  *)
LEMMA ClosedIsInterval ==
  ASSUME NEW i \in Nat, NEW n \in Nat, NEW S \in SUBSET (i + 1 .. n),
         \A k \in S : \A j \in i + 1 .. k : j \in S
  PROVE  /\ Cardinality(S) \in Nat
         /\ i <= n => i + Cardinality(S) <= n
         /\ S = i + 1 .. i + Cardinality(S)
  <1>1. /\ IsFiniteSet(i + 1 .. n)
        /\ Cardinality(i + 1 .. n) = IF i + 1 > n THEN 0 ELSE n - (i + 1) + 1
    BY FS_Interval
  <1>2. IsFiniteSet(S) /\ Cardinality(S) <= Cardinality(i + 1 .. n)
    BY <1>1, FS_Subset
  <1>3. Cardinality(S) \in Nat
    BY <1>2, FS_CardinalityType
  <1>4. i <= n => i + Cardinality(S) <= n
    BY <1>1, <1>2, <1>3
  <1>5. ASSUME NEW k \in S
        PROVE  k \in i + 1 .. i + Cardinality(S)
    <2>1. k \in Int /\ i + 1 <= k
      OBVIOUS
    <2>2. (i + 1 .. k) \in SUBSET S
      OBVIOUS
    <2>3. Cardinality(i + 1 .. k) <= Cardinality(S)
      BY <1>2, <2>2, FS_Subset
    <2>4. Cardinality(i + 1 .. k) = k - (i + 1) + 1
      BY <2>1, FS_Interval
    <2> QED
      BY <2>1, <2>3, <2>4, <1>3
  <1>6. ASSUME NEW j \in i + 1 .. i + Cardinality(S), j \notin S
        PROVE  FALSE
    <2>1. j \in Int /\ i + 1 <= j /\ j <= i + Cardinality(S)
      BY <1>3
    <2>2. S \in SUBSET (i + 1 .. j - 1)
      <3> SUFFICES ASSUME NEW k \in S, ~(k <= j - 1)
                   PROVE  FALSE
        BY <2>1
      <3> QED
        BY <1>6, <2>1
    <2>3. /\ IsFiniteSet(i + 1 .. j - 1)
          /\ Cardinality(i + 1 .. j - 1) = IF i + 1 > j - 1 THEN 0 ELSE (j - 1) - (i + 1) + 1
      <3>1. i + 1 \in Int /\ j - 1 \in Int
        BY <2>1
      <3> QED
        BY <3>1, FS_Interval
    <2>4. Cardinality(S) <= Cardinality(i + 1 .. j - 1)
      BY <2>2, <2>3, FS_Subset
    <2> QED
      BY <2>1, <2>3, <2>4, <1>3
  <1> QED
    BY <1>3, <1>4, <1>5, <1>6

-----------------------------------------------------------------------------
(* Types.                                                                  *)

(* The arguments of a line are words.                                      *)
LEMMA LineType ==
  ASSUME NEW l \in CommandLines \union {NoLine}
  PROVE  l.args \in Seq(Words) /\ Len(l.args) \in Nat /\ (l.args = <<>> <=> Len(l.args) = 0)
  <1>1. CASE l = NoLine
    BY <1>1 DEF NoLine
  <1>2. CASE l \in CommandLines
    <2>1. l \in [primary : {"build-llvm", "application"}, args : Seq(Words)]
      BY <1>2, CommandLineAssumption
    <2>2. l.args \in Seq(Words)
      BY <2>1
    <2> QED
      BY <2>2
  <1> QED
    BY <1>1, <1>2

(* The next argument is one of the line's or the one past them; build-llvm *)
(* and a lone application count as one argument.                           *)
LEMMA PositionsType ==
  ASSUME NEW l \in CommandLines \union {NoLine}
  PROVE  /\ l.args = <<>> => Positions(l) = 1 .. 2
         /\ l.args # <<>> => Positions(l) = 1 .. Len(l.args) + 1
         /\ 1 \in Positions(l)
  <1>1. Len(l.args) \in Nat
    BY LineType
  <1>2. CASE l.args = <<>>
    BY <1>2 DEF Positions
  <1>3. CASE l.args # <<>>
    BY <1>1, <1>3 DEF Positions
  <1> QED
    BY <1>2, <1>3

(* The options after a build that is in the line fill the positions from   *)
(* it to the next one to take.                                             *)
LEMMA OptionsFollow ==
  ASSUME TypeOK, at <= Len(line.args)
  PROVE  /\ Cardinality(OptionsAt(at)) \in Nat
         /\ at + Cardinality(OptionsAt(at)) <= Len(line.args)
         /\ OptionsAt(at) = at + 1 .. at + Cardinality(OptionsAt(at))
  <1> DEFINE n == Len(line.args)
             S == OptionsAt(at)
  <1>1. n \in Nat /\ at \in Nat /\ at <= n
    BY LineType DEF TypeOK, Positions
  <1>2. S \in SUBSET (at + 1 .. n)
    BY DEF OptionsAt
  <1>3. \A k \in S : \A j \in at + 1 .. k : j \in S
    BY <1>1 DEF OptionsAt
  <1> HIDE DEF n, S
  <1>4. /\ Cardinality(S) \in Nat
        /\ at <= n => at + Cardinality(S) <= n
        /\ S = at + 1 .. at + Cardinality(S)
    BY <1>1, <1>2, <1>3, ClosedIsInterval
  <1> QED
    BY <1>1, <1>4 DEF n, S

(* The four argument lists of the script.                                  *)
LEMMA ArgvType ==
  ASSUME NEW a \in BOOLEAN, NEW b \in BOOLEAN
  PROVE  /\ Argv(a, b) \in Argvs
         /\ Len(Argv(a, b)) >= 1 /\ Argv(a, b)[1] = "--clean" => a
  <1>1. CASE a /\ b
    BY <1>1 DEF Argv, Argvs
  <1>2. CASE a /\ ~b
    BY <1>2 DEF Argv, Argvs
  <1>3. CASE ~a /\ b
    <2>1. Argv(a, b) = <<"--run-cmake">>
      BY <1>3 DEF Argv
    <2>2. <<"--run-cmake">>[1] = "--run-cmake"
      OBVIOUS
    <2> QED
      BY <2>1, <2>2 DEF Argvs
  <1>4. CASE ~a /\ ~b
    <2>1. Argv(a, b) = <<>>
      BY <1>4 DEF Argv
    <2> QED
      BY <2>1 DEF Argvs
  <1> QED
    BY <1>1, <1>2, <1>3, <1>4

(* Between invocations there are no arguments.                             *)
LEMMA NoArgv == <<>> \in Argvs
  BY DEF Argvs

(* ... and no commands.                                                    *)
LEMMA NoLineFacts == NoLine.args = <<>> /\ NoLine.primary = "none"
  BY DEF NoLine

-----------------------------------------------------------------------------
(* The inductive invariant.                                                *)

ShellClean == outcome = "shell" => line = NoLine /\ at = 1

Resting == outcome # "parsing" => doing = "idle"

StepsReady ==
  doing = "install" => tree = "configured"

IInv ==
  /\ TypeOK
  /\ ShellClean
  /\ Resting
  /\ StepsReady
  /\ OptionsStayWithTheirBuild
  /\ BuiltBeforeNext

\* The steps by what they do to line, at, argv and doing.
Exits == BuildLlvmArgs \/ BuildOption \/ Unknown \/ Finish
Starts == RunAlone \/ Run \/ Ninja
Runs == RunEnv \/ RunCompile \/ RunDemo \/ RunNinja
BuildProgress == ScriptFlags \/ ScriptCleanTree \/ ScriptCleanInstall \/ ScriptCmake \/ ScriptBuild

(* Initially the invariant holds.                                          *)
LEMMA InitIInv == Init => IInv
  <1> SUFFICES ASSUME Init PROVE IInv
    OBVIOUS
  <1>1. line = NoLine /\ line.args = <<>> /\ line.primary = "none"
    BY NoLineFacts DEF Init
  <1>2. Positions(line) = 1 .. 2
    BY <1>1, PositionsType
  <1>3. TypeOK
    <2>1. at \in Positions(line) /\ line \in CommandLines \union {NoLine}
      BY <1>1, <1>2 DEF Init
    <2>2. argv \in Argvs
      BY NoArgv DEF Init
    <2> QED
      BY <2>1, <2>2 DEF Init, TypeOK, Outcomes, BuildSteps, RunSteps
  <1>4. doing = "idle" /\ outcome = "shell" /\ at = 1
    BY DEF Init
  <1> QED
    BY <1>1, <1>3, <1>4 DEF IInv, ShellClean, Resting, StepsReady,
       OptionsStayWithTheirBuild, BuiltBeforeNext, BuildSteps

(* A build that is started moves to the word after its options.            *)
LEMMA BuildStep ==
  ASSUME IInv, Build
  PROVE  /\ at' \in at + 1 .. Len(line.args) + 1
         /\ at' - 1 \in Nat
         /\ at \in DOMAIN line.args /\ line.args[at] = "build"
         /\ OptionsAt(at) = at + 1 .. at' - 1
         /\ argv' \in Argvs
         /\ Clean' => "--clean" \in OptionsAfter(at)
  <1>1. at \in Nat \ {0} /\ line.args \in Seq(Words) /\ Len(line.args) \in Nat
    BY LineType DEF IInv, TypeOK, Positions
  <1>2. at <= Len(line.args) /\ line.args[at] = "build"
    BY DEF Build, Command
  <1>3. /\ Cardinality(OptionsAt(at)) \in Nat
        /\ at + Cardinality(OptionsAt(at)) <= Len(line.args)
        /\ OptionsAt(at) = at + 1 .. at + Cardinality(OptionsAt(at))
    BY <1>2, OptionsFollow DEF IInv
  <1>4. at' = at + 1 + Cardinality(OptionsAt(at))
    BY DEF Build
  <1>5. at' - 1 = at + Cardinality(OptionsAt(at))
    BY <1>1, <1>3, <1>4
  <1>6. argv' = Argv("--clean" \in OptionsAfter(at), "--run-cmake" \in OptionsAfter(at))
    BY DEF Build, StartBuild
  <1>7. argv' \in Argvs /\ (Clean' => "--clean" \in OptionsAfter(at))
    <2> DEFINE a == "--clean" \in OptionsAfter(at)
               b == "--run-cmake" \in OptionsAfter(at)
    <2>1. a \in BOOLEAN /\ b \in BOOLEAN /\ argv' = Argv(a, b)
      BY <1>6
    <2> HIDE DEF a, b
    <2>2. argv' \in Argvs /\ (Clean' => a)
      BY <2>1, ArgvType DEF Clean
    <2> QED
      BY <2>2 DEF a
  <1> QED
    BY <1>1, <1>2, <1>3, <1>4, <1>5, <1>7

(* Every step keeps each variable in its range.                            *)
LEMMA NextType ==
  ASSUME IInv, [Next]_vars
  PROVE  TypeOK'
  <1> USE DEF Outcomes, BuildSteps, RunSteps
  <1>1. TypeOK /\ line \in CommandLines \union {NoLine} /\ at \in Positions(line)
    BY DEF TypeOK, IInv
  <1>2. /\ line.args = <<>> => Positions(line) = 1 .. 2
        /\ line.args # <<>> => Positions(line) = 1 .. Len(line.args) + 1
        /\ Len(line.args) \in Nat
    BY <1>1, PositionsType, LineType
  <1>3. CASE Invoke
    <2>1. line' \in CommandLines /\ at' = 1
      BY <1>3 DEF Invoke, IInv, ShellClean
    <2>2. at' \in Positions(line')
      BY <2>1, PositionsType
    <2> QED
      BY <1>1, <1>3, <2>1, <2>2 DEF Invoke, TypeOK, script, disk
  <1>4. CASE Return
    <2>1. line' = NoLine /\ at' = 1
      BY <1>4 DEF Return
    <2>2. at' \in Positions(line')
      BY <2>1, PositionsType
    <2> QED
      BY <1>1, <1>4, <2>1, <2>2, NoArgv DEF Return, TypeOK, disk
  <1>5. CASE Exits
    BY <1>1, <1>5 DEF Exits, BuildLlvmArgs, BuildOption, Unknown, Finish, Exit,
       TypeOK, script, disk
  <1>6. CASE Starts
    <2>1. line' = line /\ at' \in Positions(line)
      <3>1. CASE RunAlone
        BY <1>2, <3>1 DEF RunAlone, StartOther
      <3>2. CASE Run \/ Ninja
        <4>1. line' = line /\ at' = at + 1 /\ at <= Len(line.args)
          BY <3>2 DEF Run, Ninja, Command, StartOther
        <4>2. at \in 1 .. Len(line.args) /\ line.args # <<>>
          BY <1>1, <1>2, <4>1
        <4> QED
          BY <1>2, <4>1, <4>2
      <3> QED
        BY <1>6, <3>1, <3>2 DEF Starts
    <2>2. doing' \in {"env", "ninja"} /\ UNCHANGED <<outcome, argv, cmake_ran, tree, clang>>
      BY <1>6 DEF Starts, RunAlone, Run, Ninja, StartOther, disk
    <2> QED
      BY <1>1, <2>1, <2>2 DEF TypeOK
  <1>7. CASE BuildLlvm
    <2>1. line' = line /\ at' \in Positions(line)
      BY <1>2, <1>7 DEF BuildLlvm, StartBuild
    <2>2. argv' \in Argvs
      BY <1>7, ArgvType DEF BuildLlvm, StartBuild
    <2>3. /\ doing' = "flags" /\ cmake_ran' = FALSE
          /\ UNCHANGED <<outcome, tree, clang>>
      BY <1>7 DEF BuildLlvm, StartBuild, disk
    <2> QED
      BY <1>1, <2>1, <2>2, <2>3 DEF TypeOK
  <1>8. CASE Build
    <2>1. at' \in 1 .. Len(line.args) + 1 /\ argv' \in Argvs /\ line.args # <<>>
      BY <1>1, <1>2, <1>8, BuildStep
    <2>2. at' \in Positions(line)
      BY <1>2, <2>1
    <2>3. /\ line' = line /\ doing' = "flags" /\ cmake_ran' = FALSE
          /\ UNCHANGED <<outcome, tree, clang>>
      BY <1>8 DEF Build, StartBuild, disk
    <2> QED
      BY <1>1, <2>1, <2>2, <2>3 DEF TypeOK
  <1>9. CASE Runs
    BY <1>1, <1>9 DEF Runs, RunEnv, RunCompile, RunDemo, RunNinja, StepTo, TypeOK, disk
  <1>10. CASE BuildProgress
    BY <1>1, <1>10 DEF BuildProgress, ScriptFlags, ScriptCleanTree, ScriptCleanInstall,
       ScriptCmake, ScriptBuild, StepTo, TypeOK, disk
  <1>11. CASE ScriptInstall
    BY <1>1, <1>11 DEF ScriptInstall, StepTo, TypeOK
  <1>12. CASE StepFails
    BY <1>1, <1>12 DEF StepFails, HalfDone, TypeOK
  <1>13. CASE UNCHANGED vars
    BY <1>1, <1>13 DEF vars, script, disk, TypeOK
  <1> QED
    BY <1>3, <1>4, <1>5, <1>6, <1>7, <1>8, <1>9, <1>10, <1>11, <1>12, <1>13
       DEF Next, HelperStep, ScriptStep, Exits, Starts, Runs, BuildProgress

-----------------------------------------------------------------------------
(* What the steps preserve.                                                *)

(* Between invocations nothing is taken and no script runs, and a step of  *)
(* the installation finds a configured tree.                               *)
LEMMA NextReady ==
  ASSUME IInv, [Next]_vars
  PROVE  ShellClean' /\ Resting' /\ StepsReady'
  <1> USE DEF IInv, ShellClean, Resting, StepsReady
  <1>1. CASE Invoke
    BY <1>1 DEF Invoke, script, disk
  <1>2. CASE Return
    BY <1>2 DEF Return, disk
  <1>3. CASE Exits
    BY <1>3 DEF Exits, BuildLlvmArgs, BuildOption, Unknown, Finish, Command, Parsing,
       Exit, script, disk
  <1>4. CASE Starts \/ BuildLlvm \/ Build
    BY <1>4 DEF Starts, RunAlone, Run, Ninja, BuildLlvm, Build, Command, Parsing,
       StartOther, StartBuild, disk
  <1>5. CASE Runs
    BY <1>5 DEF Runs, RunEnv, RunCompile, RunDemo, RunNinja, StepTo, disk
  <1>6. CASE BuildProgress \/ ScriptInstall
    BY <1>6 DEF BuildProgress, ScriptFlags, ScriptCleanTree, ScriptCleanInstall,
       ScriptCmake, ScriptBuild, ScriptInstall, StepTo, disk
  <1>7. CASE StepFails
    BY <1>7 DEF StepFails
  <1>8. CASE UNCHANGED vars
    BY <1>8 DEF vars, script, disk
  <1> QED
    BY <1>1, <1>2, <1>3, <1>4, <1>5, <1>6, <1>7, <1>8
       DEF Next, HelperStep, ScriptStep, Exits, Starts, Runs, BuildProgress

(* A build that starts to clean has "--clean" after it, and no other build *)
(* in between.                                                             *)
LEMMA BuildTakesItsOwn ==
  ASSUME IInv, Build, Clean'
  PROVE  ("--clean" \in TakenOptions)'
  <1>1. /\ at' \in at + 1 .. Len(line.args) + 1
        /\ at' - 1 \in Nat
        /\ OptionsAt(at) = at + 1 .. at' - 1
        /\ "--clean" \in OptionsAfter(at)
    BY BuildStep
  <1>2. line' = line
    BY DEF Build, StartBuild
  <1>3. at \in Nat /\ at >= 1 /\ line.args \in Seq(Words) /\ Len(line.args) \in Nat
    <2>1. at \in Positions(line) /\ line \in CommandLines \union {NoLine}
      BY DEF IInv, TypeOK
    <2>2. line.args \in Seq(Words) /\ Len(line.args) \in Nat
      BY <2>1, LineType
    <2> QED
      BY <2>1, <2>2 DEF Positions
  <1>4. PICK k \in OptionsAt(at) : line.args[k] = "--clean"
    BY <1>1 DEF OptionsAfter
  <1>5. k \in Taken'
    <2>1. k \in at + 1 .. at' - 1 /\ k \in 1 .. Len(line.args)
      BY <1>1, <1>3
    <2> QED
      BY <1>2, <1>3, <2>1 DEF Taken
  <1>6. ASSUME NEW b \in Builds'
        PROVE  b <= k
    <2>1. b \in 1 .. at' - 1 /\ line.args[b] = "build"
      BY <1>2 DEF Builds, Taken
    <2>2. SUFFICES ASSUME ~(b <= k) PROVE FALSE
      OBVIOUS
    <2>3. b \in at + 1 .. at' - 1 /\ b \in at + 1 .. b
      <3> DEFINE e == at' - 1
      <3>1. k \in at + 1 .. e /\ b \in 1 .. e /\ e \in Nat /\ at \in Nat
        BY <1>1, <1>3, <2>1
      <3> HIDE DEF e
      <3>2. b \in at + 1 .. e /\ b \in at + 1 .. b
        BY <2>2, <3>1
      <3> QED
        BY <3>2 DEF e
    <2>4. b \in OptionsAt(at) /\ b \in at + 1 .. b
      BY <1>1, <2>3
    <2>5. line.args[b] \in Options
      BY <2>4 DEF OptionsAt
    <2> QED
      BY <2>1, <2>5 DEF Options
  <1>7. (line.args[k] \in TakenOptions)'
    BY <1>5, <1>6 DEF TakenOptions
  <1> QED
    BY <1>2, <1>4, <1>7

(* No step but the start of a build changes what it was given.             *)
LEMMA NextOptions ==
  ASSUME IInv, [Next]_vars
  PROVE  OptionsStayWithTheirBuild'
  <1> USE DEF OptionsStayWithTheirBuild, BuildSteps
  <1>1. CASE Invoke \/ Return
    <2>1. doing' = "idle"
      BY <1>1 DEF Invoke, Return, script, IInv, Resting
    <2> QED
      BY <2>1
  <1>2. CASE Exits
    <2>1. doing' = "idle"
      BY <1>2 DEF Exits, BuildLlvmArgs, BuildOption, Unknown, Finish, Command, Parsing,
         Exit, script
    <2> QED
      BY <2>1
  <1>3. CASE Starts \/ Runs \/ ScriptInstall \/ StepFails
    <2>1. doing' \in {"env", "ninja", "compile", "demo", "idle"}
      BY <1>3 DEF Starts, RunAlone, Run, Ninja, StartOther, Runs, RunEnv, RunCompile,
         RunDemo, RunNinja, ScriptInstall, StepFails, StepTo
    <2> QED
      BY <2>1
  <1>4. CASE BuildLlvm
    BY <1>4 DEF BuildLlvm, StartBuild
  <1>5. CASE Build
    BY <1>5, BuildTakesItsOwn
  <1>6. CASE BuildProgress
    <2>1. UNCHANGED <<line, at, argv>> /\ doing \in BuildSteps
      BY <1>6 DEF BuildProgress, ScriptFlags, ScriptCleanTree, ScriptCleanInstall,
         ScriptCmake, ScriptBuild, StepTo
    <2> QED
      BY <2>1 DEF IInv, Clean, TakenOptions, Taken, Builds
  <1>7. CASE UNCHANGED vars
    BY <1>7 DEF vars, script, IInv, Clean, TakenOptions, Taken, Builds
  <1> QED
    BY <1>1, <1>2, <1>3, <1>4, <1>5, <1>6, <1>7
       DEF Next, HelperStep, ScriptStep, Exits, Starts, Runs, BuildProgress

(* A command is taken, or success reported, only after the builds before   *)
(* it are done.                                                            *)
LEMMA NextBuilt ==
  ASSUME IInv, [Next]_vars
  PROVE  BuiltBeforeNext'
  <1> USE DEF BuiltBeforeNext, BuildSteps
  <1>1. CASE Invoke
    <2>1. at' = 1
      BY <1>1 DEF Invoke, IInv, ShellClean
    <2>2. Builds' = {}
      BY <2>1 DEF Builds, Taken
    <2> QED
      BY <2>1, <2>2 DEF AskedToBuild
  <1>2. CASE Return \/ StepFails \/ BuildLlvmArgs \/ BuildOption \/ Unknown
    <2>1. outcome' \in {"shell", "failed"}
      BY <1>2 DEF Return, StepFails, BuildLlvmArgs, BuildOption, Unknown, Exit
    <2> QED
      BY <2>1
  <1>3. CASE BuildLlvm \/ Build \/ BuildProgress
    <2>1. doing' \in BuildSteps
      BY <1>3 DEF BuildLlvm, Build, StartBuild, BuildProgress, ScriptFlags, ScriptCleanTree,
         ScriptCleanInstall, ScriptCmake, ScriptBuild, StepTo
    <2> QED
      BY <2>1
  <1>4. CASE Finish \/ Runs
    <2>1. UNCHANGED <<line, at, tree, clang>> /\ outcome = "parsing" /\ doing \notin BuildSteps
      BY <1>4 DEF Finish, Parsing, Exit, Runs, RunEnv, RunCompile, RunDemo, RunNinja,
         StepTo, disk
    <2>2. AskedToBuild' = AskedToBuild
      BY <2>1 DEF AskedToBuild, Builds, Taken
    <2> QED
      BY <2>1, <2>2 DEF IInv
  <1>5. CASE RunAlone
    <2>1. line' = line /\ line.primary = "application" /\ line.args = <<>>
      BY <1>5 DEF RunAlone, StartOther
    <2>2. Builds' = {}
      BY <2>1 DEF Builds, Taken
    <2> QED
      BY <2>1, <2>2 DEF AskedToBuild
  <1>6. CASE Run \/ Ninja
    <2>1. /\ UNCHANGED <<line, tree, clang>> /\ outcome = "parsing" /\ doing = "idle"
          /\ at' = at + 1 /\ line.args[at] # "build" /\ line.primary = "application"
      BY <1>6 DEF Run, Ninja, Command, Parsing, StartOther, disk
    <2>2. at \in Nat
      <3>1. at \in Positions(line) /\ Len(line.args) \in Nat
        BY LineType DEF IInv, TypeOK
      <3> QED
        BY <3>1 DEF Positions
    <2>3. Builds' = Builds
      BY <2>1, <2>2 DEF Builds, Taken
    <2> QED
      BY <2>1, <2>3 DEF IInv, AskedToBuild
  <1>7. CASE ScriptInstall
    BY <1>7 DEF ScriptInstall, StepTo, IInv, StepsReady
  <1>8. CASE UNCHANGED vars
    BY <1>8 DEF vars, script, disk, IInv, AskedToBuild, Builds, Taken
  <1> QED
    BY <1>1, <1>2, <1>3, <1>4, <1>5, <1>6, <1>7, <1>8
       DEF Next, HelperStep, ScriptStep, Runs, BuildProgress

-----------------------------------------------------------------------------
(* Theorems.                                                               *)

(* The invariant holds in every state.                                     *)
LEMMA Invariance == Spec => []IInv
  <1>1. IInv /\ [Next]_vars => IInv'
    BY NextType, NextReady, NextOptions, NextBuilt DEF IInv
  <1> QED
    BY InitIInv, <1>1, PTL DEF Spec

(* Every variable stays in its range, whatever the command lines.          *)
THEOREM TypeCorrect == Spec => []TypeOK
  <1>1. IInv => TypeOK
    BY DEF IInv
  <1> QED
    BY Invariance, <1>1, PTL

(* build_application gives a build the options that follow it and no       *)
(* others, however many builds a line has.                                 *)
THEOREM OptionsCorrect == Spec => []OptionsStayWithTheirBuild
  <1>1. IInv => OptionsStayWithTheirBuild
    BY DEF IInv
  <1> QED
    BY Invariance, <1>1, PTL

(* With check=True and set -e no command works on a failed build.          *)
THEOREM BuiltCorrect == Spec => []BuiltBeforeNext
  <1>1. IInv => BuiltBeforeNext
    BY DEF IInv
  <1> QED
    BY Invariance, <1>1, PTL

=============================================================================
