------------------------------ MODULE HelperCli ------------------------------
(***************************************************************************)
(* helper.py, which carries out the commands on its command line one after *)
(* the other, and the scripts they run: sh-scripts/build_llvm.sh for       *)
(* build, sh-scripts/set_env.sh and the application's run.sh for run.      *)
(*                                                                         *)
(* It is invoked again and again.  What stays from one invocation to the   *)
(* next is on disk: the build directory and the installed clang.  (So does *)
(* the application's binary, but run.sh compiles it anew in every run.)    *)
(* Every step of a script may fail or be interrupted half-way, which ends  *)
(* the invocation.                                                         *)
(***************************************************************************)
EXTENDS Integers, Sequences, FiniteSets

CONSTANT CommandLines   \* [primary, args]: the command lines considered

Options == {"--clean", "--run-cmake", "--other"}

Words == {"build", "run", "ninja", "file-build", "other"} \union Options

ASSUME CommandLineAssumption ==
  CommandLines \subseteq [primary : {"build-llvm", "application"}, args : Seq(Words)]

\* Between two invocations.
NoLine == [primary |-> "none", args |-> <<>>]

VARIABLES
  line,      \* the command line
  at,        \* position in its arguments of the next one to take
  outcome,   \* shell (not invoked), parsing, done or failed
  doing,     \* the next step of the script that runs, or idle
  argv,      \* build_llvm.sh: its arguments
  cmake_ran, \* build_llvm.sh: whether it has configured
  tree,      \* the build directory: absent, empty (or unusable), configured
  clang      \* the installation directory: absent (or empty), partial, whole

script == <<doing, argv, cmake_ran>>
disk   == <<tree, clang>>
vars   == <<line, at, outcome, script, disk>>

\* Nothing has been built yet.
Init ==
  /\ line = NoLine
  /\ at = 1
  /\ outcome = "shell"
  /\ doing = "idle"
  /\ argv = <<>>
  /\ cmake_ran = FALSE
  /\ tree = "absent"
  /\ clang = "absent"

-----------------------------------------------------------------------------
(* helper.py.                                                              *)

Invoke ==
  /\ outcome = "shell"
  /\ line' \in CommandLines
  /\ outcome' = "parsing"
  /\ UNCHANGED <<at, script, disk>>

\* Back in the shell.
Return ==
  /\ outcome \in {"done", "failed"}
  /\ line' = NoLine
  /\ at' = 1
  /\ outcome' = "shell"
  /\ argv' = <<>>
  /\ cmake_ran' = FALSE
  /\ UNCHANGED <<doing, disk>>

\* Between two commands.
Parsing == outcome = "parsing" /\ doing = "idle"

\* Where the options stand that follow position i directly.
OptionsAt(i) ==
  {k \in i + 1 .. Len(line.args) : \A j \in i + 1 .. k : line.args[j] \in Options}

OptionsAfter(i) == {line.args[k] : k \in OptionsAt(i)}

\* build_application: the script's arguments, --clean first.
Argv(clean, run_cmake) ==
  CASE clean /\ run_cmake   -> <<"--clean", "--run-cmake">>
    [] clean /\ ~run_cmake  -> <<"--clean">>
    [] ~clean /\ run_cmake  -> <<"--run-cmake">>
    [] OTHER                -> <<>>

StartBuild(args) ==
  /\ doing' = "flags"
  /\ argv' = args
  /\ cmake_ran' = FALSE
  /\ UNCHANGED <<line, outcome, disk>>

StartOther(step) ==
  /\ doing' = step
  /\ UNCHANGED <<line, outcome, argv, cmake_ran, disk>>

Exit(how) ==
  /\ outcome' = how
  /\ UNCHANGED <<line, at, script, disk>>

\* build-llvm takes no arguments and builds from clean directories.
BuildLlvm ==
  /\ Parsing
  /\ line.primary = "build-llvm"
  /\ at = 1
  /\ line.args = <<>>
  /\ StartBuild(Argv(TRUE, FALSE))
  /\ at' = 2

BuildLlvmArgs ==
  /\ Parsing
  /\ line.primary = "build-llvm"
  /\ line.args # <<>>
  /\ Exit("failed")

\* An application alone is run.
RunAlone ==
  /\ Parsing
  /\ line.primary = "application"
  /\ line.args = <<>>
  /\ at = 1
  /\ StartOther("env")
  /\ at' = 2

\* cmd is the next argument.
Command(cmd) ==
  /\ Parsing
  /\ line.primary = "application"
  /\ at <= Len(line.args)
  /\ line.args[at] = cmd

\* Faulty: clean is not reset at the next build.
Build_Sticky ==
  /\ Command("build")
  /\ "--other" \notin OptionsAfter(at)
  /\ StartBuild(Argv("--clean" \in OptionsAfter(at) \union {line.args[i] : i \in 1 .. at},
                     "--run-cmake" \in OptionsAfter(at)))
  /\ at' = at + 1 + Cardinality(OptionsAt(at))

\* Faulty: the word after the options is taken with them.
Build_EatsCommand ==
  /\ Command("build")
  /\ "--other" \notin OptionsAfter(at)
  /\ StartBuild(Argv("--clean" \in OptionsAfter(at), "--run-cmake" \in OptionsAfter(at)))
  /\ at' = at + 2 + Cardinality(OptionsAt(at))

Build ==
  /\ Command("build")
  /\ "--other" \notin OptionsAfter(at)
  /\ StartBuild(Argv("--clean" \in OptionsAfter(at), "--run-cmake" \in OptionsAfter(at)))
  /\ at' = at + 1 + Cardinality(OptionsAt(at))

\* An option build does not know.
BuildOption ==
  /\ Command("build")
  /\ "--other" \in OptionsAfter(at)
  /\ Exit("failed")

Run ==
  /\ Command("run")
  /\ StartOther("env")
  /\ at' = at + 1

Ninja ==
  /\ Command("ninja") \/ Command("file-build")
  /\ StartOther("ninja")
  /\ at' = at + 1

\* An option that follows no build is no command either.
Unknown == \E cmd \in {"other"} \union Options : Command(cmd) /\ Exit("failed")

\* Nothing is left: build-llvm and a lone application count as one argument.
Finish ==
  /\ Parsing
  /\ at > Len(line.args)
  /\ at > 1
  /\ Exit("done")

-----------------------------------------------------------------------------
(* The scripts.                                                            *)

\* A script makes one step, and its next one is to.
StepTo(from, to) ==
  /\ outcome = "parsing"
  /\ doing = from
  /\ doing' = to
  /\ UNCHANGED <<line, at, outcome, argv>>

Clean    == Len(argv) >= 1 /\ argv[1] = "--clean"
RunCmake == Len(argv) >= 2 /\ argv[2] = "--run-cmake"

\* The directories are made and the arguments read.
ScriptFlags ==
  /\ StepTo("flags", IF Clean THEN "clean" ELSE IF RunCmake THEN "cmake" ELSE "build")
  /\ tree' = IF tree = "absent" THEN "empty" ELSE tree
  /\ UNCHANGED <<clang, cmake_ran>>

\* The build directory is removed first, ...
ScriptCleanTree ==
  /\ StepTo("clean", "clean_install")
  /\ tree' = "absent"
  /\ UNCHANGED <<clang, cmake_ran>>

\* ... then the installation, and both are configured anew.
ScriptCleanInstall ==
  /\ StepTo("clean_install", "cmake")
  /\ clang' = "absent"
  /\ UNCHANGED <<tree, cmake_ran>>

ScriptCmake ==
  /\ StepTo("cmake", "build")
  /\ tree' = "configured"
  /\ cmake_ran' = TRUE
  /\ UNCHANGED clang

\* cmake --build needs a configured directory.
ScriptBuild ==
  /\ tree = "configured"
  /\ StepTo("build", "install")
  /\ UNCHANGED <<disk, cmake_ran>>

\* cmake --install.
ScriptInstall ==
  /\ StepTo("install", "idle")
  /\ clang' = "whole"
  /\ UNCHANGED <<tree, cmake_ran>>

\* set_env.sh refuses an installation without bin/clang.
RunEnv ==
  /\ clang # "absent"
  /\ StepTo("env", "compile")
  /\ UNCHANGED <<disk, cmake_ran>>

\* run.sh has set -e until the binary is linked.
RunCompile == StepTo("compile", "demo") /\ UNCHANGED <<disk, cmake_ran>>

RunDemo == StepTo("demo", "idle") /\ UNCHANGED <<disk, cmake_ran>>

\* What ninja builds, if it finds anything to, concerns none of the above.
RunNinja == StepTo("ninja", "idle") /\ UNCHANGED <<disk, cmake_ran>>

\* What a step that did not finish leaves of the two directories.
HalfDone ==
  /\ tree' \in {tree} \union (IF doing \in {"clean", "cmake"} THEN {"empty"} ELSE {})
  /\ clang' \in {clang} \union
       (IF doing = "install" \/ (doing = "clean_install" /\ clang # "absent")
        THEN {"partial"} ELSE {})

\* Faulty: subprocess.run without check=True.
StepFails_Unchecked ==
  /\ outcome = "parsing"
  /\ doing # "idle"
  /\ doing' = "idle"
  /\ HalfDone
  /\ UNCHANGED <<line, at, outcome, argv, cmake_ran>>

\* set -e ends the script, and check=True helper.py.
StepFails ==
  /\ outcome = "parsing"
  /\ doing # "idle"
  /\ doing' = "idle"
  /\ outcome' = "failed"
  /\ HalfDone
  /\ UNCHANGED <<line, at, argv, cmake_ran>>

HelperStep ==
  \/ BuildLlvm
  \/ BuildLlvmArgs
  \/ RunAlone
  \/ Build
  \/ BuildOption
  \/ Run
  \/ Ninja
  \/ Unknown
  \/ Finish

ScriptStep ==
  \/ ScriptFlags
  \/ ScriptCleanTree
  \/ ScriptCleanInstall
  \/ ScriptCmake
  \/ ScriptBuild
  \/ ScriptInstall
  \/ RunEnv
  \/ RunCompile
  \/ RunDemo
  \/ RunNinja
  \/ StepFails

Next == Invoke \/ Return \/ HelperStep \/ ScriptStep

Spec == Init /\ [][Next]_vars

-----------------------------------------------------------------------------

BuildSteps == {"flags", "clean", "clean_install", "cmake", "build", "install"}
RunSteps   == {"env", "compile", "demo"}

Outcomes == {"shell", "parsing", "done", "failed"}

Argvs == {<<>>, <<"--clean">>, <<"--run-cmake">>, <<"--clean", "--run-cmake">>}

Positions(l) == 1 .. (IF l.args = <<>> THEN 2 ELSE Len(l.args) + 1)

(* Every variable stays in its range. *)
TypeOK ==
  /\ line \in CommandLines \union {NoLine}
  /\ at \in Positions(line)
  /\ outcome \in Outcomes
  /\ doing \in BuildSteps \union RunSteps \union {"idle", "ninja"}
  /\ argv \in Argvs
  /\ cmake_ran \in BOOLEAN
  /\ tree \in {"absent", "empty", "configured"}
  /\ clang \in {"absent", "partial", "whole"}

\* Positions of the arguments taken, and of the builds among them.
Taken  == (1 .. at - 1) \intersect DOMAIN line.args
Builds == {i \in Taken : line.args[i] = "build"}

\* The arguments taken since the last build.
TakenOptions == {line.args[i] : i \in {j \in Taken : \A b \in Builds : b <= j}}

(* The directories are removed only for a build that was itself given      *)
(* --clean, or for build-llvm: on a line with several builds an option     *)
(* never reaches the next one.                                             *)
OptionsStayWithTheirBuild ==
  doing \in BuildSteps /\ Clean =>
    line.primary = "build-llvm" \/ "--clean" \in TakenOptions

\* This invocation has been asked to build.
AskedToBuild ==
  \/ line.primary = "build-llvm" /\ at > 1
  \/ line.primary = "application" /\ Builds # {}

(* When helper.py takes its next command after a build, or reports         *)
(* success, LLVM is built and installed: no command of the line works on   *)
(* what a failed or interrupted build has left behind.                     *)
BuiltBeforeNext ==
  doing \notin BuildSteps /\ outcome \in {"parsing", "done"} /\ AskedToBuild =>
    tree = "configured" /\ clang = "whole"

(* "Only run CMake if RUNCMAKE flag is set or if CLEAN was performed"      *)
(* (sh-scripts/build_llvm.sh:97): a build that was given --run-cmake       *)
(* configures before it builds.                                            *)
RunCmakeHonoured ==
  doing = "build" /\ "--run-cmake" \in TakenOptions => cmake_ran

=============================================================================
