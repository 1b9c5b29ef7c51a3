------------------------------- MODULE CliRun -------------------------------
(***************************************************************************)
(* The command line interface (cli/brunomnia.ts): the global options and   *)
(* their config file, the choice of a resource and of an environment, the  *)
(* loop of "run test", the report and the exit code, and "script", which   *)
(* runs the interface again as a child process.                            *)
(*                                                                         *)
(* A task of a config file is the invocation it stands for.  The runner of *)
(* "run collection" is the module Runner: here it ends with a report.      *)
(* Identifiers, option values and file contents are kept as whether they   *)
(* are acceptable.                                                         *)
(***************************************************************************)
EXTENDS Naturals, Sequences, FiniteSets, SequencesExt

CONSTANTS
    CliConfigs,        \* config files
    ScriptNames,    \* the scripts they define
    CliDepth,       \* nested invocations of "script" (10 in the code)
    CliIterations,  \* --iteration-count
    CliRetries,     \* --retries
    CliTests        \* the tests of the selected suites, in order, that match the pattern

VARIABLES
    cliTasks,     \* the scripts of each config file
    configCi,     \* the ci option of each config file
    processes,    \* invocations, each the child of the one before it
    cliStage,     \* of the innermost process
    runFlags,     \* its --allow-scripts and --bail
    cliResults,   \* results of the run, in order
    cliExit       \* the exit code of the process that ended last

cliVars == <<cliTasks, configCi, processes, cliStage, runFlags, cliResults, cliExit>>
cliSetup == <<cliTasks, configCi>>

NoConfig == "none"   \* neither given by --config nor found in the directories above
Invocations == [command : {"script", "workspace"}, name : ScriptNames, config : CliConfigs \cup {NoConfig}, ci : BOOLEAN]
NoFlags == [allow |-> FALSE, bail |-> FALSE]

CliInit ==
    /\ cliTasks \in [CliConfigs -> [ScriptNames -> Invocations]]
    /\ configCi \in [CliConfigs -> BOOLEAN]
    /\ \E i \in Invocations : processes = <<i>>
    /\ cliStage = "options" /\ runFlags = NoFlags /\ cliResults = <<>> /\ cliExit = 0

-----------------------------------------------------------------------------
Innermost == Last(processes)
CliCi == Innermost.ci \/ (Innermost.config # NoConfig /\ configCi[Innermost.config])

GoTo(from, to) == cliStage = from /\ cliStage' = to /\ UNCHANGED <<cliSetup, processes, runFlags, cliResults, cliExit>>

(* fail: a message and exit code 1.  Also the catch around main.           *)
CliFail(from) ==
    /\ cliStage = from
    /\ cliStage' = "exited" /\ cliExit' = 1
    /\ UNCHANGED <<cliSetup, processes, runFlags, cliResults>>

(* The config file named by --config, or the first one upwards, is read;   *)
(* it may be missing, too large, or code that is not allowed.  Code that   *)
(* is allowed is run in a worker with a time limit.                        *)
LoadRunnerConfig == GoTo("options", "resolve")
EvaluateConfigCode == Innermost.config # NoConfig /\ GoTo("options", "code")
ConfigCodeReturns == GoTo("code", "resolve")
ConfigFails == CliFail("options") \/ CliFail("code")

ResolveOptions == GoTo("resolve", IF Innermost.command = "script" THEN "task" ELSE "select")

-----------------------------------------------------------------------------
ChildInvocationWithoutCi(task) == [task EXCEPT !.config = IF task.config = NoConfig THEN Innermost.config ELSE task.config]

(* The command "script".  The child gets the config file unless its task   *)
(* names one, and --ci as the parent's command line has it: the ci option  *)
(* of a config file is found again by the child.                           *)
ChildInvocation(task) ==
    [task EXCEPT !.config = IF task.config = NoConfig THEN Innermost.config ELSE task.config,
                 !.ci = task.ci \/ Innermost.ci]

TooDeep == Len(processes) > CliDepth

RunScript ==
    /\ cliStage = "task" /\ Innermost.config # NoConfig /\ ~TooDeep
    /\ processes' = Append(processes, ChildInvocation(cliTasks[Innermost.config][Innermost.name]))
    /\ cliStage' = "options"
    /\ UNCHANGED <<cliSetup, runFlags, cliResults, cliExit>>

(* No such script, or the recursion limit.                                 *)
ScriptFails == (Innermost.config = NoConfig \/ TooDeep) /\ CliFail("task")

ChildClosedAsZero ==
    /\ cliStage = "exited" /\ Len(processes) > 1
    /\ processes' = Front(processes) /\ cliExit' = 0
    /\ UNCHANGED <<cliSetup, cliStage, runFlags, cliResults>>

(* The parent takes the child's exit code; a killed child counts as 1.     *)
ChildClosed ==
    /\ cliStage = "exited" /\ Len(processes) > 1
    /\ processes' = Front(processes)
    /\ UNCHANGED <<cliSetup, cliStage, runFlags, cliResults, cliExit>>

ChildKilled ==
    /\ Len(processes) > 1 /\ cliStage # "exited"
    /\ cliStage' = "exited" /\ cliExit' = 1 /\ cliResults' = <<>>
    /\ processes' = Front(processes)
    /\ UNCHANGED <<cliSetup, runFlags>>

-----------------------------------------------------------------------------
(* The commands on a workspace.  Without an identifier, ci takes the first *)
(* resource and otherwise the user is asked; with several environments, ci *)
(* fails.  Either fails when there is nothing to take or no terminal.      *)
SelectResource == \E given \in BOOLEAN : (given \/ CliCi) /\ GoTo("select", "environment")
AskResource == ~CliCi /\ GoTo("select", "askResource")
SelectFails == CliFail("select")

(* lint spec, export spec, generate collection: no environment; lint exits *)
(* with 1 for an issue that is an error.                                   *)
SelectDesign == \E given \in BOOLEAN : (given \/ CliCi) /\ GoTo("select", "design")
AnswerDesign == GoTo("askResource", "design")
DesignDone ==
    /\ cliStage = "design"
    /\ \E code \in {0, 1} : cliExit' = code
    /\ cliStage' = "exited"
    /\ UNCHANGED <<cliSetup, processes, runFlags, cliResults>>

SelectEnvironment == GoTo("environment", "checks")    \* given, none to choose from, or the only one in ci
AskEnvironment == ~CliCi /\ GoTo("environment", "askEnvironment")
EnvironmentFails == CliFail("environment")

(* A valid answer, or none for the default; any other answer ends the run. *)
AnswerResource == GoTo("askResource", "environment")
AnswerEnvironment == GoTo("askEnvironment", "checks")
BadAnswer == CliFail("askResource") \/ CliFail("askEnvironment")

(* The option checks, the output path, data folders, plugins: all before   *)
(* the first request is sent.                                              *)
CheckOptions ==
    /\ cliStage = "checks"
    /\ \E flags \in [allow : BOOLEAN, bail : BOOLEAN] : runFlags' = flags
    /\ cliStage' = "running" /\ cliResults' = <<>>
    /\ UNCHANGED <<cliSetup, processes, cliExit>>
ChecksFail == CliFail("checks")

(* run collection: the runner's report, then as for the tests.             *)
RunCollectionCommand ==
    /\ cliStage = "checks"
    /\ \E code \in {0, 1} : cliExit' = code
    /\ cliStage' = "exited" /\ cliResults' = <<>>
    /\ UNCHANGED <<cliSetup, processes, runFlags>>

-----------------------------------------------------------------------------
(* run test: iterations, tests, attempts.                                  *)
TestResult(i, t, a, p) == [iteration |-> i, test |-> t, attempt |-> a, passed |-> p]
CliFirst == <<1, 1, 1>>

(* Where the loops go after a result.                                      *)
NextTest(i, t) == IF t < CliTests THEN <<i, t + 1, 1>> ELSE <<i + 1, 1, 1>>
AfterResult(r) ==
    IF r.passed \/ r.attempt > CliRetries THEN NextTest(r.iteration, r.test)
    ELSE <<r.iteration, r.test, r.attempt + 1>>

Position == IF cliResults = <<>> THEN CliFirst ELSE AfterResult(Last(cliResults))
Bailed == runFlags.bail /\ cliResults # <<>> /\ ~Last(cliResults).passed /\ Last(cliResults).attempt > CliRetries
LoopDone == Bailed \/ Position[1] > CliIterations

(* One attempt; without --allow-scripts it is an error.                    *)
RunTest ==
    /\ cliStage = "running" /\ ~LoopDone
    /\ \E passed \in BOOLEAN :
          /\ passed => runFlags.allow
          /\ cliResults' = Append(cliResults, TestResult(Position[1], Position[2], Position[3], passed))
    /\ UNCHANGED <<cliSetup, processes, cliStage, runFlags, cliExit>>

(* The reporter is parsed after the run; the report is written or printed. *)
FailedResults == {k \in DOMAIN cliResults : ~cliResults[k].passed}

WriteReport ==
    /\ cliStage = "running" /\ LoopDone
    /\ cliStage' = "exited" /\ cliExit' = IF FailedResults = {} THEN 0 ELSE 1
    /\ UNCHANGED <<cliSetup, processes, runFlags, cliResults>>
ReportFails == LoopDone /\ CliFail("running")

-----------------------------------------------------------------------------
CliStep ==
    \/ LoadRunnerConfig \/ EvaluateConfigCode \/ ConfigCodeReturns \/ ConfigFails \/ ResolveOptions
    \/ RunScript \/ ScriptFails \/ ChildClosed
    \/ SelectResource \/ AskResource \/ SelectFails \/ SelectDesign \/ DesignDone \/ SelectEnvironment \/ AskEnvironment \/ EnvironmentFails
    \/ CheckOptions \/ ChecksFail \/ RunCollectionCommand \/ RunTest \/ WriteReport \/ ReportFails
CliOutside == AnswerResource \/ AnswerDesign \/ AnswerEnvironment \/ BadAnswer \/ ChildKilled

CliNext == CliStep \/ CliOutside
CliSpec == CliInit /\ [][CliNext]_cliVars /\ WF_cliVars(CliStep)

-----------------------------------------------------------------------------
(* The user's process has ended.                                           *)
CliEnded == Len(processes) = 1 /\ cliStage = "exited"

(* An attempt of a test follows its failed predecessor, and the next test  *)
(* follows a passed or an exhausted one.                                   *)
ResultsFollow ==
    \A k \in 2 .. Len(cliResults) :
        LET r == cliResults[k] p == cliResults[k - 1]
        IN \/ /\ ~p.passed /\ r.attempt = p.attempt + 1 /\ r.attempt <= CliRetries + 1
              /\ <<r.iteration, r.test>> = <<p.iteration, p.test>>
           \/ (p.passed \/ p.attempt = CliRetries + 1) /\ r.attempt = 1

(* Exit code 0 is honest, whatever number of processes it came through: a  *)
(* run that exits with 0 has tried every matching test of every iteration  *)
(* once and with success, and a run that was not stopped by --bail has     *)
(* tried each until it passed or its attempts were used up (brunomnia.ts,  *)
(* the loops of run test, report.failed and the exit code of runCliChild). *)
ExitHonest ==
    /\ ResultsFollow
    /\ CliEnded /\ cliResults # <<>> =>
         /\ cliExit = 0 => FailedResults = {} /\ Len(cliResults) = CliIterations * CliTests
         /\ ~Bailed => \A i \in 1 .. CliIterations, t \in 1 .. CliTests :
                          \E k \in DOMAIN cliResults :
                             /\ cliResults[k].iteration = i /\ cliResults[k].test = t
                             /\ cliResults[k].passed \/ cliResults[k].attempt = CliRetries + 1

(* A run the user started with --ci ends by itself: no process of it waits *)
(* for an answer nobody gives, also under script tasks that name other     *)
(* config files, and scripts that run themselves stop at the depth limit   *)
(* (brunomnia.ts, the arguments of a task's child and runCliChild).        *)
CiRunEnds == processes[1].ci ~> CliEnded

(* The exit code is honest and a --ci run ends (brunomnia.ts).             *)
CliSound == []ExitHonest /\ CiRunEnds
=============================================================================
