----------------------------- MODULE MCSending ------------------------------
(* What must come to an end, for TLC: streams, samples, sends and the command*)
(* line.                                                                   *)
EXTENDS SseSession, StreamConsole, StreamSample, RequestSend, CliRun

VARIABLE part   \* the component this behaviour is about; the others are at rest

SseRest ==
    /\ config = CHOOSE c \in Configs : TRUE
    /\ phase = "idle" /\ registered = FALSE /\ cancels = 0
    /\ reconnects = 0 /\ delay = 100 /\ lastId = 0 /\ half = FALSE
    /\ shown = <<>> /\ opened = 0 /\ made = 0 /\ next = 1 /\ breaks = 0
ConsoleRest ==
    /\ current = 0 /\ status = "disconnected" /\ sending = FALSE /\ issued = 0
    /\ call = [id \in Ids |-> "none"] /\ closes = {} /\ kind = [id \in Ids |-> "websocket"]
    /\ senders = {} /\ task = [id \in Ids |-> "none"] /\ told = {} /\ events = [id \in Ids |-> <<>>]
    /\ given = {} /\ misled = {} /\ early = {} /\ stopped = {} /\ troubles = 0 /\ commands = 0
NoInvocation == [command |-> "workspace", name |-> CHOOSE n \in ScriptNames : TRUE, config |-> NoConfig, ci |-> FALSE]
CliRest ==
    /\ cliTasks = [c \in CliConfigs |-> [n \in ScriptNames |-> NoInvocation]] /\ configCi = [c \in CliConfigs |-> FALSE]
    /\ processes = <<NoInvocation>> /\ cliStage = "options" /\ runFlags = NoFlags /\ cliResults = <<>> /\ cliExit = 0

MCInit ==
    /\ part \in {"sse", "console", "sample", "send", "cli"}
    /\ IF part = "sse" THEN SseInit ELSE SseRest
    /\ IF part = "console" THEN Init ELSE ConsoleRest
    /\ SampleInit
    /\ SendInit
    /\ IF part = "cli" THEN CliInit ELSE CliRest

SsePart == part = "sse" /\ SseNext /\ UNCHANGED <<part, vars, sampleVars, sendVars, cliVars>>
ConsolePart == part = "console" /\ Next /\ UNCHANGED <<part, sseStateVars, sampleVars, sendVars, cliVars>>
SamplePart == part = "sample" /\ SampleNext /\ UNCHANGED <<part, sseStateVars, vars, sendVars, cliVars>>
SendPart == part = "send" /\ SendNext /\ UNCHANGED <<part, sseStateVars, vars, sampleVars, cliVars>>
CliPart == part = "cli" /\ CliNext /\ UNCHANGED <<part, sseStateVars, vars, sampleVars, sendVars>>

MCNext == SsePart \/ ConsolePart \/ SamplePart \/ SendPart \/ CliPart
MCVars == <<part, sseStateVars, vars, sampleVars, sendVars, cliVars>>
MCSpec == MCInit /\ [][MCNext]_MCVars
          /\ Fairness /\ SseFairness /\ WF_cliVars(part = "cli" /\ CliStep)
          /\ SendFairness
=============================================================================
