------------------------------ MODULE SyncFile ------------------------------
(***************************************************************************)
(* Devices that share a workspace through one encrypted file: push and     *)
(* pull with revisions, the recipients who can read it, and the automatic  *)
(* pull of a clean workspace (SecurityWorkbench.tsx, security.ts and       *)
(* secure_store.rs).  Shared data is the set of edits it contains.         *)
(***************************************************************************)
EXTENDS Naturals, FiniteSets

CONSTANTS
    Devices,
    MaxSharedEdits,   \* bound: edits made in a behaviour
    MaxRevisions      \* bound: revisions of the file

VARIABLES
    file,     \* the file: revision (0: none), data, readers ({}: a passphrase)
    dev,      \* per device: data, base revision, uncommitted, seen revision
    pushing,  \* per device: the push that has read the file, or Idle
    polling,  \* per device: the automatic pull under way, or Idle
    edits,    \* edits made so far
    raced     \* two pushes have overlapped

syncVars == <<file, dev, pushing, polling, edits, raced>>

IdleOp == [rev |-> 0, data |-> {}, step |-> "idle"]
MayRead(d) == file.readers = {} \/ d \in file.readers

-----------------------------------------------------------------------------
(* An edit of a shared resource; the effect that polls is torn down and    *)
(* started again with the new workspace.                                   *)
KeepPolling(d) == UNCHANGED polling
CancelPoll(d) == polling' = [polling EXCEPT ![d] = IdleOp]

EditShared(d) ==
    /\ edits < MaxSharedEdits /\ edits' = edits + 1
    /\ dev' = [dev EXCEPT ![d].data = @ \cup {edits + 1}, ![d].uncommitted = TRUE]
    /\ CancelPoll(d) /\ UNCHANGED <<file, pushing, raced>>

CommitShared(d) ==
    /\ dev[d].uncommitted /\ dev' = [dev EXCEPT ![d].uncommitted = FALSE]
    /\ CancelPoll(d) /\ UNCHANGED <<file, pushing, edits, raced>>

(* sync_push reads and decrypts the file and compares revisions.  A file   *)
(* for recipients is not written for a passphrase again, and the device    *)
(* that writes it stays a recipient.                                       *)
PushReadsUnchecked(d, force, roster) ==
    /\ pushing[d] = IdleOp /\ file.rev < MaxRevisions
    /\ file.rev > 0 => MayRead(d)
    /\ roster = {} => file.readers = {}
    /\ roster # {} => d \in roster
    /\ pushing' = [pushing EXCEPT ![d] = [rev |-> file.rev, data |-> dev[d].data, step |-> "push", force |-> force, roster |-> roster]]
    /\ CancelPoll(d) /\ UNCHANGED <<file, dev, edits, raced>>

PushReads(d, force, roster) ==
    /\ pushing[d] = IdleOp /\ file.rev < MaxRevisions
    /\ file.rev > 0 => MayRead(d) /\ (force \/ file.rev = dev[d].base)
    /\ roster = {} => file.readers = {}
    /\ roster # {} => d \in roster
    /\ pushing' = [pushing EXCEPT ![d] = [rev |-> file.rev, data |-> dev[d].data, step |-> "push", force |-> force, roster |-> roster]]
    /\ CancelPoll(d) /\ UNCHANGED <<file, dev, edits, raced>>

(* ... and replaces it by the next revision; the device then refreshes     *)
(* what it knows of the file.                                              *)
PushWrites(d) ==
    LET p == pushing[d] IN
    /\ p # IdleOp
    /\ file' = [rev |-> p.rev + 1, data |-> p.data, readers |-> p.roster]
    /\ raced' = (raced \/ file.rev # p.rev \/ p.force)
    /\ dev' = [dev EXCEPT ![d].base = p.rev + 1, ![d].seen = p.rev + 1]
    /\ pushing' = [pushing EXCEPT ![d] = IdleOp] /\ CancelPoll(d) /\ UNCHANGED edits

(* mergeSyncedWorkspace: shared data and the repository are the file's.    *)
Merged(d, rev, data) == [dev EXCEPT ![d] = [data |-> data, base |-> rev, uncommitted |-> FALSE, seen |-> rev]]
Pull(d) ==
    /\ pushing[d] = IdleOp /\ file.rev > 0 /\ MayRead(d)
    /\ dev' = Merged(d, file.rev, file.data)
    /\ CancelPoll(d) /\ UNCHANGED <<file, pushing, edits, raced>>

(* The automatic pull: a status that differs from the one seen, and a      *)
(* clean workspace, then the file is read, then it is applied.             *)
PollStatus(d) ==
    /\ polling[d] = IdleOp /\ pushing[d] = IdleOp /\ file.rev > 0
    /\ IF dev[d].seen = 0
       THEN dev' = [dev EXCEPT ![d].seen = file.rev] /\ UNCHANGED polling
       ELSE /\ file.rev # dev[d].seen /\ ~dev[d].uncommitted
            /\ polling' = [polling EXCEPT ![d] = [IdleOp EXCEPT !.step = "pull"]] /\ UNCHANGED dev
    /\ UNCHANGED <<file, pushing, edits, raced>>
PollReads(d) ==
    /\ polling[d].step = "pull"
    /\ polling' = [polling EXCEPT ![d] = IF MayRead(d) THEN [rev |-> file.rev, data |-> file.data, step |-> "apply"] ELSE IdleOp]
    /\ UNCHANGED <<file, dev, pushing, edits, raced>>
PollApplies(d) ==
    /\ polling[d].step = "apply"
    /\ dev' = IF polling[d].rev > dev[d].base THEN Merged(d, polling[d].rev, polling[d].data)
              ELSE [dev EXCEPT ![d].seen = polling[d].rev]
    /\ CancelPoll(d) /\ UNCHANGED <<file, pushing, edits, raced>>

SyncInit ==
    /\ file = [rev |-> 0, data |-> {}, readers |-> {}] /\ edits = 0 /\ raced = FALSE
    /\ dev = [d \in Devices |-> [data |-> {}, base |-> 0, uncommitted |-> FALSE, seen |-> 0]]
    /\ pushing = [d \in Devices |-> IdleOp] /\ polling = [d \in Devices |-> IdleOp]

SyncNext ==
    \E d \in Devices :
       \/ EditShared(d) \/ CommitShared(d) \/ PushWrites(d) \/ Pull(d) \/ PollStatus(d) \/ PollReads(d) \/ PollApplies(d)
       \/ \E force \in BOOLEAN, roster \in SUBSET Devices : PushReads(d, force, roster)

SyncSpec == SyncInit /\ [][SyncNext]_syncVars

-----------------------------------------------------------------------------
(* No edit is lost by accident: while pushes neither overlap nor are       *)
(* forced, a push keeps every edit the file holds, and an automatic pull   *)
(* never replaces uncommitted work (secure_store.rs, sync_push;            *)
(* SecurityWorkbench.tsx, the polling effect).                             *)
SyncLosesNothing ==
    [][/\ ~raced' => file.data \subseteq file'.data
       /\ \A d \in Devices : dev[d].uncommitted /\ ~(dev[d].data \subseteq dev'[d].data) => polling[d].step # "apply"]_syncVars

=============================================================================
