---------------------- MODULE CollaborationRepository ----------------------
(***************************************************************************)
(* The object-scoped repository of one collaboration resource, a           *)
(* collection (collaboration.ts): its commits and branches, the working    *)
(* copy in the workspace, and the private environments that snapshots      *)
(* leave out.  A snapshot is a record of fields; a commit is numbered by   *)
(* the time it was made.  The handlers are CollaborationRepositoryPanel's. *)
(***************************************************************************)
EXTENDS Naturals, Sequences, FiniteSets, FiniteSetsExt

CONSTANTS
    Fields, Values,     \* of the JSON snapshot; 0 stands for an absent field
    Branches,           \* branch names, "main" among them
    RetainedCommits,    \* MAX_COMMITS_PER_RESOURCE, 200
    MaxCommitsMade      \* bound: commits made in a behaviour

VARIABLES
    work,       \* the shareable part of the collection
    localEnvs,  \* its private environments
    commits,    \* repository.commits
    heads,      \* branch -> headCommitId, 0 for none
    branchNow,  \* repository.activeBranches of the resource
    stagedNow,  \* the resource is among stagedResourceKeys
    mergePlan,  \* the plan under review
    made        \* commits made so far

repoVars == <<work, localEnvs, commits, heads, branchNow, stagedNow, mergePlan, made>>

NoPlan == [target |-> ""]
Absent == [f \in Fields |-> 0]

-----------------------------------------------------------------------------
CommitIds == {c.id : c \in commits}
CommitOf(id) == CHOOSE c \in commits : c.id = id
HasHead(b) == b \in DOMAIN heads /\ heads[b] \in CommitIds
SnapshotOf(id) == IF id \in CommitIds THEN CommitOf(id).snap ELSE Absent
Dirty == ~(HasHead(branchNow) /\ SnapshotOf(heads[branchNow]) = work)

(* pruneCommits: the newest are retained, whatever branch they are on.     *)
Pruned(cs) == {c \in cs : Cardinality({d \in cs : d.id >= c.id}) <= RetainedCommits}

(* Ancestors breadth first, as <<id, distance>>: ancestorDistances.        *)
Ancestors(start) ==
    LET parents(id) == IF id \in CommitIds THEN SelectSeq(<<CommitOf(id).parent, CommitOf(id).merge>>, LAMBDA p : p # 0) ELSE <<>>
        walk[n \in 0 .. 2 * MaxCommitsMade + 1] ==
          IF n = 0 THEN [queue |-> <<<<start, 0>>>>, found |-> <<>>]
          ELSE LET w == walk[n - 1]
                   first == Head(w.queue)
               IN IF w.queue = <<>> THEN w
                  ELSE IF \E k \in DOMAIN w.found : w.found[k][1] = first[1] THEN [w EXCEPT !.queue = Tail(@)]
                  ELSE [queue |-> Tail(w.queue) \o [k \in DOMAIN parents(first[1]) |-> <<parents(first[1])[k], first[2] + 1>>],
                        found |-> Append(w.found, first)]
    IN walk[2 * MaxCommitsMade + 1].found

(* The common ancestor with the least sum of distances, the first found    *)
(* from the target's side among equals.                                    *)
MergeBaseOldest(mine, theirs) ==
    LET left == Ancestors(mine)
        right == Ancestors(theirs)
        common == {k \in DOMAIN left : \E j \in DOMAIN right : right[j][1] = left[k][1]}
    IN IF common = {} THEN 0 ELSE left[Max(common)][1]

MergeBase(mine, theirs) ==
    LET left == Ancestors(mine)
        right == Ancestors(theirs)
        common == {k \in DOMAIN left : \E j \in DOMAIN right : right[j][1] = left[k][1]}
        sum(k) == left[k][2] + right[CHOOSE j \in DOMAIN right : right[j][1] = left[k][1]][2]
        least == {k \in common : \A j \in common : sum(k) <= sum(j)}
    IN IF common = {} THEN 0 ELSE left[Min(least)][1]

(* mergeValue, field by field.                                             *)
MergeValue(base, mine, theirs) ==
    [f \in Fields |-> IF mine[f] = theirs[f] \/ theirs[f] = base[f] THEN mine[f]
                      ELSE IF mine[f] = base[f] THEN theirs[f] ELSE mine[f]]
Conflicts(base, mine, theirs) ==
    {f \in Fields : mine[f] # theirs[f] /\ mine[f] # base[f] /\ theirs[f] # base[f]}

Plan(target, source) ==
    LET mine == SnapshotOf(heads[target])
        theirs == SnapshotOf(heads[source])
        base == SnapshotOf(MergeBase(heads[target], heads[source]))
    IN [target |-> target, targetHead |-> heads[target], sourceHead |-> heads[source],
        merged |-> MergeValue(base, mine, theirs), conflicts |-> Conflicts(base, mine, theirs), theirs |-> theirs]

-----------------------------------------------------------------------------
Edit(f, v) ==
    /\ work[f] # v /\ work' = [work EXCEPT ![f] = v]
    /\ UNCHANGED <<localEnvs, commits, heads, branchNow, stagedNow, mergePlan, made>>
ToggleLocalEnv ==
    /\ localEnvs' = ~localEnvs
    /\ UNCHANGED <<work, commits, heads, branchNow, stagedNow, mergePlan, made>>

ToggleStage ==
    /\ Dirty /\ stagedNow' = ~stagedNow
    /\ UNCHANGED <<work, localEnvs, commits, heads, branchNow, mergePlan, made>>

(* A new commit becomes the head of branch b.                              *)
Record(b, parent, merge, snap) ==
    /\ made < MaxCommitsMade /\ made' = made + 1
    /\ commits' = Pruned(commits \cup {[id |-> made + 1, parent |-> parent, merge |-> merge, snap |-> snap]})
    /\ heads' = [x \in DOMAIN heads \cup {b} |-> IF x = b THEN made + 1 ELSE heads[x]]
HeadId(b) == IF HasHead(b) THEN heads[b] ELSE 0

Commit ==
    /\ stagedNow /\ Dirty /\ Record(branchNow, HeadId(branchNow), 0, work)
    /\ stagedNow' = FALSE
    /\ UNCHANGED <<work, localEnvs, branchNow, mergePlan>>

CreateBranch(b) ==
    /\ ~Dirty /\ b \notin DOMAIN heads
    /\ heads' = [x \in DOMAIN heads \cup {b} |-> IF x = b THEN HeadId(branchNow) ELSE heads[x]]
    /\ branchNow' = b
    /\ UNCHANGED <<work, localEnvs, commits, stagedNow, mergePlan, made>>

(* applyCollaborationSnapshot replaces the collection by the snapshot.     *)
Apply(snap) == work' = snap /\ localEnvs' = FALSE

CheckoutUnguarded(b) ==
    /\ b \in DOMAIN heads /\ b # branchNow
    /\ IF HasHead(b) THEN Apply(SnapshotOf(heads[b])) ELSE UNCHANGED <<work, localEnvs>>
    /\ branchNow' = b /\ mergePlan' = NoPlan
    /\ UNCHANGED <<commits, heads, stagedNow, made>>

Checkout(b) ==
    /\ ~Dirty /\ b \in DOMAIN heads /\ b # branchNow
    /\ IF HasHead(b) THEN Apply(SnapshotOf(heads[b])) ELSE UNCHANGED <<work, localEnvs>>
    /\ branchNow' = b /\ mergePlan' = NoPlan
    /\ UNCHANGED <<commits, heads, stagedNow, made>>

DeleteBranch(b) ==
    /\ b \in DOMAIN heads \ {"main", branchNow}
    /\ heads' = [x \in DOMAIN heads \ {b} |-> heads[x]]
    /\ UNCHANGED <<work, localEnvs, commits, branchNow, stagedNow, mergePlan, made>>

(* resolveCollaborationBranchMerge: refused when the target has moved.     *)
Resolve(plan, theirs) ==
    LET snap == [f \in Fields |-> IF f \in theirs THEN plan.theirs[f] ELSE plan.merged[f]] IN
    /\ plan.target \in DOMAIN heads /\ heads[plan.target] = plan.targetHead
    /\ Record(plan.target, plan.targetHead, plan.sourceHead, snap)
    /\ Apply(snap) /\ mergePlan' = NoPlan
    /\ UNCHANGED <<branchNow, stagedNow>>

Merge(b) ==
    /\ b # branchNow /\ HasHead(b) /\ HasHead(branchNow)
    /\ LET plan == Plan(branchNow, b) IN
         IF plan.conflicts = {} THEN Resolve(plan, {})
         ELSE mergePlan' = plan /\ UNCHANGED <<work, localEnvs, commits, heads, branchNow, stagedNow, made>>
ResolveMerge(theirs) ==
    /\ mergePlan # NoPlan /\ theirs \subseteq mergePlan.conflicts
    /\ Resolve(mergePlan, theirs)
CancelMerge ==
    /\ mergePlan # NoPlan /\ mergePlan' = NoPlan
    /\ UNCHANGED <<work, localEnvs, commits, heads, branchNow, stagedNow, made>>

(* An older version becomes a new commit of the active branch.             *)
Restore(id) ==
    /\ id \in CommitIds /\ id # Max(CommitIds)
    /\ Record(branchNow, HeadId(branchNow), 0, SnapshotOf(id)) /\ Apply(SnapshotOf(id))
    /\ UNCHANGED <<branchNow, stagedNow, mergePlan>>

(* normalizeCollaboration on the next start: branches whose head commit    *)
(* was pruned are dropped.                                                 *)
Reload ==
    LET kept == {b \in DOMAIN heads : heads[b] \in CommitIds \cup {0}} IN
    /\ heads' = [b \in kept |-> heads[b]] /\ mergePlan' = NoPlan
    /\ branchNow' = IF branchNow \in kept THEN branchNow ELSE "main"
    /\ UNCHANGED <<work, localEnvs, commits, stagedNow, made>>

RepositoryInit ==
    /\ work \in [Fields -> {Min(Values)}] /\ localEnvs = FALSE /\ commits = {} /\ heads = <<>> /\ branchNow = "main"
    /\ stagedNow = FALSE /\ mergePlan = NoPlan /\ made = 0

RepositoryNext ==
    \/ \E f \in Fields, v \in Values : Edit(f, v)
    \/ ToggleLocalEnv \/ ToggleStage \/ Commit \/ CancelMerge \/ Reload
    \/ \E b \in Branches : CreateBranch(b) \/ Checkout(b) \/ DeleteBranch(b) \/ Merge(b)
    \/ \E theirs \in SUBSET Fields : ResolveMerge(theirs)
    \/ \E id \in CommitIds : Restore(id)

RepositorySpec == RepositoryInit /\ [][RepositoryNext]_repoVars

-----------------------------------------------------------------------------
(* Merging what is already there changes nothing: where no merge commit is *)
(* retained, a branch merges without conflict with an ancestor of its head *)
(* and the result is the newer of the two (collaboration.ts,               *)
(* planCollaborationBranchMerge).                                          *)
MergesForward ==
    \A s, t \in DOMAIN heads :
       HasHead(s) /\ HasHead(t) /\ (\A c \in commits : c.merge = 0) =>
          LET plan == Plan(t, s)
              above(x, y) == \E k \in DOMAIN Ancestors(heads[x]) : Ancestors(heads[x])[k][1] = heads[y]
          IN /\ above(t, s) => plan.conflicts = {} /\ plan.merged = SnapshotOf(heads[t])
             /\ above(s, t) => plan.conflicts = {} /\ plan.merged = SnapshotOf(heads[s])

(* Changing branches loses no work: what a checkout replaces is a commit   *)
(* that is still retained (collaboration.ts, checkoutCollaborationBranch,  *)
(* pruneCommits; CollaborationRepositoryPanel.tsx, checkout).              *)
CheckoutKeepsWork == [][branchNow' # branchNow /\ work' # work => \E c \in commits' : c.snap = work]_repoVars

(* Private environments stay on the device whatever is checked out, merged *)
(* or restored (collaboration.ts, applyCollaborationSnapshot).             *)
PrivateStays == [][localEnvs /\ ~localEnvs' => ToggleLocalEnv]_repoVars

(* Merges go forward and checkouts lose nothing (collaboration.ts).        *)
RepositorySound == []MergesForward /\ CheckoutKeepsWork
=============================================================================
