----------------------------- MODULE GitProject -----------------------------
(***************************************************************************)
(* A project kept as YAML files in a Git repository (ProjectWorkbench.tsx, *)
(* project.ts, gitCommitPlan.ts and the Git commands of project.rs): the   *)
(* editor's memory, the folder, the index and the branches, the commands   *)
(* of the workbench, one at a time, and the debounced save of App.tsx that *)
(* runs beside them.  A file's contents are the number of the edit that    *)
(* made them; Git itself is external.                                      *)
(***************************************************************************)
EXTENDS Integers, Sequences, FiniteSets

CONSTANTS
    GitFiles,
    GitBranches,    \* "main" is the one the project starts on
    MaxGitEdits,    \* bound: edits in a behaviour
    MaxGitCommits,  \* bound: commits added to the repository
    MaxGitOps,      \* bound: operations started in a behaviour
    MaxGroups       \* the limit of a commit plan (8 in the code)

ASSUME GitAssumptions == "main" \in GitBranches

VARIABLES
    memory,   \* the workspace of the editor: contents of every file
    tree,     \* the working tree
    index,    \* the index
    unmerged, \* files in conflict
    merging,  \* the commit being merged, 0 when none is
    gitCommits,  \* commits made: contents, ancestors, the files planned for it
    gitHeads,    \* branch -> its commit, 0 when it does not exist
    current,  \* the branch checked out
    origin,   \* the remote's commit of the main branch
    shown,    \* the status the workbench shows
    groups,   \* the commit plan under review: a sequence of sets of files
    gitOp,       \* the operation under way
    armed,    \* the save timer runs
    writing,  \* the contents of the save under way
    gitEdits, \* edits made so far
    ops       \* operations started so far

gitVars == <<memory, tree, index, unmerged, merging, gitCommits, gitHeads, current, origin, shown, groups, gitOp, armed, writing, gitEdits, ops>>

repository == <<index, unmerged, merging, gitCommits, gitHeads, current, origin>>

Marked == -1  \* the contents of a file with conflict markers

NoOp == [kind |-> "none", step |-> "none", files |-> {}, branch |-> "", push |-> FALSE, left |-> <<>>, done |-> 0, from |-> 0, fresh |-> TRUE, loaded |-> <<>>]
NoWrite == <<>>

Contents(c) == gitCommits[c].contents
MayAdd == Cardinality({c \in DOMAIN gitCommits : gitCommits[c].parent # 0}) < MaxGitCommits
HeadContents == Contents(gitHeads[current])

(* git_status: the files that differ from the index, the staged ones, the  *)
(* files in conflict, and whether a merge is under way.                    *)
GitStatus(t, i, u, m, h) ==
    [unstaged |-> {f \in GitFiles : t[f] # i[f]} \cup u, staged |-> {f \in GitFiles : i[f] # h[f]} \cup u,
     conflicted |-> u, merging |-> m # 0]
StatusNow == GitStatus(tree, index, unmerged, merging, HeadContents)
StatusNext == GitStatus(tree', index', unmerged', merging', gitCommits'[gitHeads'[current']].contents)

ShownFiles == shown.unstaged \cup shown.staged
Stageable == shown.unstaged \ shown.conflicted
Unstageable == shown.staged \ shown.conflicted

-----------------------------------------------------------------------------
(* An edit starts the save timer again.                                    *)
EditFile(f) ==
    /\ gitEdits < MaxGitEdits /\ gitEdits' = gitEdits + 1
    /\ memory' = [memory EXCEPT ![f] = gitEdits + 1] /\ armed' = TRUE
    /\ UNCHANGED <<tree, repository, shown, groups, gitOp, writing, ops>>

(* The timer of App.tsx: the workspace of its render is written by a       *)
(* thread of its own, or not written.  One save is under way at a time.    *)
SaveStarts ==
    /\ armed /\ writing = NoWrite /\ armed' = FALSE
    /\ writing' = IF memory = tree THEN NoWrite ELSE memory
    /\ UNCHANGED <<memory, tree, repository, shown, groups, gitOp, gitEdits, ops>>

SaveEnds ==
    /\ writing # NoWrite /\ writing' = NoWrite /\ tree' \in {writing, tree}
    /\ UNCHANGED <<memory, repository, shown, groups, gitOp, armed, gitEdits, ops>>

-----------------------------------------------------------------------------
(* The buttons: each operation starts only when none is under way.         *)
BeginGit(o) ==
    /\ gitOp = NoOp /\ gitOp' = o /\ ops < MaxGitOps /\ ops' = ops + 1
    /\ UNCHANGED <<memory, tree, repository, shown, groups, armed, writing, gitEdits>>

Begins(kind, step, files, branch, push) == [NoOp EXCEPT !.kind = kind, !.step = step, !.files = files, !.branch = branch, !.push = push]

RefreshStatus == BeginGit(Begins("refresh", "git", {}, "", FALSE))
SaveYaml == BeginGit(Begins("save", "git", GitFiles, "", FALSE))
StageFiles == \E files \in SUBSET Stageable \ {{}} : BeginGit(Begins("stage", "git", files, "", FALSE))
UnstageFiles == \E files \in SUBSET Unstageable \ {{}} : BeginGit(Begins("unstage", "git", files, "", FALSE))
DiscardFiles == \E files \in SUBSET Stageable \ {{}} : BeginGit(Begins("discard", "git", files, "", FALSE))
CreateCommit(push) == shown.staged # {} /\ BeginGit(Begins("commit", IF push THEN "preflight" ELSE "git", {}, "", push))
SwitchBranch(b) == gitHeads[b] # 0 /\ b # current /\ BeginGit(Begins("checkout", "git", {}, b, FALSE))
CreateGitBranch(b) == gitHeads[b] = 0 /\ BeginGit(Begins("create", "git", {}, b, FALSE))
DeleteGitBranch(b) == gitHeads[b] # 0 /\ b # current /\ BeginGit(Begins("delete", "git", {}, b, FALSE))
MergeBranch(b) == gitHeads[b] # 0 /\ b # current /\ BeginGit(Begins("merge", "git", {}, b, FALSE))
AbortMerge == shown.conflicted # {} /\ BeginGit(Begins("abort", "git", {}, "", FALSE))
ResolveConflict(f, side) == f \in shown.conflicted /\ BeginGit(Begins("resolve", "git", {f}, side, FALSE))
PullProject == BeginGit(Begins("pull", "git", {}, "", FALSE))
PushProject == BeginGit(Begins("push", "push", {}, "", FALSE))

(* suggestCommits keeps the files of the status shown; whether its groups  *)
(* are disjoint is not its concern.                                        *)
SuggestCommits(plan) ==
    /\ gitOp = NoOp /\ groups = <<>> /\ groups' = plan /\ ops < MaxGitOps /\ ops' = ops + 1
    /\ \A i \in DOMAIN plan : plan[i] \subseteq ShownFiles
    /\ UNCHANGED <<memory, tree, repository, shown, gitOp, armed, writing, gitEdits>>

(* validateGitCommitPlan, against the files of the status shown.           *)
ValidPlan(plan, files) ==
    /\ plan # <<>> /\ Len(plan) <= MaxGroups
    /\ \A i \in DOMAIN plan : plan[i] # {} /\ plan[i] \subseteq files
    /\ \A i, j \in DOMAIN plan : i # j => plan[i] \cap plan[j] = {}

(* createGroupedCommits first empties the index of what is shown as staged.*)
GroupedWithoutUnstage(push) ==
    /\ groups # <<>> /\ ~shown.merging /\ shown.conflicted = {} /\ ValidPlan(groups, ShownFiles)
    /\ BeginGit([Begins("grouped", IF push THEN "preflight" ELSE "git", {}, "", push) EXCEPT !.left = groups, !.fresh = (shown.staged = StatusNow.staged)])
CreateGroupedCommits(push) ==
    /\ groups # <<>> /\ ~shown.merging /\ shown.conflicted = {} /\ ValidPlan(groups, ShownFiles)
    /\ BeginGit([Begins("grouped", IF push THEN "preflight" ELSE "git", Unstageable, "", push) EXCEPT !.left = groups, !.fresh = (shown.staged = StatusNow.staged)])

-----------------------------------------------------------------------------
(* Git.  A commit needs something staged, or a merge, and no conflict.     *)
Committable == unmerged = {} /\ (index # HeadContents \/ merging # 0) /\ MayAdd
Past(c) == gitCommits[c].past
GitCommits(planned) ==
    LET new == Len(gitCommits) + 1
        past == Past(gitHeads[current]) \cup (IF merging = 0 THEN {} ELSE Past(merging)) \cup {new}
    IN  /\ Committable
        /\ gitCommits' = Append(gitCommits, [contents |-> index, past |-> past, parent |-> gitHeads[current], planned |-> planned])
        /\ gitHeads' = [gitHeads EXCEPT ![current] = new] /\ merging' = 0
        /\ UNCHANGED <<tree, index, unmerged, current, origin>>

(* Files that differ between two commits and carry uncommitted work.       *)
Untouched(f) == tree[f] = HeadContents[f] /\ index[f] = HeadContents[f]
Blocked(c) == \E f \in GitFiles : Contents(c)[f] # HeadContents[f] /\ ~Untouched(f)
Moved(old, c) == [f \in GitFiles |-> IF Contents(c)[f] # HeadContents[f] THEN Contents(c)[f] ELSE old[f]]

GitChecksOut(b) ==
    /\ merging = 0 /\ ~Blocked(gitHeads[b])
    /\ tree' = Moved(tree, gitHeads[b]) /\ index' = Moved(index, gitHeads[b]) /\ current' = b
    /\ UNCHANGED <<unmerged, merging, gitCommits, gitHeads, origin>>

Latest(c, d) == CHOOSE e \in Past(c) \cap Past(d) : \A x \in Past(c) \cap Past(d) : x <= e
Clashing(c) ==
    LET base == Contents(Latest(gitHeads[current], c)) IN
    {f \in GitFiles : HeadContents[f] # base[f] /\ Contents(c)[f] # base[f] /\ HeadContents[f] # Contents(c)[f]}
Theirs(c) == LET base == Contents(Latest(gitHeads[current], c)) IN {f \in GitFiles : HeadContents[f] = base[f] /\ Contents(c)[f] # base[f]}
MergesIn(c, old, mark) == [f \in GitFiles |-> IF f \in Clashing(c) THEN mark[f] ELSE IF f \in Theirs(c) THEN Contents(c)[f] ELSE old[f]]

(* A merge that stops before its commit, with or without conflicts.        *)
GitMerges(c) ==
    /\ c \notin Past(gitHeads[current])
    /\ tree' = MergesIn(c, tree, [f \in GitFiles |-> Marked]) /\ index' = MergesIn(c, index, HeadContents)
    /\ unmerged' = Clashing(c) /\ merging' = c
    /\ UNCHANGED <<gitCommits, gitHeads, current, origin>>

(* git pull: up to date, fast-forwarded, merged, or in conflict.           *)
GitPulls ==
    /\ merging = 0 /\ \A f \in Clashing(origin) \cup Theirs(origin) : Untouched(f)
    /\ \/ origin \in Past(gitHeads[current]) /\ UNCHANGED <<tree, index, unmerged, merging, gitCommits, gitHeads, current, origin>>
       \/ /\ gitHeads[current] \in Past(origin)
          /\ tree' = Moved(tree, origin) /\ index' = Moved(index, origin) /\ gitHeads' = [gitHeads EXCEPT ![current] = origin]
          /\ UNCHANGED <<unmerged, merging, gitCommits, current, origin>>
       \/ /\ gitHeads[current] \notin Past(origin) /\ Clashing(origin) # {} /\ index = HeadContents /\ GitMerges(origin)
       \/ /\ gitHeads[current] \notin Past(origin) /\ origin \notin Past(gitHeads[current]) /\ Clashing(origin) = {}
          /\ index = HeadContents /\ MayAdd
          /\ tree' = MergesIn(origin, tree, HeadContents) /\ index' = MergesIn(origin, index, HeadContents)
          /\ gitCommits' = Append(gitCommits, [contents |-> index', past |-> Past(gitHeads[current]) \cup Past(origin) \cup {Len(gitCommits) + 1}, parent |-> gitHeads[current], planned |-> GitFiles])
          /\ gitHeads' = [gitHeads EXCEPT ![current] = Len(gitCommits) + 1]
          /\ UNCHANGED <<unmerged, merging, current, origin>>

(* What the command of each operation does (project.rs).  A discard        *)
(* refuses files without an unstaged change, and any merge; a merge a      *)
(* status that is not clean.                                               *)
OnFiles(to, from) == [f \in GitFiles |-> IF f \in gitOp.files THEN from[f] ELSE to[f]]

Performs ==
    \/ gitOp.kind = "refresh" /\ UNCHANGED <<tree, repository>>
    \/ gitOp.kind = "save" /\ tree' = memory /\ UNCHANGED repository
    \/ gitOp.kind = "stage" /\ index' = OnFiles(index, tree) /\ UNCHANGED <<tree, unmerged, merging, gitCommits, gitHeads, current, origin>>
    \/ gitOp.kind = "unstage" /\ index' = OnFiles(index, HeadContents) /\ UNCHANGED <<tree, unmerged, merging, gitCommits, gitHeads, current, origin>>
    \/ /\ gitOp.kind = "discard" /\ merging = 0 /\ unmerged = {} /\ gitOp.files \subseteq StatusNow.unstaged
       /\ tree' = OnFiles(tree, index) /\ UNCHANGED repository
    \/ gitOp.kind = "commit" /\ GitCommits(GitFiles)
    \/ gitOp.kind = "checkout" /\ GitChecksOut(gitOp.branch)
    \/ /\ gitOp.kind = "create" /\ gitHeads' = [gitHeads EXCEPT ![gitOp.branch] = gitHeads[current]] /\ current' = gitOp.branch /\ merging = 0
       /\ UNCHANGED <<tree, index, unmerged, merging, gitCommits, origin>>
    \/ /\ gitOp.kind = "delete" /\ gitHeads[gitOp.branch] \in Past(gitHeads[current])
       /\ gitHeads' = [gitHeads EXCEPT ![gitOp.branch] = 0] /\ UNCHANGED <<tree, index, unmerged, merging, gitCommits, current, origin>>
    \/ /\ gitOp.kind = "merge" /\ merging = 0 /\ StatusNow.unstaged \cup StatusNow.staged = {}
       /\ GitMerges(gitHeads[gitOp.branch])
    \/ /\ gitOp.kind = "abort" /\ merging # 0 /\ merging' = 0 /\ unmerged' = {}
       /\ index' = HeadContents /\ tree' = HeadContents /\ UNCHANGED <<gitCommits, gitHeads, current, origin>>
    \/ /\ gitOp.kind = "resolve" /\ gitOp.files \subseteq unmerged /\ unmerged' = unmerged \ gitOp.files
       /\ LET side == IF gitOp.branch = "ours" THEN HeadContents ELSE Contents(merging) IN
          tree' = OnFiles(tree, side) /\ index' = OnFiles(index, side)
       /\ UNCHANGED <<merging, gitCommits, gitHeads, current, origin>>
    \/ gitOp.kind = "pull" /\ GitPulls

-----------------------------------------------------------------------------
(* The operations that read the folder back into the editor, unless a file *)
(* is in conflict.                                                         *)
Reloads(kind) == kind \in {"discard", "checkout", "merge", "resolve", "pull"}

GitCommand ==
    /\ gitOp.step = "git" /\ gitOp.kind # "grouped" /\ Performs
    /\ LET read == Reloads(gitOp.kind) /\ unmerged' = {} IN
       /\ gitOp' = IF read THEN [gitOp EXCEPT !.step = "read"] ELSE IF gitOp.push THEN [gitOp EXCEPT !.step = "push"] ELSE NoOp
       /\ shown' = IF read THEN shown ELSE StatusNext
       /\ groups' = IF gitOp.kind = "commit" THEN <<>> ELSE groups
    /\ UNCHANGED <<memory, armed, writing, gitEdits, ops>>

ReadsFolder ==
    /\ gitOp.step = "read" /\ gitOp' = [gitOp EXCEPT !.step = "set", !.loaded = tree]
    /\ UNCHANGED <<memory, tree, repository, shown, groups, armed, writing, gitEdits, ops>>

(* onChangeWorkspace replaces the workspace by what was read.              *)
SetsWorkspace ==
    /\ gitOp.step = "set" /\ gitOp' = NoOp /\ memory' = gitOp.loaded /\ shown' = StatusNow /\ armed' = TRUE
    /\ UNCHANGED <<tree, repository, groups, writing, gitEdits, ops>>

(* A grouped commit: unstage, then stage and commit group by group.        *)
GroupUnstages ==
    /\ gitOp.kind = "grouped" /\ gitOp.step = "git" /\ index' = OnFiles(index, HeadContents)
    /\ gitOp' = [gitOp EXCEPT !.step = "stage", !.from = Len(gitCommits)]
    /\ UNCHANGED <<memory, tree, unmerged, merging, gitCommits, gitHeads, current, origin, shown, groups, armed, writing, gitEdits, ops>>

GroupStages ==
    /\ gitOp.kind = "grouped" /\ gitOp.step = "stage" /\ gitOp.left # <<>>
    /\ index' = [f \in GitFiles |-> IF f \in Head(gitOp.left) THEN tree[f] ELSE index[f]]
    /\ gitOp' = [gitOp EXCEPT !.step = "commit"]
    /\ UNCHANGED <<memory, tree, unmerged, merging, gitCommits, gitHeads, current, origin, shown, groups, armed, writing, gitEdits, ops>>

GroupCommits ==
    /\ gitOp.kind = "grouped" /\ gitOp.step = "commit" /\ GitCommits(IF gitOp.fresh THEN Head(gitOp.left) ELSE GitFiles)
    /\ gitOp' = [gitOp EXCEPT !.step = "stage", !.left = Tail(@), !.done = @ + 1]
    /\ UNCHANGED <<memory, shown, groups, armed, writing, gitEdits, ops>>

GroupsDone ==
    /\ gitOp.kind = "grouped" /\ gitOp.step = "stage" /\ gitOp.left = <<>>
    /\ gitOp' = IF gitOp.push THEN [gitOp EXCEPT !.step = "push"] ELSE NoOp
    /\ shown' = StatusNow /\ groups' = <<>>
    /\ UNCHANGED <<memory, tree, repository, armed, writing, gitEdits, ops>>

(* Its failure is followed by a status, which may fail as well.            *)
GroupFails ==
    /\ gitOp.kind = "grouped" /\ gitOp.step \in {"git", "stage", "commit"} /\ gitOp' = NoOp
    /\ shown' \in {shown, StatusNow}
    /\ UNCHANGED <<memory, tree, repository, groups, armed, writing, gitEdits, ops>>

(* git ls-remote answers before anything is changed.                       *)
PreflightPasses ==
    /\ gitOp.step = "preflight" /\ gitOp' = [gitOp EXCEPT !.step = "git"]
    /\ UNCHANGED <<memory, tree, repository, shown, groups, armed, writing, gitEdits, ops>>

(* A push is never forced: the remote's commit is in the branch's past.    *)
PushLands ==
    /\ gitOp.step = "push" /\ current = "main" /\ origin \in Past(gitHeads[current])
    /\ origin' = gitHeads[current] /\ gitOp' = NoOp
    /\ UNCHANGED <<memory, tree, index, unmerged, merging, gitCommits, gitHeads, current, shown, groups, armed, writing, gitEdits, ops>>

(* An operation that fails, at any step but one of a grouped commit.       *)
OpFails ==
    /\ gitOp # NoOp /\ ~(gitOp.kind = "grouped" /\ gitOp.step \in {"git", "stage", "commit"}) /\ gitOp' = NoOp
    /\ UNCHANGED <<memory, tree, repository, shown, groups, armed, writing, gitEdits, ops>>

(* Somebody else pushes to the remote.                                     *)
OthersPush(f) ==
    /\ gitEdits < MaxGitEdits /\ gitEdits' = gitEdits + 1 /\ MayAdd
    /\ gitCommits' = Append(gitCommits, [contents |-> [Contents(origin) EXCEPT ![f] = gitEdits + 1], past |-> Past(origin) \cup {Len(gitCommits) + 1}, parent |-> origin, planned |-> GitFiles])
    /\ origin' = Len(gitCommits) + 1
    /\ UNCHANGED <<memory, tree, index, unmerged, merging, gitHeads, current, shown, groups, gitOp, armed, writing, ops>>

-----------------------------------------------------------------------------
(* A new repository, one with a file left staged by an earlier session, or *)
(* one whose two branches changed the same file.                           *)
Blank == [f \in GitFiles |-> 0]
Written(f, v) == [Blank EXCEPT ![f] = v]
FirstCommit(contents, past) == [contents |-> contents, past |-> past, parent |-> 0, planned |-> GitFiles]
GitInit ==
    /\ \/ /\ gitCommits = <<FirstCommit(Blank, {1})>> /\ memory \in {Blank, Written(CHOOSE g \in GitFiles : TRUE, -2)}
          /\ gitHeads = [b \in GitBranches |-> IF b = "main" THEN 1 ELSE 0] /\ origin = 1
       \/ LET f == CHOOSE g \in GitFiles : TRUE IN
          /\ gitCommits = <<FirstCommit(Blank, {1}), FirstCommit(Written(f, -2), {1, 2}), FirstCommit(Written(f, -3), {1, 3})>>
          /\ memory = Written(f, -2) /\ gitHeads = [b \in GitBranches |-> IF b = "main" THEN 2 ELSE 3] /\ origin = 2
    /\ tree = memory /\ index = memory /\ unmerged = {} /\ merging = 0 /\ current = "main"
    /\ shown = StatusNow /\ groups = <<>> /\ gitOp = NoOp
    /\ armed = FALSE /\ writing = NoWrite /\ gitEdits = 0 /\ ops = 0

Plans == {<<a, b>> : a, b \in SUBSET GitFiles \ {{}}} \cup {<<a>> : a \in SUBSET GitFiles \ {{}}}

GitNext ==
    \/ \E f \in GitFiles : EditFile(f) \/ OthersPush(f)
    \/ SaveStarts \/ SaveEnds
    \/ RefreshStatus \/ SaveYaml \/ StageFiles \/ UnstageFiles \/ DiscardFiles \/ AbortMerge \/ PullProject \/ PushProject
    \/ \E b \in GitBranches : SwitchBranch(b) \/ CreateGitBranch(b) \/ DeleteGitBranch(b) \/ MergeBranch(b)
    \/ \E f \in GitFiles, side \in {"ours", "theirs"} : ResolveConflict(f, side)
    \/ \E push \in BOOLEAN : CreateCommit(push) \/ CreateGroupedCommits(push)
    \/ \E plan \in Plans : SuggestCommits(plan)
    \/ GitCommand \/ ReadsFolder \/ SetsWorkspace \/ GroupUnstages \/ GroupStages \/ GroupCommits \/ GroupsDone \/ GroupFails
    \/ PreflightPasses \/ PushLands \/ OpFails

GitSpec == GitInit /\ [][GitNext]_gitVars

-----------------------------------------------------------------------------
(* A commit of a reviewed plan changes no file outside its group, so files *)
(* omitted from the plan and files of other groups stay out of it, and the *)
(* number of groups reported as done is the number of commits made, while  *)
(* saves run between its steps and any of them fails                       *)
(* (ProjectWorkbench.tsx createGroupedCommits).                            *)
GroupsExact ==
    /\ \A c \in DOMAIN gitCommits : \A f \in GitFiles \ gitCommits[c].planned : gitCommits[c].contents[f] = Contents(gitCommits[c].parent)[f]
    /\ gitOp.kind = "grouped" /\ gitOp.step \in {"stage", "commit"} => gitOp.done = Cardinality({c \in gitOp.from + 1 .. Len(gitCommits) : c \in Past(gitHeads[current])})

(* An edit is held by the editor, or by the folder, the index or a commit: *)
(* switching branches never replaces an edit that nothing else holds, as   *)
(* Git blocks a checkout that would overwrite uncommitted work.            *)
HeldElsewhere(f, v) == v \in {tree[f], index[f]} \/ \E c \in DOMAIN gitCommits : Contents(c)[f] = v
SwitchKeepsWork ==
    [][gitOp.kind = "checkout" => \A f \in GitFiles : memory'[f] # memory[f] /\ gitOp'.kind = "none" => HeldElsewhere(f, memory[f])]_gitVars
=============================================================================
