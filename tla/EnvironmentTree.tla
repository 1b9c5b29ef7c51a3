-------------------------- MODULE EnvironmentTree --------------------------
(***************************************************************************)
(* The global environments of a workspace: base environments and their     *)
(* sub-environments, the private ones, their Secret rows with the vault    *)
(* entries that hold the plaintext, and the cookie jar each base           *)
(* environment owns (resources.ts, environmentSecrets.ts,                  *)
(* workspaceFileState.ts, the environment panel of App.tsx).  An           *)
(* environment has at most one Secret row, named by the environment's id.  *)
(***************************************************************************)
EXTENDS Naturals, Sequences, FiniteSets, SequencesExt, Functions

CONSTANTS EnvironmentIds, Jars   \* ids, and the contents a cookie jar can have

VARIABLES
    envOrder,      \* the ids of workspace.environments, in order
    env,           \* id -> parent, private, secret
    activeEnv,     \* workspace.activeEnvironmentId
    envJars,       \* workspace.fileState of environments: base id -> jar
    secretEntries, \* owners of the vault's environment entries
    vaultOpen      \* vaultSession.unlocked

envVars == <<envOrder, env, activeEnv, envJars, secretEntries, vaultOpen>>

NoParent == ""
NoCookies == CHOOSE j \in Jars : TRUE

-----------------------------------------------------------------------------
EnvIds == DOMAIN env
PlaceOf(s, id) == CHOOSE k \in DOMAIN s : s[k] = id

(* The chain of ids above an environment, itself included.                 *)
Lineage(e, id) ==
    LET above[n \in 0 .. Cardinality(DOMAIN e)] ==
          IF n = 0 THEN {id} ELSE above[n - 1] \cup ({e[x].parent : x \in above[n - 1]} \cap DOMAIN e)
    IN above[Cardinality(DOMAIN e)]
PublicIds(e) == {id \in DOMAIN e : \A x \in Lineage(e, id) : ~e[x].private}

(* workspaceFileIdForEnvironment and getWorkspaceFileState.                *)
BaseOf(e, id) == CHOOSE x \in Lineage(e, id) : e[x].parent \notin DOMAIN e
CookiesOf(e, jars, id) == LET b == BaseOf(e, id) IN IF b \in DOMAIN jars THEN jars[b] ELSE NoCookies

-----------------------------------------------------------------------------
Fresh == CHOOSE id \in EnvironmentIds : id \notin EnvIds
MayCreate == EnvIds # EnvironmentIds
Selected == env[activeEnv]
SelectEnvironment(id) ==
    /\ id \in EnvIds /\ activeEnv' = id
    /\ UNCHANGED <<envOrder, env, envJars, secretEntries, vaultOpen>>

UpdateIdentityUnchecked(next) ==
    /\ env' = [env EXCEPT ![activeEnv] = next]
    /\ UNCHANGED <<envOrder, activeEnv, envJars, secretEntries, vaultOpen>>

(* updateIdentity: an environment with Secret rows stays private.          *)
UpdateIdentity(next) ==
    /\ Selected.secret => next.private
    /\ env' = [env EXCEPT ![activeEnv] = next]
    /\ UNCHANGED <<envOrder, activeEnv, envJars, secretEntries, vaultOpen>>

(* A base environment is never private; below a private one all are.       *)
ChangeParent(parent) ==
    /\ parent = NoParent \/ (parent \in EnvIds /\ activeEnv \notin Lineage(env, parent))
    /\ UpdateIdentity([Selected EXCEPT !.parent = parent,
                                       !.private = parent # NoParent /\ (@ \/ parent \notin PublicIds(env))])

TogglePrivate ==
    /\ Selected.parent \in PublicIds(env)
    /\ UpdateIdentity([Selected EXCEPT !.private = ~@])

(* changeValueType to and from Secret, and removeRow.                      *)
MarkSecret ==
    /\ Selected.private /\ vaultOpen /\ ~Selected.secret
    /\ env' = [env EXCEPT ![activeEnv].secret = TRUE] /\ secretEntries' = secretEntries \cup {activeEnv}
    /\ UNCHANGED <<envOrder, activeEnv, envJars, vaultOpen>>
ClearSecret ==
    /\ Selected.secret /\ Selected.private /\ vaultOpen
    /\ env' = [env EXCEPT ![activeEnv].secret = FALSE] /\ secretEntries' = secretEntries \ {activeEnv}
    /\ UNCHANGED <<envOrder, activeEnv, envJars, vaultOpen>>

(* moveWorkspaceEnvironment, by drag or by key, among siblings only.       *)
MoveEnvironment(id, target, after) ==
    LET rest == SelectSeq(envOrder, LAMBDA x : x # id) IN
    /\ {id, target} \subseteq EnvIds /\ id # target
    /\ env[id].parent # NoParent /\ env[id].parent = env[target].parent
    /\ envOrder' = InsertAt(rest, PlaceOf(rest, target) + after, id)
    /\ UNCHANGED <<env, activeEnv, envJars, secretEntries, vaultOpen>>

DuplicateEnvironment(id) ==
    /\ MayCreate /\ id \in EnvIds /\ env[id].parent # NoParent /\ (env[id].secret => vaultOpen)
    /\ env' = [x \in EnvIds \cup {Fresh} |-> IF x = Fresh THEN env[id] ELSE env[x]]
    /\ envOrder' = InsertAt(envOrder, PlaceOf(envOrder, id) + 1, Fresh)
    /\ secretEntries' = IF id \in secretEntries THEN secretEntries \cup {Fresh} ELSE secretEntries
    /\ UNCHANGED <<activeEnv, envJars, vaultOpen>>

AddEnvironment(parent) ==
    LET added == [parent |-> parent, secret |-> FALSE, private |-> parent # NoParent /\ parent \notin PublicIds(env)] IN
    /\ MayCreate
    /\ env' = [x \in EnvIds \cup {Fresh} |-> IF x = Fresh THEN added ELSE env[x]] /\ envOrder' = Append(envOrder, Fresh)
    /\ envJars' = IF parent # NoParent THEN envJars
                  ELSE [x \in DOMAIN envJars \cup {Fresh} |-> IF x = Fresh THEN NoCookies ELSE envJars[x]]
    /\ activeEnv' = Fresh
    /\ UNCHANGED <<secretEntries, vaultOpen>>

AdoptedPublic(child, deleted) == [child EXCEPT !.parent = deleted.parent]
Adopted(child, deleted) == [child EXCEPT !.parent = deleted.parent, !.private = @ \/ deleted.private]

(* Children move up; the children of a base environment become bases with  *)
(* a copy of its jar.                                                      *)
DeleteEnvironment(id) ==
    LET deleted == env[id]
        heirs == {x \in EnvIds \ {id} : env[x].parent = id}
        rest == SelectSeq(envOrder, LAMBDA x : x # id)
    IN /\ id \in EnvIds /\ Len(envOrder) > 1 /\ (deleted.secret => vaultOpen)
       /\ envOrder' = rest /\ secretEntries' = secretEntries \ {id}
       /\ env' = [x \in EnvIds \ {id} |-> IF x \in heirs THEN Adopted(env[x], deleted) ELSE env[x]]
       /\ envJars' = IF deleted.parent # NoParent THEN envJars
                     ELSE [x \in (DOMAIN envJars \cup heirs) \ {id} |->
                             IF x \in heirs THEN CookiesOf(env, envJars, id) ELSE envJars[x]]
       /\ activeEnv' = IF activeEnv # id THEN activeEnv ELSE IF deleted.parent \in EnvIds THEN deleted.parent ELSE rest[1]
       /\ UNCHANGED vaultOpen

(* setWorkspaceFileCookies: a response stores cookies in the jar of the    *)
(* active environment's base.                                              *)
StoreCookies(jar) ==
    LET base == BaseOf(env, activeEnv) IN
    /\ envJars' = [x \in DOMAIN envJars \cup {base} |-> IF x = base THEN jar ELSE envJars[x]]
    /\ UNCHANGED <<envOrder, env, activeEnv, secretEntries, vaultOpen>>

SwitchVault == vaultOpen' = ~vaultOpen /\ UNCHANGED <<envOrder, env, activeEnv, envJars, secretEntries>>

(* Resetting a locked vault removes every Secret row with the vault.       *)
ResetPrivateVault ==
    /\ ~vaultOpen /\ secretEntries # {} /\ secretEntries' = {}
    /\ env' = [x \in EnvIds |-> [env[x] EXCEPT !.secret = FALSE]]
    /\ UNCHANGED <<envOrder, activeEnv, envJars, vaultOpen>>

EnvironmentInit ==
    LET base == CHOOSE id \in EnvironmentIds : TRUE IN
    /\ envOrder = <<base>> /\ env = [x \in {base} |-> [parent |-> NoParent, private |-> FALSE, secret |-> FALSE]]
    /\ activeEnv = base /\ envJars = [x \in {base} |-> NoCookies] /\ secretEntries = {} /\ vaultOpen = FALSE

EnvironmentNext ==
    \/ TogglePrivate \/ MarkSecret \/ ClearSecret \/ SwitchVault \/ ResetPrivateVault
    \/ \E jar \in Jars : StoreCookies(jar)
    \/ \E id \in EnvIds : SelectEnvironment(id) \/ DeleteEnvironment(id) \/ DuplicateEnvironment(id)
    \/ \E parent \in {NoParent} \cup EnvIds : ChangeParent(parent)
    \/ \E parent \in {NoParent, activeEnv} : AddEnvironment(parent)
    \/ \E id, target \in EnvIds, after \in 0 .. 1 : MoveEnvironment(id, target, after)

EnvironmentSpec == EnvironmentInit /\ [][EnvironmentNext]_envVars

-----------------------------------------------------------------------------
(* Secrets stay in private environments with their vault entries, no two   *)
(* environments share an id, every environment hangs below a base, and the *)
(* active one exists (App.tsx, the environment panel; resources.ts,        *)
(* publicEnvironments; environmentSecrets.ts).                             *)
EnvironmentsSound ==
    /\ EnvIds = ToSet(envOrder) /\ Cardinality(EnvIds) = Len(envOrder) /\ activeEnv \in EnvIds
    /\ \A id \in EnvIds : (env[id].secret => env[id].private) /\ \E x \in Lineage(env, id) : env[x].parent = NoParent
    /\ secretEntries = {id \in EnvIds : env[id].secret}

(* What is private or signed in stays so: only the environment being       *)
(* edited, and what lies below it, can become shared, and deleting,        *)
(* moving, adding or copying environments changes the cookies of none      *)
(* (App.tsx, deleteEnvironment; resources.ts, moveWorkspaceEnvironment).   *)
PrivacyKept ==
    [][LET kept == EnvIds \cap EnvIds' IN
       EnvIds' # EnvIds \/ envOrder' # envOrder =>
          /\ kept \cap PublicIds(env') \subseteq PublicIds(env)
          /\ \A id \in kept : CookiesOf(env', envJars', id) = CookiesOf(env, envJars, id)]_envVars

(* The environments stay well formed and private ones private (App.tsx,    *)
(* the environment panel; resources.ts).                                   *)
EnvironmentTreeSound == []EnvironmentsSound /\ PrivacyKept
=============================================================================
