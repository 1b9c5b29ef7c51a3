---------------------------- MODULE ResourceTree ----------------------------
(***************************************************************************)
(* The collections of a workspace: folders and requests, their parents and *)
(* the flat order they are shown in (resources.ts and the handlers of      *)
(* App.tsx), and the request a unit test names (unitTests.ts).             *)
(***************************************************************************)
EXTENDS Naturals, Sequences, FiniteSets, SequencesExt, Functions

CONSTANTS
    TreeCollections,  \* the collections of the workspace
    TreeFolders,      \* folder ids
    TreeRequests,     \* request ids
    MaxResources,     \* bound on the folders and requests there are at a time
    Imported          \* the collection at the start: folders, requests, parent, order

VARIABLES
    tree,        \* the collections: folders, requests, parent of each, resourceOrder
    collectionOrder,
    activeId,    \* workspace.activeRequestId
    testTarget   \* the request a unit test sends

treeVars == <<tree, collectionOrder, activeId, testTarget>>

Root == ""
EmptyCollection == [folders |-> <<>>, requests |-> <<>>, parent |-> <<>>, order |-> <<>>]

-----------------------------------------------------------------------------
Resources(c) == ToSet(c.folders) \cup ToSet(c.requests)
Without(s, ids) == SelectSeq(s, LAMBDA id : id \notin ids)
Within(s, ids) == SelectSeq(s, LAMBDA id : id \in ids)
FirstOfEach(s) ==
    LET first == SelectSeq([k \in DOMAIN s |-> k], LAMBDA k : \A j \in 1 .. k - 1 : s[j] # s[k])
    IN [k \in DOMAIN first |-> s[first[k]]]
Placed(s, at, ids) == SubSeq(s, 1, at) \o ids \o SubSeq(s, at + 1, Len(s))
LastOf(s, ids) ==
    LET places == {k \in DOMAIN s : s[k] \in ids}
    IN IF places = {} THEN 0 ELSE CHOOSE k \in places : \A j \in places : j <= k
At(s, id) == LastOf(s, {id})

(* collectionResourceOrder: what resourceOrder lists, then the rest.       *)
FullOrder(c) ==
    LET listed == Within(c.order, Resources(c))
    IN FirstOfEach(listed) \o Without(c.folders \o c.requests, ToSet(listed))
Children(c, parent) == SelectSeq(FullOrder(c), LAMBDA id : c.parent[id] = parent)

(* sortCollectionResources: the arrays follow the order.                   *)
Sorted(folders, requests, parent, order) ==
    [folders |-> Within(order, folders), requests |-> Within(order, requests), parent |-> parent, order |-> order]

(* folderSubtree: one pass per folder reaches every descendant.            *)
Subtree(c, root) ==
    LET reach[n \in 0 .. Len(c.folders)] ==
          IF n = 0 THEN {root} ELSE reach[n - 1] \cup {f \in ToSet(c.folders) : c.parent[f] \in reach[n - 1]}
    IN reach[Len(c.folders)]
Descendants(c, root) == Subtree(c, root) \cup {r \in ToSet(c.requests) : c.parent[r] \in Subtree(c, root)}

InsertResourceAtEnd(order, id, siblings, target, after) ==
    LET rest == Without(order, {id})
    IN IF target \in siblings THEN Placed(rest, At(order, target) - 1 + after, <<id>>) ELSE Append(rest, id)

InsertResource(order, id, siblings, target, after) ==
    LET rest == Without(order, {id})
        last == LastOf(rest, siblings)
    IN IF target \in siblings THEN Placed(rest, At(rest, target) - 1 + after, <<id>>)
       ELSE Placed(rest, IF last = 0 THEN Len(rest) ELSE last, <<id>>)

-----------------------------------------------------------------------------
(* moveWorkspaceResource: a resource, with what a folder holds, goes under *)
(* parent in collection to, beside target or after the last sibling.       *)
Moving(c, id) == IF id \in ToSet(c.folders) THEN Descendants(c, id) ELSE {id}
Siblings(c, parent, moving) == ToSet(Children(c, parent)) \ moving
Sides(target) == IF target = Root THEN {1} ELSE {0, 1}   \* before or after the target

MayMoveIntoItself(from, to, id, parent, target) ==
    /\ id \in Resources(tree[from]) /\ parent \in {Root} \cup ToSet(tree[to].folders)
    /\ from = to => parent # id
    /\ from # to => Moving(tree[from], id) \cap Resources(tree[to]) = {}
    /\ target = Root \/ target \in Siblings(tree[to], parent, Moving(tree[from], id))

MayMove(from, to, id, parent, target) ==
    /\ id \in Resources(tree[from]) /\ parent \in {Root} \cup ToSet(tree[to].folders)
    /\ from = to => parent \notin Moving(tree[from], id)
    /\ from # to => Moving(tree[from], id) \cap Resources(tree[to]) = {}
    /\ target = Root \/ target \in Siblings(tree[to], parent, Moving(tree[from], id))

MovedWithin(c, id, parent, target, after) ==
    LET siblings == Siblings(c, parent, Moving(c, id))
    IN Sorted(ToSet(c.folders), ToSet(c.requests), [c.parent EXCEPT ![id] = parent], InsertResource(FullOrder(c), id, siblings, target, after))

MovedOut(c, moving) ==
    Sorted(ToSet(c.folders) \ moving, ToSet(c.requests) \ moving, Restrict(c.parent, DOMAIN c.parent \ moving), Without(FullOrder(c), moving))

MovedIn(source, c, id, parent, target, after) ==
    LET moving == Moving(source, id)
        parents == [x \in DOMAIN c.parent \cup moving |-> IF x = id THEN parent ELSE IF x \in moving THEN source.parent[x] ELSE c.parent[x]]
        order == InsertResource(FullOrder(c), id, Siblings(c, parent, moving), target, after)
    IN Sorted(ToSet(c.folders) \cup (ToSet(source.folders) \cap moving), ToSet(c.requests) \cup (ToSet(source.requests) \cap moving),
              parents, order \o Within(FullOrder(source), moving \ {id}))

MovedTree(from, to, id, parent, target, after) ==
    IF from = to THEN [tree EXCEPT ![to] = MovedWithin(tree[to], id, parent, target, after)]
    ELSE [tree EXCEPT ![from] = MovedOut(tree[from], Moving(tree[from], id)),
                      ![to] = MovedIn(tree[from], tree[to], id, parent, target, after)]

MoveResource(from, to, id, parent, target, after) ==
    /\ MayMove(from, to, id, parent, target)
    /\ tree' = MovedTree(from, to, id, parent, target, after)
    /\ UNCHANGED <<collectionOrder, activeId, testTarget>>

(* keyboardWorkspaceResourceMove: what each key moves beside.              *)
KeyboardMove(c, id, key) ==
    LET parent == tree[c].parent[id]
        siblings == Children(tree[c], parent)
        index == At(siblings, id)
        beside(k, after) == k \in DOMAIN siblings /\ k # index /\ MoveResource(c, c, id, parent, siblings[k], after)
    IN /\ id \in Resources(tree[c])
       /\ CASE key = "up" -> beside(index - 1, 0)
            [] key = "down" -> beside(index + 1, 1)
            [] key = "first" -> beside(1, 0)
            [] key = "last" -> beside(Len(siblings), 1)
            [] key = "indent" -> index > 1 /\ siblings[index - 1] \in ToSet(tree[c].folders)
                                 /\ MoveResource(c, c, id, siblings[index - 1], Root, 1)
            [] key = "outdent" -> parent # Root /\ MoveResource(c, c, id, tree[c].parent[parent], parent, 1)

MoveCollection(c, target, after) ==
    /\ c # target
    /\ collectionOrder' = LET rest == Without(collectionOrder, {c}) IN Placed(rest, At(rest, target) - 1 + after, <<c>>)
    /\ UNCHANGED <<tree, activeId, testTarget>>

-----------------------------------------------------------------------------
(* Handlers of App.tsx.                                                    *)
Used == UNION {Resources(tree[c]) : c \in TreeCollections}
\* Ids are random: any new one will do.
Fresh(ids, used) ==
    IF ids \subseteq used \/ Cardinality(used) >= MaxResources THEN {} ELSE {CHOOSE id \in ids : id \notin used}
HolderOf(id) == {c \in TreeCollections : id \in ToSet(tree[c].requests)}
With(c, id, parent) == [x \in DOMAIN c.parent \cup {id} |-> IF x = id THEN parent ELSE c.parent[x]]

AddRequest(id) ==
    LET holder == IF HolderOf(activeId) # {} THEN CHOOSE c \in HolderOf(activeId) : TRUE ELSE collectionOrder[1]
        c == tree[holder]
        beside == IF activeId \in ToSet(c.requests) THEN At(c.order, activeId) ELSE 0
    IN /\ id \in Fresh(TreeRequests, Used) /\ activeId' = id
       /\ tree' = [tree EXCEPT ![holder] =
             [c EXCEPT !.requests = Append(@, id), !.order = Placed(@, IF beside = 0 THEN Len(@) ELSE beside, <<id>>),
                       !.parent = With(c, id, IF activeId \in ToSet(c.requests) THEN c.parent[activeId] ELSE Root)]]
       /\ UNCHANGED <<collectionOrder, testTarget>>

AddFolder(c, id, parent) ==
    /\ id \in Fresh(TreeFolders, Used) /\ parent \in {Root} \cup ToSet(tree[c].folders)
    /\ tree' = [tree EXCEPT ![c] = [@ EXCEPT !.folders = Append(@, id), !.order = Append(@, id), !.parent = With(tree[c], id, parent)]]
    /\ UNCHANGED <<collectionOrder, activeId, testTarget>>

(* The folder editor offers every parent that is not below the folder.     *)
UpdateFolderParent(c, id, parent) ==
    /\ id \in ToSet(tree[c].folders) /\ parent \in {Root} \cup (ToSet(tree[c].folders) \ Subtree(tree[c], id))
    /\ tree' = [tree EXCEPT ![c].parent[id] = parent]
    /\ UNCHANGED <<collectionOrder, activeId, testTarget>>

DeleteFolder(c, id) ==
    /\ id \in ToSet(tree[c].folders)
    /\ tree' = [tree EXCEPT ![c] =
          [@ EXCEPT !.folders = Without(@, {id}), !.order = Without(@, {id}),
                    !.parent = [x \in DOMAIN @ \ {id} |-> IF @[x] = id THEN @[id] ELSE @[x]]]]
    /\ UNCHANGED <<collectionOrder, activeId, testTarget>>

(* duplicateWorkspaceFolder: copy maps what is copied to new ids.          *)
DuplicateFolder(c, id, copy) ==
    LET source == tree[c]
        copied == Descendants(source, id)
        order == FullOrder(source)
        parents == [x \in DOMAIN source.parent \cup Range(copy) |->
                      IF x \in DOMAIN source.parent THEN source.parent[x]
                      ELSE LET y == CHOOSE z \in copied : copy[z] = x IN IF y = id THEN source.parent[id] ELSE copy[source.parent[y]]]
        copies == LET s == Within(order, copied) IN [k \in DOMAIN s |-> copy[s[k]]]
    IN /\ tree' = [tree EXCEPT ![c] =
              Sorted(ToSet(source.folders) \cup (Range(copy) \cap TreeFolders), ToSet(source.requests) \cup (Range(copy) \cap TreeRequests),
                     parents, Placed(order, LastOf(order, copied), copies))]
       /\ UNCHANGED <<collectionOrder, activeId, testTarget>>
Copies(c, id) ==
    {copy \in Injection(Descendants(tree[c], id), (TreeFolders \cup TreeRequests) \ Used) :
        /\ \A x \in DOMAIN copy : (x \in TreeFolders) = (copy[x] \in TreeFolders)
        /\ Cardinality(Used) + Cardinality(DOMAIN copy) <= MaxResources}

DuplicateActive(id) ==
    \E c \in HolderOf(activeId) :
       /\ id \in Fresh(TreeRequests, Used) /\ activeId' = id
       /\ tree' = [tree EXCEPT ![c] =
             [@ EXCEPT !.requests = Placed(@, At(@, activeId), <<id>>),
                       !.order = Placed(@, IF At(@, activeId) = 0 THEN Len(@) ELSE At(@, activeId), <<id>>),
                       !.parent = With(tree[c], id, tree[c].parent[activeId])]]
       /\ UNCHANGED <<collectionOrder, testTarget>>

(* The neighbour becomes active, or the first request of the workspace, or *)
(* a blank one in the first collection; tests that named it name none.     *)
AllRequests(t) == FlattenSeq([k \in DOMAIN collectionOrder |-> t[collectionOrder[k]].requests])
DeleteActive(blank) ==
    \E c \in HolderOf(activeId) :
       LET index == At(tree[c].requests, activeId)
           left == Without(tree[c].requests, {activeId})
           removed == [tree EXCEPT ![c] = [@ EXCEPT !.requests = left, !.order = Without(@, {activeId}),
                                                    !.parent = Restrict(@, DOMAIN @ \ {activeId})]]
           first == collectionOrder[1]
       IN /\ blank \in Fresh(TreeRequests, Used \ {activeId})
          /\ testTarget' = IF testTarget = activeId THEN Root ELSE testTarget
          /\ IF AllRequests(removed) # <<>>
             THEN /\ tree' = removed
                  /\ activeId' = IF left # <<>> THEN left[IF index < Len(left) THEN index ELSE Len(left)] ELSE AllRequests(removed)[1]
             ELSE /\ tree' = [removed EXCEPT ![first] = [@ EXCEPT !.requests = <<blank>>, !.order = Append(@, blank),
                                                                  !.parent = With(removed[first], blank, Root)]]
                  /\ activeId' = blank
          /\ UNCHANGED collectionOrder

SelectRequest(id) == id \in Used \cap TreeRequests /\ activeId' = id /\ UNCHANGED <<tree, collectionOrder, testTarget>>

(* An imported project, or an empty one, which has no active request.      *)
TreeInit ==
    /\ collectionOrder = SetToSeq(TreeCollections)
    /\ \E start \in {Imported, EmptyCollection} :
          /\ tree = [c \in TreeCollections |-> IF c = collectionOrder[1] THEN start ELSE EmptyCollection]
          /\ activeId = IF start = EmptyCollection THEN Root ELSE start.requests[1]
    /\ testTarget = activeId

TreeNext ==
    \/ \E id \in TreeRequests : AddRequest(id) \/ DuplicateActive(id) \/ DeleteActive(id) \/ SelectRequest(id)
    \/ \E c, d \in TreeCollections :
          \/ \E after \in 0 .. 1 : MoveCollection(c, d, after)
          \/ \E id \in Resources(tree[c]), parent \in {Root} \cup ToSet(tree[d].folders) :
             \E target \in {Root} \cup Siblings(tree[d], parent, {id}) : \E after \in Sides(target) :
                MoveResource(c, d, id, parent, target, after)
    \/ \E c \in TreeCollections, id \in TreeFolders :
          \/ DeleteFolder(c, id)
          \/ \E parent \in {Root} \cup TreeFolders : AddFolder(c, id, parent) \/ UpdateFolderParent(c, id, parent)
          \/ id \in ToSet(tree[c].folders) /\ \E copy \in Copies(c, id) : DuplicateFolder(c, id, copy)
    \/ \E c \in TreeCollections, id \in Used, key \in {"up", "down", "first", "last", "indent", "outdent"} : KeyboardMove(c, id, key)

TreeSpec == TreeInit /\ [][TreeNext]_treeVars

-----------------------------------------------------------------------------
(* What the sidebar renders of a collection: the children of the root and  *)
(* of each folder shown.                                                   *)
Rendered(c) ==
    LET shown[n \in 0 .. Len(c.folders) + 1] ==
          IF n = 0 THEN {Root} ELSE shown[n - 1] \cup UNION {ToSet(Children(c, p)) : p \in shown[n - 1] \cap ({Root} \cup ToSet(c.folders))}
    IN shown[Len(c.folders) + 1] \ {Root}

(* No sequence of edits hides a resource: every folder and request of a    *)
(* collection is rendered, in one collection only, the active request and  *)
(* the request a test names exist (resources.ts, orderedCollectionChildren *)
(* and moveWorkspaceResource; App.tsx, the collection handlers).           *)
AllRendered ==
    /\ \A c \in TreeCollections : Rendered(tree[c]) = Resources(tree[c]) /\ DOMAIN tree[c].parent = Resources(tree[c])
    /\ \A c, d \in TreeCollections : c # d => Resources(tree[c]) \cap Resources(tree[d]) = {}
    /\ IF activeId = Root THEN Used \cap TreeRequests = {} ELSE HolderOf(activeId) # {}
    /\ testTarget # Root => HolderOf(testTarget) # {}

(* A move does what it shows: the resources of the workspace are the same, *)
(* the moved one stands beside its target or last among its new siblings,  *)
(* and the children of every other parent keep their order (resources.ts,  *)
(* moveWorkspaceResource).                                                 *)
MoveExact(new, from, to, id, parent, target, after) ==
    LET moved == Moving(tree[from], id)
        old == Without(Children(tree[to], parent), {id})
    IN /\ UNION {Resources(new[c]) : c \in TreeCollections} = Used
       /\ Children(new[to], parent) = Placed(old, IF target = Root THEN Len(old) ELSE At(old, target) - 1 + after, <<id>>)
       /\ \A p \in {Root} \cup ToSet(tree[from].folders) : p \notin moved /\ (to # from \/ p # parent) =>
             Children(new[from], p) = Without(Children(tree[from], p), {id})
       /\ \A p \in moved \cap TreeFolders : Children(new[to], p) = Children(tree[from], p)
MovesExact ==
    \A c, d \in TreeCollections : \A id \in Resources(tree[c]), parent \in {Root} \cup ToSet(tree[d].folders) :
       \A target \in {Root} \cup Siblings(tree[d], parent, Moving(tree[c], id)) : \A after \in Sides(target) :
          MayMove(c, d, id, parent, target) =>
             MoveExact(MovedTree(c, d, id, parent, target, after), c, d, id, parent, target, after)

(* Nothing is hidden and moves do what they show (resources.ts).           *)
TreeSound == AllRendered /\ MovesExact
=============================================================================
