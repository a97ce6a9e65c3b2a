------------------------------ MODULE Workspaces ------------------------------
(***************************************************************************)
(* The tree of workspaces of one tenant (management/workspace).  Creation, *)
(* move and deletion are SERIALIZABLE transactions: each reads a snapshot, *)
(* PostgreSQL lets it commit unless a concurrent transaction that committed*)
(* wrote the same row, or each of the two read what the other wrote.  The  *)
(* update of names is READ COMMITTED with a row lock.  Every commit appends*)
(* parent tuples for Kessel and events for the services that keep a copy   *)
(* of the workspaces (HBI, external).                                      *)
(***************************************************************************)
EXTENDS Naturals, FiniteSets, FiniteSetsExt

CONSTANTS StandardIds,     \* ids of standard workspaces
          Names,           \* names of new workspaces
          Renames,         \* the renames clients ask for, <<id, name>>
          DepthLimit, CountLimit,
          RestrictPeers,   \* WORKSPACE_RESTRICT_DEFAULT_PEERS
          Writers          \* requests that run at the same time

VARIABLES tree,            \* rows: id -> [parent, name, type]
          parents,         \* parent tuples of Kessel
          mirror,          \* names of the workspaces HBI knows
          writing          \* SERIALIZABLE transactions under way

treeVars == <<tree, parents, mirror, writing>>

Root == "root"
Default == "default"
Ungrouped == "ungrouped"
None == "none"

Exists(t, w) == w \in DOMAIN t
Kids(t, w) == {x \in DOMAIN t : t[x].parent = w}

\* ancestors and descendants of model.py: recursive queries with UNION
Ancestors(t, w) ==
    LET up[S \in SUBSET DOMAIN t] ==
          LET next == S \cup {t[x].parent : x \in {x \in S \cup {w} : t[x].parent # None}}
          IN IF next = S THEN S ELSE up[next]
    IN up[{}]

Descendants(t, w) == {x \in DOMAIN t : w \in Ancestors(t, x)}

\* get_max_descendant_depth
Height(t, w) ==
    LET d(x) == Cardinality(Ancestors(t, x) \cap Descendants(t, w)) + 1
    IN Max({0} \cup {d(x) : x \in Descendants(t, w)})

Put(t, w, row) == [x \in DOMAIN t \cup {w} |-> IF x = w THEN row ELSE t[x]]
Drop(f, w) == [x \in DOMAIN f \ {w} |-> f[x]]
NameTaken(t, w, n, p) == \E x \in Kids(t, p) \ {w} : t[x].name = n

(************************** what a transaction does ***********************)
Standard(t) == {x \in DOMAIN t : t[x].type = "standard"}

\* _enforce_hierarchy_depth
DepthAllowed(t, p) ==
    /\ Cardinality(Ancestors(t, p)) + 1 <= DepthLimit
    /\ ~(RestrictPeers /\ p = Root)

\* What a transaction reads in its snapshot and writes: rows, the set of the
\* children of a workspace, and the set of all rows
Row(w) == <<"row", w>>
KidsOf(w) == <<"kids", w>>
AllRows == <<"all", Root>>

ReadSet(t, q) ==
    CASE q.kind = "create"  -> {AllRows} \cup {Row(x) : x \in {q.parent} \cup Ancestors(t, q.parent)}
      [] q.kind = "move"    -> {Row(x) : x \in {q.id, q.parent} \cup Ancestors(t, q.parent)}
                                 \cup {KidsOf(x) : x \in {q.id} \cup Descendants(t, q.id)}
      [] q.kind = "destroy" -> {Row(q.id), KidsOf(q.id)}

WriteSet(t, q) ==
    CASE q.kind = "create"  -> {Row(q.id), KidsOf(q.parent), AllRows}
      [] q.kind = "move"    -> {Row(q.id), KidsOf(q.parent), KidsOf(t[q.id].parent)}
      [] q.kind = "destroy" -> {Row(q.id), KidsOf(t[q.id].parent), AllRows}

\* The checks of create, move and destroy on the snapshot (service.py), and
\* clean of model.py: a workspace is not its own parent
Allowed(t, q) ==
    CASE q.kind = "create"  -> /\ Exists(t, q.parent) /\ DepthAllowed(t, q.parent)
                               /\ Cardinality(Standard(t)) < CountLimit
      [] q.kind = "move"    -> /\ Exists(t, q.id) /\ t[q.id].type = "standard"
                               /\ Exists(t, q.parent) /\ q.parent # q.id
                               /\ q.parent \notin Descendants(t, q.id)
                               /\ DepthAllowed(t, q.parent)
                               /\ Cardinality(Ancestors(t, q.parent)) + 1 + Height(t, q.id) <= DepthLimit
      [] q.kind = "destroy" -> Exists(t, q.id) /\ t[q.id].type = "standard" /\ Kids(t, q.id) = {}

Idle == [kind |-> "idle"]
Active == {r \in Writers : writing[r] # Idle}

\* _create_atomic, _move_atomic, destroy: the first statement takes the snapshot
Begin(r, kind, id, p, n) ==
    /\ writing[r] = Idle
    /\ (kind = "create") = (id \notin DOMAIN tree)
    /\ \A s \in Active : writing[s].id # id    \* a row lock, or another uuid
    /\ LET q == [kind |-> kind, id |-> id, parent |-> p, name |-> n]
       IN /\ Allowed(tree, q)                     \* otherwise the request is refused
          /\ writing' = [writing EXCEPT ![r] =
               [kind |-> kind, id |-> id, parent |-> p, name |-> n,
                reads |-> ReadSet(tree, q), writes |-> WriteSet(tree, q), out |-> FALSE, in |-> FALSE]]
    /\ UNCHANGED <<tree, parents, mirror>>


\* PostgreSQL lets r commit: it is not the pivot of a dangerous structure, one
\* that read what a concurrent transaction wrote and committed, and wrote what
\* a concurrent one read
Serializable(r) ==
    LET q == writing[r]
    IN q.out => /\ ~q.in
                /\ \A s \in Active \ {r} : writing[s].reads \cap q.writes = {}

\* After the commit of r
Overtaken(r) ==
    LET c == writing[r]
    IN [s \in Writers |->
          IF s = r \/ writing[s] = Idle THEN Idle
          ELSE [writing[s] EXCEPT !.out = @ \/ writing[s].reads \cap c.writes # {},
                                  !.in  = @ \/ writing[s].writes \cap c.reads # {}]]

\* Workspace.objects.create, replicate_new_workspace
CommitCreate(r) ==
    LET q == writing[r]
    IN /\ q.kind = "create" /\ Serializable(r)
       /\ IF NameTaken(tree, q.id, q.name, q.parent)            \* unique_workspace_name_per_parent
          THEN writing' = [writing EXCEPT ![r] = Idle] /\ UNCHANGED <<tree, parents, mirror>>
          ELSE /\ tree' = Put(tree, q.id, [parent |-> q.parent, name |-> q.name, type |-> "standard"])
               /\ parents' = parents \cup {<<q.id, q.parent>>}
               /\ mirror' = Put(mirror, q.id, q.name)
               /\ writing' = Overtaken(r)

\* mutant: the new parent tuple is added, the old one is left
MovedTuplesKept(id, old, new) == parents \cup {<<id, new>>}

\* generate_relations_to_update_workspace
MovedTuples(id, old, new) ==
    IF old = new THEN parents ELSE (parents \ {<<id, old>>}) \cup {<<id, new>>}

\* move: the tuples change, no event is sent
CommitMove(r) ==
    LET q == writing[r]
        row == tree[q.id]
    IN /\ q.kind = "move" /\ Serializable(r)
       /\ IF NameTaken(tree, q.id, row.name, q.parent)
          THEN writing' = [writing EXCEPT ![r] = Idle] /\ UNCHANGED <<tree, parents>>
          ELSE /\ tree' = Put(tree, q.id, [row EXCEPT !.parent = q.parent])
               /\ parents' = MovedTuples(q.id, row.parent, q.parent)
               /\ writing' = Overtaken(r)
       /\ UNCHANGED mirror

\* destroy, replicate_deleted_workspace
CommitDestroy(r) ==
    LET q == writing[r]
    IN /\ q.kind = "destroy" /\ Serializable(r)
       /\ tree' = Drop(tree, q.id)
       /\ parents' = parents \ {<<q.id, tree[q.id].parent>>}
       /\ mirror' = Drop(mirror, q.id)
       /\ writing' = Overtaken(r)

\* A serialization failure, or the client goes; retries begin anew
Abort(r) ==
    /\ writing[r] # Idle
    /\ writing' = [writing EXCEPT ![r] = Idle]
    /\ UNCHANGED <<tree, parents, mirror>>

\* replicate_updated_workspace: a create event precedes the update of the
\* default workspace; HBI ignores a create for a workspace it knows and an
\* update for one it does not know
SentOnUpdate(w, n) ==
    IF w \in DOMAIN mirror \/ tree[w].type = "default" THEN Put(mirror, w, n) ELSE mirror

\* update: waits for the lock of a row that a move or destroy holds
Rename(w, n) ==
    /\ Exists(tree, w) /\ tree[w].type \notin {"root", "ungrouped-hosts"}
    /\ \A r \in Active : writing[r].kind # "create" => writing[r].id # w
    /\ ~NameTaken(tree, w, n, tree[w].parent)
    /\ tree' = [tree EXCEPT ![w].name = n]
    /\ mirror' = SentOnUpdate(w, n)
    /\ UNCHANGED <<parents, writing>>

\* create_ungrouped_workspace of the bootstrap service: a tuple, no event
CreateUngrouped ==
    /\ ~Exists(tree, Ungrouped) /\ ~NameTaken(tree, Ungrouped, Ungrouped, Default)
    /\ tree' = Put(tree, Ungrouped, [parent |-> Default, name |-> Ungrouped, type |-> "ungrouped-hosts"])
    /\ parents' = parents \cup {<<Ungrouped, Default>>}
    /\ UNCHANGED <<mirror, writing>>

(***************************** specification ******************************)
\* A bootstrapped tenant; older tenants had no event for the default workspace
TreeInit ==
    /\ tree = [w \in {Root, Default} |->
                 IF w = Root THEN [parent |-> None, name |-> Root, type |-> "root"]
                             ELSE [parent |-> Root, name |-> Default, type |-> "default"]]
    /\ parents = {<<Default, Root>>}
    /\ mirror \in {[w \in {Default} |-> Default], [w \in {} |-> Default]}
    /\ writing = [r \in Writers |-> Idle]

TreeNext ==
    \/ \E r \in Writers, id \in StandardIds, p \in DOMAIN tree :
         \/ \E n \in Names : Begin(r, "create", id, p, n)
         \/ Begin(r, "move", id, p, None)
    \/ \E r \in Writers, id \in StandardIds : Begin(r, "destroy", id, None, None)
    \/ \E r \in Writers : CommitCreate(r) \/ CommitMove(r) \/ CommitDestroy(r) \/ Abort(r)
    \/ \E e \in Renames : Rename(e[1], e[2])
    \/ CreateUngrouped

TreeSpec == TreeInit /\ [][TreeNext]_treeVars


(* Both copies of the tree follow it after any order of creations, moves,   *)
(* renames and deletions: Kessel holds one parent tuple per workspace, that *)
(* of its row (the dual-write handler is told the parent a workspace had    *)
(* before the move); the services that follow the workspace events know     *)
(* every standard workspace and no other one, a renamed default workspace,  *)
(* and the current name of each workspace they know.                        *)
MirrorsFollowTree ==
    /\ parents = {<<w, tree[w].parent>> : w \in DOMAIN tree \ {Root}}
    /\ DOMAIN mirror \ {Default} = Standard(tree)
    /\ \A w \in DOMAIN mirror : mirror[w] = tree[w].name
    /\ tree[Default].name # Default => Default \in DOMAIN mirror

=============================================================================
