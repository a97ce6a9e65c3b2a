--------------------------- MODULE WorkspaceAccess ---------------------------
(***************************************************************************)
(* Who may do what to a workspace or to the role bindings on it: the       *)
(* permission classes, the filter of workspace lists, V1 decisions from    *)
(* roles and the tree in the database, V2 decisions from Kessel, which     *)
(* learns of changes to the tree later and may be out of reach.            *)
(***************************************************************************)
EXTENDS Naturals, FiniteSets

CONSTANTS InitialTree,  \* workspace -> parent, "none" above "root"
          Callers,      \* the callers considered, [system, admin]
          GrantSets,    \* what the roles of the caller grant
          Switches,     \* feature flags: [v2, fine, tenantAuth]
          MaxTreeChanges

VARIABLES spaces,       \* Workspace rows: the parent of each
          known,        \* the same as Kessel knows it
          grants,       \* accesses of the caller's roles, a member of GrantSets
          caller, switch,
          changes,
          reachable,    \* whether the Inventory API answers
          answer        \* the last request and its outcome

accessVars == <<spaces, known, grants, caller, switch, changes, reachable, answer>>

FallbackWorkspaces == {"root", "default", "ungrouped"} \cap DOMAIN spaces
NoAnswer == [kind |-> "none", on |-> {}, allowed |-> FALSE, listed |-> {}]

Lineage(tree, w) ==
    LET up[x \in DOMAIN tree] == IF tree[x] = "none" THEN {x} ELSE {x} \cup up[tree[x]]
    IN up[w]
AncestorIds(tree, w) == Lineage(tree, w) \ {w}
DescendantIds(tree, w) == {d \in DOMAIN tree : w \in Lineage(tree, d)}

AccessInit ==
    /\ spaces = InitialTree /\ known = InitialTree
    /\ grants \in GrantSets /\ caller \in Callers /\ switch \in Switches
    /\ changes = 0 /\ reachable = TRUE /\ answer = NoAnswer

-----------------------------------------------------------------------------
(* V1: is_user_allowed_v1                                                  *)

\* _get_group_list_from_resource_definitions: the workspaces an access names, the
\* root workspace when it names none
GroupList(g) == IF g.on \ {"null"} = {} THEN {"root"} ELSE g.on \ {"null"}


\* get_access_permission_tuples
AccessTuples(g, isRead) ==
    UNION {{<<g.op, w>> : w \in DescendantIds(spaces, s)
                              \cup IF isRead THEN AncestorIds(spaces, s) ELSE {}} :
           s \in GroupList(g) \cap DOMAIN spaces}

\* workspace_permission_tuple_set: accesses to inventory groups
PermissionTuples(isRead) ==
    UNION {AccessTuples(g, isRead) : g \in {h \in grants : h.op \in {"read", "write", "*"}}}

AllowedV1(operation, w) == \E op \in {operation, "*"} : <<op, w>> \in PermissionTuples(operation = "read")

\* WorkspaceAccessFilterBackend._filter_v1
ListedV1 == {t[2] : t \in PermissionTuples(TRUE)}

-----------------------------------------------------------------------------
(* V2: is_user_allowed_v2 and the Inventory API                            *)

\* Kessel: a permission reaches a workspace from bindings on it and above it; an access
\* without definitions is bound to the default workspace
Ops(relation) ==
    CASE relation = "view" -> {"read", "*"}
      [] relation \in {"create", "edit", "move", "delete"} -> {"write", "*"}
      [] OTHER -> {relation}
BoundTo(g) == IF g.on = {} THEN {"default"}
              ELSE {IF w = "null" THEN "ungrouped" ELSE w : w \in g.on}
Granted(relation) ==
    {w \in DOMAIN known : \E g \in grants :
        g.op \in Ops(relation) /\ BoundTo(g) \cap Lineage(known, w) # {}}

\* check_resource_access, lookup_accessible_workspaces: no answer is no access
CheckForUpdate(relation, w) == reachable /\ w \in Granted(relation)
StreamedListObjects(relation) == IF reachable THEN Granted(relation) ELSE {}

\* a single workspace; the built-in ones may be viewed by everyone
AllowedV2(relation, w) ==
    \/ CheckForUpdate(relation, w)
    \/ relation = "view" /\ w \in FallbackWorkspaces

\* filter_top_level_workspaces
TopLevel(ids) == {w \in ids : AncestorIds(spaces, w) \cap ids = {}}


\* ancestor_ids_for_workspaces
WithAncestors(ids) == ids \cup UNION {AncestorIds(spaces, w) : w \in TopLevel(ids)}

\* the list operation with and without ancestry
ListedV2(withAncestry) ==
    LET ids == StreamedListObjects("view") \cap DOMAIN spaces IN
    IF ~withAncestry THEN ids
    ELSE IF ids = {} THEN FallbackWorkspaces ELSE WithAncestors(ids)

-----------------------------------------------------------------------------
(* WorkspaceAccessPermission and WorkspaceAccessFilterBackend              *)

Answered(kind, on, allowed, listed) ==
    /\ answer = NoAnswer    \* requests do not change what the next one meets
    /\ answer' = [kind |-> kind, on |-> on, allowed |-> allowed,
                  listed |-> IF allowed THEN listed ELSE {}]
    /\ UNCHANGED <<spaces, known, grants, caller, switch, changes, reachable>>

\* list, query
List(withAncestry) ==
    IF ~switch.v2
    THEN IF caller.admin THEN Answered("list", {}, TRUE, DOMAIN spaces)
         ELSE Answered("list", {}, AllowedV1("read", "root"), ListedV1)
    ELSE IF caller.system THEN Answered("list", {}, caller.admin, DOMAIN spaces)
         ELSE Answered(IF withAncestry THEN "tree" ELSE "list", {},
                       ListedV2(withAncestry) # {}, ListedV2(withAncestry))

\* permission_from_request, operation_from_request; a move is a POST, thus "create"
Relation(kind) == CASE kind = "retrieve" -> "view" [] kind = "update" -> "edit"
                    [] kind = "destroy" -> "delete" [] kind = "move" -> "create"
Operation(kind) == IF kind = "retrieve" THEN "read" ELSE "write"

\* one workspace the caller may reach; move has also a target
SourceAllowed(kind, w) ==
    IF ~switch.v2 THEN caller.admin \/ AllowedV1(Operation(kind), w)
    ELSE IF caller.system THEN caller.admin ELSE AllowedV2(Relation(kind), w)

Detail(kind, w) ==
    Answered(kind, {w}, w \in DOMAIN spaces /\ SourceAllowed(kind, w), {})

\* _check_move_target_access_v1, _check_move_target_access_v2, _check_move_target_exists_v1
TargetAllowed(w) ==
    IF caller.admin /\ (caller.system \/ ~switch.v2) THEN w \in DOMAIN spaces
    ELSE IF ~switch.v2 THEN AllowedV1("write", w)
    ELSE ~caller.system /\ AllowedV2("create", w)

MoveRequest(w, target) ==
    Answered("move", {w, target},
             w \in DOMAIN spaces /\ SourceAllowed("move", w) /\ TargetAllowed(target), {})

\* create checks the parent, the default workspace when none is given
CreateRequest(parent) ==
    Answered("create", {parent},
             IF ~switch.v2 THEN caller.admin \/ AllowedV1("write", parent)
             ELSE IF caller.system THEN caller.admin ELSE AllowedV2("create", parent), {})

-----------------------------------------------------------------------------
(* RoleBindingSystemUserAccessPermission, RoleBindingKesselAccessPermission *)

\* _check_single_resource; the tenant itself needs an org admin unless Kessel decides
SingleResource(relation, r) ==
    IF r = "tenant"
    THEN IF switch.tenantAuth
         THEN reachable /\ \E g \in grants : g.op \in Ops(relation) /\ "tenant" \in g.on
         ELSE caller.admin
    ELSE r \in DOMAIN spaces /\ CheckForUpdate(relation, r)

NotSystemOnly == caller.system => caller.admin

\* _check_batch_create_permission
BatchCreate(resources) ==
    Answered("batch", resources,
             NotSystemOnly /\ \A r \in resources :
                SingleResource(IF switch.fine THEN "role_binding_grant" ELSE "create", r), {})

\* _check_by_subject_write_permission
BySubject(r) ==
    Answered("replace", {r},
             NotSystemOnly /\ IF switch.fine
                THEN SingleResource("role_binding_grant", r) /\ SingleResource("role_binding_revoke", r)
                ELSE SingleResource("edit", r), {})

-----------------------------------------------------------------------------
(* What changes under the requests                                         *)

Change(tree) ==
    /\ changes < MaxTreeChanges
    /\ changes' = changes + 1
    /\ spaces' = tree /\ answer' = NoAnswer
    /\ UNCHANGED <<known, grants, caller, switch, reachable>>

MoveWorkspace(w, p) ==
    /\ w \notin FallbackWorkspaces /\ p \notin DescendantIds(spaces, w) \cup {"root", "ungrouped"}
    /\ Change([spaces EXCEPT ![w] = p])

DeleteWorkspace(w) ==
    /\ w \notin FallbackWorkspaces /\ DescendantIds(spaces, w) = {w}
    /\ Change([x \in DOMAIN spaces \ {w} |-> spaces[x]])

Replicated ==
    /\ known # spaces
    /\ known' = spaces /\ answer' = NoAnswer
    /\ UNCHANGED <<spaces, grants, caller, switch, changes, reachable>>

LoseInventory ==
    /\ switch.v2 /\ reachable
    /\ reachable' = FALSE /\ answer' = NoAnswer
    /\ UNCHANGED <<spaces, known, grants, caller, switch, changes>>

AccessNext ==
    \/ \E ancestry \in BOOLEAN : List(ancestry)
    \/ \E w \in DOMAIN InitialTree :
         \/ \E kind \in {"retrieve", "update", "destroy"} : Detail(kind, w)
         \/ CreateRequest(w) \/ BySubject(w)
         \/ \E p \in DOMAIN InitialTree : MoveRequest(w, p) \/ BatchCreate({w, p})
         \/ \E p \in DOMAIN spaces : w \in DOMAIN spaces /\ MoveWorkspace(w, p)
         \/ w \in DOMAIN spaces /\ DeleteWorkspace(w)
    \/ BySubject("tenant") \/ BatchCreate({"tenant", "default"})
    \/ Replicated \/ LoseInventory

AccessSpec == AccessInit /\ [][AccessNext]_accessVars

-----------------------------------------------------------------------------
(* Properties                                                              *)

\* A change (edit, move, delete, create, bind) is let through only when every workspace
\* it touches, source and target of a move and each resource of a batch, has a grant for
\* the operation on itself or above it.  Grants on a child reach upwards only for reading
\* although V1 computes both from one set of tuples, and a failed Inventory call denies.
Needed(kind) ==
    CASE kind = "batch" -> {IF switch.fine THEN "role_binding_grant" ELSE "write"}
      [] kind = "replace" -> IF switch.fine THEN {"role_binding_grant", "role_binding_revoke"} ELSE {"write"}
      [] OTHER -> {"write"}
HasGrant(op, w) ==
    LET tree == IF switch.v2 \/ answer.kind \in {"batch", "replace"} THEN known ELSE spaces IN
    w \in DOMAIN tree /\ \E g \in grants :
        /\ g.op = op \/ (op = "write" /\ g.op = "*")
        /\ (GroupList(g) \cup BoundTo(g)) \cap Lineage(tree, w) # {}


=============================================================================
