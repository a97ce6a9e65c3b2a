----------------------------- MODULE CustomRoles -----------------------------
(***************************************************************************)
(* Custom V1 roles of one tenant and what the dual write makes of them:    *)
(* V2 roles (permission sets), BindingMappings and RoleBindings (a V2 role *)
(* bound to a workspace or to the tenant) and the replicated tuples.  An   *)
(* access row of a role is a permission with resource definitions; without *)
(* definitions the permission is bound at the scope of the permission.     *)
(* Every write locks the role rows first, so the writes do not overlap and *)
(* are single steps; removing a workspace is SERIALIZABLE and reads the    *)
(* roles that name it in a snapshot older than its lock.                   *)
(***************************************************************************)
EXTENDS Naturals, FiniteSets, SequencesExt

CONSTANTS CustomRoleIds, Members, Permissions, Standard,
          AccessLists,      \* access rows a request may send
          Settings,         \* scopes of the permissions a deployment may set
          V2Ids,            \* uuids of V2 roles
          Orders,           \* orders in which the resources of access rows are met
          LateReferences    \* may a role write that names a workspace commit while the
                            \* removal of the workspace waits for it?

VARIABLES db,         \* committed rows and the tuples replicated for them
          setting,    \* scope of each permission in the settings
          removing    \* the removal of a workspace that waits for its lock

customVars == <<db, setting, removing>>

DEFAULT == 1
ROOT == 2
TENANT == 3
ALL == 4

Builtin == {"default", "root"}

NoRemoval == [workspace |-> "none", roles |-> {}, stale |-> FALSE]

-----------------------------------------------------------------------------
(* Where a permission is bound                                             *)

\* binding_scopes_for_role, for permissions without wildcards
BindingScopes(perms, s) ==
    LET concrete == {s[p] : p \in perms} \ {ALL}
        scopes == IF concrete = {} THEN {DEFAULT} ELSE concrete
    IN IF {DEFAULT, ROOT} \subseteq scopes THEN scopes \ {DEFAULT} ELSE scopes

\* bound_model_for_scope
ModelFor(scope) ==
    IF scope = DEFAULT THEN "default" ELSE IF scope = ROOT THEN "root" ELSE "tenant"

\* with_workspace_scope_inheritance, looked up by bound_resource_resolver_from_map
ResourcesFor(scope, scopes) ==
    IF scope = ALL THEN {ModelFor(t) : t \in scopes}
    ELSE IF scope = DEFAULT /\ DEFAULT \notin scopes THEN {ModelFor(ROOT)}
    ELSE {ModelFor(scope)}

\* a definition with a workspace outside of the tenant is skipped as a whole, and so
\* is a definition of an attribute that is not a workspace
Targets(def, workspaces) ==
    IF def.key = "group.id" /\ def.ids \subseteq workspaces \cup Builtin THEN def.ids ELSE {}

\* v1_role_to_v2_bindings: the permissions to bind at each resource
Grouping(rows, s, workspaces) ==
    LET scopes == BindingScopes({a.perm : a \in rows}, s)
        At(a) == IF a.defs = {} THEN ResourcesFor(s[a.perm], scopes)
                 ELSE UNION {Targets(d, workspaces) : d \in a.defs}
    IN [res \in UNION {At(a) : a \in rows} |->
            {a.perm : a \in {b \in rows : res \in At(b)}}]

-----------------------------------------------------------------------------
(* Rows and tuples of a role                                               *)

Of(rows, r) == {x \in rows : x.role = r}

\* relation_tuples_for_bindings
MappingTuples(m) ==
    {<<"role", m.role, m.at, m.v2>>, <<"bound", m.role, m.at>>}
        \cup {<<"permission", m.v2, p>> : p \in m.perms}
        \cup {<<"subject", m.role, m.at, g>> : g \in m.groups}

\* role_owner_relationship
OwnerTuple(v) == <<"owner", v.id>>

AsTuples(maps, roles) == UNION {MappingTuples(m) : m \in maps} \cup {OwnerTuple(v) : v \in roles}

\* mutant: the owners of V2 roles are forgotten
CurrentTuplesNoOwner(d, r) == AsTuples(Of(d.mappings, r), {})

\* prepare_for_update: without mappings nothing is assumed to be replicated
CurrentTuples(d, r) ==
    IF Of(d.mappings, r) = {} THEN {} ELSE AsTuples(Of(d.mappings, r), Of(d.v2roles, r))

-----------------------------------------------------------------------------
(* permission_groupings_to_v2_role_bindings                                *)

\* the uuid of a V2 role made in this run or stored is not drawn again
Fresh(d, made) ==
    CHOOSE i \in V2Ids \ {v.id : v \in made \cup d.v2roles} : \A m \in d.mappings : m.v2 # i

\* mutant: the id of the mapping's V2 role is reused though an earlier resource
\* has taken it for another permission set
TargetRoleTaken(d, old, made) ==
    IF old # {} THEN (CHOOSE m \in old : TRUE).v2 ELSE Fresh(d, made)

\* _target_role_uuid_for
TargetRole(d, old, made) ==
    IF old # {} /\ \A v \in made, m \in old : v.id # m.v2
    THEN (CHOOSE m \in old : TRUE).v2 ELSE Fresh(d, made)

\* one resource: find or make the V2 role of its permissions, then bind it
BindResource(d, r, grouping, made, res) ==
    LET old == {m \in Of(d.mappings, r) : m.at = res}
        same == {v \in made.roles : v.perms = grouping[res]}
        v2 == IF same # {} THEN CHOOSE v \in same : TRUE
              ELSE [id |-> TargetRole(d, old, made.roles), role |-> r, perms |-> grouping[res]]
    IN [roles |-> made.roles \cup {v2},
        maps |-> made.maps \cup {[role |-> r, at |-> res, v2 |-> v2.id, perms |-> v2.perms,
                                  groups |-> d.assigned[r]]}]

Build(d, r, grouping, order) ==
    FoldLeft(LAMBDA made, res : BindResource(d, r, grouping, made, res),
             [roles |-> {}, maps |-> {}],
             SelectSeq(order, LAMBDA res : res \in DOMAIN grouping))

AsBindings(maps) ==
    {[role |-> m.role, at |-> m.at, v2 |-> m.v2, groups |-> m.groups] : m \in maps}

\* replicate_new_or_updated_role: rows and tuples of the role are replaced by those
\* of its access rows and groups in d; old is the state prepare_for_update saw
ReplicateRole(old, d, r, s, order) ==
    LET built == Build(d, r, Grouping(d.access[r], s, d.standing), order)
    IN [d EXCEPT !.mappings = (@ \ Of(@, r)) \cup built.maps,
                 !.bindings = (@ \ Of(@, r)) \cup AsBindings(built.maps),
                 !.v2roles = (@ \ Of(@, r)) \cup built.roles,
                 !.stored = (@ \ CurrentTuples(old, r)) \cup AsTuples(built.maps, built.roles)]

\* the same for the roles of DOMAIN rewritten, one after the other, each with its
\* access rows replaced
RewriteRoles(d, rewritten, s, order) ==
    FoldLeft(LAMBDA e, r :
                LET changed == [e EXCEPT !.access[r] = rewritten[r]]
                IN ReplicateRole(e, changed, r, s, order),
             d, SetToSeq(DOMAIN rewritten))

\* BindingMappings written before RoleBindings existed
Unmigrated(d, r) == Of(d.mappings, r) # {} /\ Of(d.bindings, r) = {}

\* the groups of a role change: _update_mappings_for_custom_role
Regroup(d, r, groups, s, order) ==
    LET policies == [d EXCEPT !.assigned[r] = groups]
        subjects(g) == {<<"subject", r, m.at, g>> : m \in Of(d.mappings, r)}
    IN IF Unmigrated(d, r) THEN ReplicateRole(d, policies, r, s, order)
       ELSE [policies EXCEPT
               !.mappings = (@ \ Of(@, r)) \cup {[m EXCEPT !.groups = groups] : m \in Of(@, r)},
               !.bindings = (@ \ Of(@, r)) \cup {[b EXCEPT !.groups = groups] : b \in Of(@, r)},
               !.stored = (@ \ UNION {subjects(g) : g \in d.assigned[r] \ groups})
                              \cup UNION {subjects(g) : g \in groups \ d.assigned[r]}]

-----------------------------------------------------------------------------
Empty ==
    [access |-> << >>, assigned |-> [r \in CustomRoleIds |-> {}], mappings |-> {},
     bindings |-> {}, v2roles |-> {}, standing |-> Standard, stored |-> {}]

\* a role of the time when only BindingMappings were written: no V2 roles or RoleBindings
Legacy(r, rows, s, order) ==
    LET d == [Empty EXCEPT !.access = [x \in {r} |-> rows]]
        maps == Build(d, r, Grouping(rows, s, Standard), order).maps
    IN [d EXCEPT !.mappings = maps, !.stored = AsTuples(maps, {})]

CustomInit ==
    /\ setting \in Settings /\ removing = NoRemoval
    /\ \/ db = Empty
       \/ \E r \in CustomRoleIds, rows \in AccessLists, order \in Orders :
             db = Legacy(r, rows, setting, order)

Roles == DOMAIN db.access

Named(rows) == UNION {def.ids : def \in UNION {a.defs : a \in rows}}

\* validate_role; it locks the workspaces, so it waits for a removal under way
Valid(rows) ==
    /\ Named(rows) \subseteq db.standing \cup Builtin
    /\ LateReferences \/ removing.workspace \notin Named(rows)

\* rows of these roles are written: a removal that has read them will not commit
Overtake(roles) ==
    removing' = [removing EXCEPT !.stale = @ \/ roles \cap removing.roles # {}]

\* serializer.create, then the dual write of the new role
CreateRole(r, rows, order) ==
    /\ r \notin Roles /\ Valid(rows)
    /\ db' = LET d == [db EXCEPT !.access = [x \in Roles \cup {r} |-> IF x = r THEN rows ELSE @[x]]]
             IN ReplicateRole(d, d, r, setting, order)
    /\ UNCHANGED <<setting, removing>>

UpdateRole(r, rows, order) ==
    /\ r \in Roles /\ Valid(rows)
    /\ db' = RewriteRoles(db, [x \in {r} |-> rows], setting, order)
    /\ Overtake({r}) /\ UNCHANGED setting

\* PATCH and migrate_custom_role_bindings: the bindings follow the settings in force
RefreshRole(r, order) ==
    /\ r \in Roles
    /\ db' = RewriteRoles(db, [x \in {r} |-> db.access[x]], setting, order)
    /\ Overtake({r}) /\ UNCHANGED setting

\* perform_destroy: without access rows nothing is replicated; rows go by cascade
DeleteRole(r) ==
    /\ r \in Roles
    /\ db' = [db EXCEPT !.access = [x \in Roles \ {r} |-> @[x]], !.assigned[r] = {},
                        !.mappings = @ \ Of(@, r), !.bindings = @ \ Of(@, r),
                        !.v2roles = @ \ Of(@, r),
                        !.stored = @ \ (IF db.access[r] = {} THEN {} ELSE CurrentTuples(db, r))]
    /\ Overtake({r}) /\ UNCHANGED setting

\* delete_permission: every role that has it loses the access row
DeletePermission(p, order) ==
    LET having == {r \in Roles : \E a \in db.access[r] : a.perm = p}
    IN /\ having # {}
       /\ db' = RewriteRoles(db, [x \in having |-> {a \in db.access[x] : a.perm # p}],
                             setting, order)
       /\ Overtake(having) /\ UNCHANGED setting

\* add_roles and remove_roles of a group
AddRole(r, g, order) ==
    /\ r \in Roles /\ g \notin db.assigned[r]
    /\ db' = Regroup(db, r, db.assigned[r] \cup {g}, setting, order)
    /\ Overtake({r}) /\ UNCHANGED setting

RemoveRole(r, g, order) ==
    /\ r \in Roles /\ g \in db.assigned[r]
    /\ db' = Regroup(db, r, db.assigned[r] \ {g}, setting, order)
    /\ Overtake({r}) /\ UNCHANGED setting

\* a group is deleted: it leaves each of its roles
DeleteGroup(g, order) ==
    LET held == {r \in Roles : g \in db.assigned[r]}
    IN /\ held # {}
       /\ db' = FoldLeft(LAMBDA d, r : Regroup(d, r, d.assigned[r] \ {g}, setting, order),
                         db, SetToSeq(held))
       /\ Overtake(held) /\ UNCHANGED setting

\* a deployment with other scopes; roles keep their bindings until they are refreshed
ChangeSettings(s) ==
    /\ s # setting /\ setting' = s
    /\ UNCHANGED <<db, removing>>

\* WorkspaceService.destroy asks for the lock of the workspace: its snapshot is taken
BeginRemoval(w) ==
    /\ removing = NoRemoval /\ w \in db.standing
    /\ removing' = [workspace |-> w, stale |-> FALSE,
                    roles |-> {r \in Roles : w \in Named(db.access[r])}]
    /\ UNCHANGED <<db, setting>>

Without(rows, w) ==
    {[a EXCEPT !.defs = {[def EXCEPT !.ids = @ \ {w}] : def \in @}] : a \in rows}

\* mutant: the workspace is deleted and the roles that name it are left alone
RolesToCleanNone == {}

RolesToClean == removing.roles

\* the lock is granted: _update_custom_roles_for_removed_workspace, then the delete
FinishRemoval(order) ==
    /\ removing # NoRemoval /\ ~removing.stale
    /\ LET w == removing.workspace
           d == RewriteRoles(db, [x \in RolesToClean |-> Without(db.access[x], w)], setting, order)
       IN db' = [d EXCEPT !.standing = @ \ {w}]
    /\ removing' = NoRemoval /\ UNCHANGED setting

\* a role it read has been written since: "could not serialize access"
AbortRemoval ==
    /\ removing.stale
    /\ removing' = NoRemoval
    /\ UNCHANGED <<db, setting>>

CustomNext ==
    \/ \E order \in Orders :
         \/ \E r \in CustomRoleIds :
              \/ \E rows \in AccessLists : CreateRole(r, rows, order) \/ UpdateRole(r, rows, order)
              \/ RefreshRole(r, order)
              \/ \E g \in Members : AddRole(r, g, order) \/ RemoveRole(r, g, order)
         \/ \E p \in Permissions : DeletePermission(p, order)
         \/ \E g \in Members : DeleteGroup(g, order)
         \/ FinishRemoval(order)
    \/ \E r \in CustomRoleIds : DeleteRole(r)
    \/ \E s \in Settings : ChangeSettings(s)
    \/ \E w \in Standard : BeginRemoval(w)
    \/ AbortRemoval

CustomSpec == CustomInit /\ [][CustomNext]_customVars

-----------------------------------------------------------------------------
(* Properties                                                              *)

Granted(r, g, p, at) ==
    \E v \in V2Ids : {<<"subject", r, at, g>>, <<"bound", r, at>>, <<"role", r, at, v>>,
                      <<"permission", v, p>>} \subseteq db.stored

\* A group gets a permission on a resource through the tuples (subject of a binding,
\* its V2 role, the permissions of that role) exactly when a V1 role it holds grants
\* it there: V2 roles shared by several bindings, reused ids and tuples taken away
\* with one binding never add or lose access.  Roles wait for their migration when
\* the settings change, so each role is read with one of the settings.
TuplesGrantV1Access ==
    \A r \in Roles : \E s \in Settings :
        LET grouping == Grouping(db.access[r], s, Standard)
        IN \A g \in Members, p \in Permissions, at \in Standard \cup Builtin \cup {"tenant"} :
              Granted(r, g, p, at) <=>
                  g \in db.assigned[r] /\ at \in DOMAIN grouping /\ p \in grouping[at]

\* Nothing is left behind: the tuples are those of the rows, and the RoleBindings
\* mirror the BindingMappings, unless the role is still to be migrated.
RowsAndTuplesAgree ==
    /\ db.stored = AsTuples(db.mappings, db.v2roles)
    /\ \A r \in CustomRoleIds :
         Unmigrated(db, r) \/ Of(db.bindings, r) = AsBindings(Of(db.mappings, r))

\* No role is bound to a workspace that was deleted: destroy() locks the workspace
\* "to prevent concurrent modifications or referencing by new/updated roles".
BoundWorkspacesStand ==
    \A m \in db.mappings : m.at \in db.standing \cup Builtin \cup {"tenant"}

=============================================================================
