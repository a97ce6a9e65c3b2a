------------------------------ MODULE Seeding ------------------------------
(***************************************************************************)
(* Seeding of permissions, system roles and default groups.  Every         *)
(* deployment carries definition files and scope settings; during a        *)
(* rollout instances of two deployments may seed at the same time.  Roles  *)
(* are seeded one SERIALIZABLE transaction each, with the V2 role, its     *)
(* parents and the relations; a run may fail between transactions.         *)
(***************************************************************************)
EXTENDS Naturals, FiniteSets

CONSTANTS Deployments,  \* name -> [permissions, roles, scope]
          RoleNames,
          MaxSeedRuns, MaxSeedFailures

VARIABLES rolesV1,      \* Role rows of the public tenant, with their accesses
          rolesV2,      \* SeededRoleV2 rows: permissions and platform parents
          permissions,  \* Permission rows
          defaultGroups,\* roles of the default groups, {} until they exist
          kesselRoles,  \* relations of the system roles
          destructive,  \* DESTRUCTIVE_SEEDING_OK_UNTIL is not over
          seeder,       \* the run of each deployment
          runs, failures

seedVars == <<rolesV1, rolesV2, permissions, defaultGroups, kesselRoles, destructive,
              seeder, runs, failures>>

Absent == [exists |-> FALSE]
AccessTypes == {"platform", "admin"}
CONCRETE_SCOPES == {"default", "root", "tenant"}
Definition(d, r) == Deployments[d].roles[r]
Off == [step |-> "off", seen |-> {}, todo |-> {}, force |-> "none", clean |-> FALSE]

SeedInit ==
    /\ rolesV1 = [r \in RoleNames |-> Absent] /\ rolesV2 = [r \in RoleNames |-> Absent]
    /\ permissions = {} /\ kesselRoles = {}
    /\ defaultGroups = [exists |-> FALSE, platform |-> {}, admin |-> {}]
    /\ destructive \in BOOLEAN
    /\ seeder = [d \in DOMAIN Deployments |-> Off]
    /\ runs = 0 /\ failures = 0

\* a step of d disturbs the runs of the others
Steps(d, new) ==
    seeder' = [e \in DOMAIN Deployments |->
                 IF e = d THEN new ELSE [seeder[e] EXCEPT !.clean = FALSE]]

\* binding_scopes_for_role with the settings of d
BindingScopes(d, access) ==
    LET scope == Deployments[d].scope IN
    IF access = {} THEN {"default"}
    ELSE {IF p \in DOMAIN scope THEN scope[p] ELSE "default" : p \in access}

-----------------------------------------------------------------------------
(* SeedingInventoryApiDualWriteHandler                                     *)

PermissionTuples(r, row) == {<<"permission", r, p>> : p \in row.access}

\* mutant: parents are removed only where the settings of today place the role
ParentTuplesToRemoveNow(d, r, row) ==
    {<<"child", t, s, r>> : t \in AccessTypes \cap row.defaults, s \in BindingScopes(d, row.access)}

\* _check_create_admin_platform_relation with for_removal: every scope
ParentTuplesToRemove(d, r, row) ==
    {<<"child", t, s, r>> : t \in AccessTypes \cap row.defaults, s \in CONCRETE_SCOPES}

ParentTuples(d, r, row) ==
    {<<"child", t, s, r>> : t \in AccessTypes \cap row.defaults, s \in BindingScopes(d, row.access)}

RelationsToRemove(d, r, row) == ParentTuplesToRemove(d, r, row) \cup PermissionTuples(r, row)
RelationsToAdd(d, r, row) == ParentTuples(d, r, row) \cup PermissionTuples(r, row)

-----------------------------------------------------------------------------
(* seed_permissions                                                        *)

StartSeeding(d) ==
    /\ seeder[d].step = "off" /\ runs < MaxSeedRuns
    /\ runs' = runs + 1
    /\ \E force \in {"none", "create", "update"} :
         Steps(d, [step |-> "permissions", seen |-> {}, todo |-> Deployments[d].permissions,
                   force |-> force, clean |-> TRUE])
    /\ UNCHANGED <<rolesV1, rolesV2, permissions, defaultGroups, kesselRoles, destructive, failures>>

\* the transaction of one resource; its failure is logged and the next one follows
SeedPermission(d, p) ==
    /\ seeder[d].step = "permissions" /\ p \in seeder[d].todo
    /\ \/ /\ permissions' = permissions \cup {p}
          /\ Steps(d, [seeder[d] EXCEPT !.todo = @ \ {p}, !.seen = @ \cup {p}])
          /\ UNCHANGED failures
       \/ /\ failures < MaxSeedFailures /\ failures' = failures + 1
          /\ Steps(d, [seeder[d] EXCEPT !.todo = @ \ {p}, !.clean = FALSE])
          /\ UNCHANGED permissions
    /\ UNCHANGED <<rolesV1, rolesV2, defaultGroups, kesselRoles, destructive, runs>>

WithoutPermissions(row, gone) ==
    IF row.exists THEN [row EXCEPT !.access = @ \ gone] ELSE row

\* delete_permission for each permission that was not seen
DeletePermissions(d) ==
    LET gone == IF destructive THEN permissions \ seeder[d].seen ELSE {}
        hit == {r \in RoleNames : rolesV1[r].exists /\ rolesV1[r].access \cap gone # {}} IN
    /\ seeder[d].step = "permissions" /\ seeder[d].todo = {}
    /\ permissions' = permissions \ gone
    /\ rolesV1' = [r \in RoleNames |-> WithoutPermissions(rolesV1[r], gone)]
    /\ rolesV2' = [r \in RoleNames |-> WithoutPermissions(rolesV2[r], gone)]
    /\ kesselRoles' = (kesselRoles \ UNION {RelationsToRemove(d, r, rolesV1[r]) : r \in hit})
                      \cup UNION {RelationsToAdd(d, r, rolesV1'[r]) : r \in hit}
    /\ Steps(d, [seeder[d] EXCEPT !.step = "platform"])
    /\ UNCHANGED <<defaultGroups, destructive, runs, failures>>

-----------------------------------------------------------------------------
(* seed_group, seed_roles                                                  *)

\* update_group_roles for both groups
SeededGroups ==
    [exists |-> TRUE,
     platform |-> {r \in RoleNames : rolesV1[r].exists /\ "platform" \in rolesV1[r].defaults},
     admin |-> {r \in RoleNames : rolesV1[r].exists /\ "admin" \in rolesV1[r].defaults}]

\* _seed_platform_roles: the default groups are created when they are missing
SeedPlatformRoles(d) ==
    /\ seeder[d].step = "platform"
    /\ defaultGroups' = IF defaultGroups.exists THEN defaultGroups ELSE SeededGroups
    /\ Steps(d, [seeder[d] EXCEPT !.step = "roles", !.todo = RoleNames \cap DOMAIN Deployments[d].roles])
    /\ UNCHANGED <<rolesV1, rolesV2, permissions, kesselRoles, destructive, runs, failures>>

\* mutant: a role of a newer deployment is left as it is
OutdatedOnly(row, def) == row.version < def.version

Outdated(row, def) == row.version # def.version

\* _seed_v2_role_from_v1
SeededV2(d, row) ==
    [exists |-> TRUE, access |-> row.access,
     parents |-> {<<t, s>> : t \in AccessTypes \cap row.defaults, s \in BindingScopes(d, row.access)}]

\* _make_role
MakeRole(d, r) ==
    LET def == Definition(d, r)
        old == rolesV1[r]
        new == [exists |-> TRUE, version |-> def.version, access |-> def.access, defaults |-> def.defaults]
        created == ~old.exists
        updated == ~created /\ (seeder[d].force = "update" \/ Outdated(old, def))
        row == IF created \/ updated THEN new ELSE old
        remove == IF updated THEN RelationsToRemove(d, r, old) ELSE {}
        add == IF created \/ updated \/ seeder[d].force = "create" THEN RelationsToAdd(d, r, row) ELSE {} IN
    /\ seeder[d].step = "roles" /\ r \in seeder[d].todo
    /\ rolesV1' = [rolesV1 EXCEPT ![r] = row]
    /\ rolesV2' = [rolesV2 EXCEPT ![r] = SeededV2(d, row)]
    /\ permissions' = permissions \cup (IF created \/ updated THEN def.access ELSE {})
    /\ kesselRoles' = (kesselRoles \ remove) \cup add
    /\ Steps(d, [seeder[d] EXCEPT !.todo = @ \ {r}])
    /\ UNCHANGED <<defaultGroups, destructive, runs, failures>>

\* _do_delete_system_roles: roles that this deployment does not define
DeleteRoles(d) ==
    LET gone == IF destructive
                THEN {r \in RoleNames \ DOMAIN Deployments[d].roles : rolesV1[r].exists} ELSE {} IN
    /\ seeder[d].step = "roles" /\ seeder[d].todo = {}
    /\ rolesV1' = [r \in RoleNames |-> IF r \in gone THEN Absent ELSE rolesV1[r]]
    /\ rolesV2' = [r \in RoleNames |-> IF r \in gone THEN Absent ELSE rolesV2[r]]
    /\ defaultGroups' = [defaultGroups EXCEPT !.platform = @ \ gone, !.admin = @ \ gone]
    /\ kesselRoles' = kesselRoles \ UNION {RelationsToRemove(d, r, rolesV1[r]) : r \in gone}
    /\ Steps(d, [seeder[d] EXCEPT !.step = "groups"])
    /\ UNCHANGED <<permissions, destructive, runs, failures>>

SeedGroups(d) ==
    /\ seeder[d].step = "groups"
    /\ defaultGroups' = SeededGroups
    /\ Steps(d, [seeder[d] EXCEPT !.step = "done"])
    /\ UNCHANGED <<rolesV1, rolesV2, permissions, kesselRoles, destructive, runs, failures>>

\* a role that cannot be seeded ends role seeding, group seeding follows all the same
\* (_run_seeds); or the process dies
FailSeeding(d) ==
    /\ seeder[d].step \notin {"off", "done"} /\ failures < MaxSeedFailures
    /\ failures' = failures + 1
    /\ \/ seeder[d].step = "roles" /\ Steps(d, [seeder[d] EXCEPT !.step = "groups", !.clean = FALSE])
       \/ Steps(d, Off)
    /\ UNCHANGED <<rolesV1, rolesV2, permissions, defaultGroups, kesselRoles, destructive, runs>>

EndSeeding(d) ==
    /\ seeder[d].step = "done"
    /\ Steps(d, Off)
    /\ UNCHANGED <<rolesV1, rolesV2, permissions, defaultGroups, kesselRoles, destructive, runs, failures>>

SeedNext ==
    \E d \in DOMAIN Deployments :
        \/ StartSeeding(d) \/ DeletePermissions(d) \/ SeedPlatformRoles(d) \/ DeleteRoles(d)
        \/ SeedGroups(d) \/ FailSeeding(d) \/ EndSeeding(d)
        \/ \E p \in Deployments[d].permissions : SeedPermission(d, p)
        \/ \E r \in RoleNames \cap DOMAIN Deployments[d].roles : MakeRole(d, r)

SeedSpec == SeedInit /\ [][SeedNext]_seedVars

-----------------------------------------------------------------------------
(* Properties                                                              *)

\* Whatever deployments seed at the same time, are interrupted or delete what they do
\* not know: a role has the same permissions in V1, in V2 and in Kessel, and it hangs
\* below platform roles only of the default groups it belongs to.
SeededRolesAgree ==
    \A r \in RoleNames :
        LET tuples == {p \in UNION {Deployments[d].permissions : d \in DOMAIN Deployments} :
                         <<"permission", r, p>> \in kesselRoles}
            below == {t \in AccessTypes : \E s \in CONCRETE_SCOPES : <<"child", t, s, r>> \in kesselRoles} IN
        IF rolesV1[r].exists
        THEN /\ rolesV2[r].exists /\ rolesV2[r].access = rolesV1[r].access
             /\ tuples = rolesV1[r].access
             /\ below = rolesV1[r].defaults
        ELSE ~rolesV2[r].exists /\ tuples = {} /\ below = {}

\* A run that ends without a failure and that no other run disturbed leaves the
\* definitions of its deployment behind: accesses, default groups, V2 parents at the
\* scopes of its settings, also after a newer deployment had seeded (claimed while
\* seeding is not destructive).
SeedingConverges ==
    \A d \in DOMAIN Deployments : seeder[d].step = "done" /\ seeder[d].clean /\ ~destructive =>
        \A r \in RoleNames \cap DOMAIN Deployments[d].roles :
            LET def == Definition(d, r) IN
            /\ rolesV1[r].access = def.access /\ rolesV1[r].defaults = def.defaults
            /\ "platform" \in def.defaults <=> r \in defaultGroups.platform
            /\ rolesV2[r].parents = {<<t, s>> : t \in def.defaults, s \in BindingScopes(d, def.access)}

=============================================================================
