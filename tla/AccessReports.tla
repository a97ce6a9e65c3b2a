--------------------------- MODULE AccessReports ---------------------------
(***************************************************************************)
(* Group administration of one organization (management/group/view.py and  *)
(* definer.py) and the tools that report on it (management/mcp_views.py).  *)
(* A request of the group API first checks, without a lock, that its       *)
(* caller may change the group, and writes later: pending has the requests *)
(* between the two.  The steps are in the order in which the transactions  *)
(* take effect.  The rest of the requests are one transaction.             *)
(*                                                                         *)
(* Permissions are records of application, resource type and verb, with    *)
(* "*" as wildcard.  The reports are operators on the rows.                *)
(***************************************************************************)
EXTENDS Naturals, FiniteSets

CONSTANTS Users,          \* user principals
          Admins,         \* those of them who are org admins
          Bots,           \* service accounts
          Groups,         \* groups an organization may create
          Seeded,         \* system roles and their permissions
          CustomRole,     \* a custom role
          CustomAccess,   \* the permission sets it may be given (ROLE_CREATE_ALLOW_LIST,
                          \* which "rbac" is not on)
          PlatformRoles,  \* roles of the default group of the public tenant, with no
                          \* write access to RBAC
          AdminRoles,     \* roles of its admin default group
          Delegate,       \* the role "User Access administrator"
          Blocked,        \* V1_ROLE_PERMISSION_BLOCK_LIST
          Asked,          \* permissions the tools are asked about
          Starts,         \* groups at the start
          MaxChanges      \* bound on the requests

VARIABLES version,   \* "v1", or "v2" once V2 writes are activated
          groups,    \* the groups of the tenant; "default" is its custom default
                     \* group, "stray" an ordinary group with the name of that one
          access,    \* permissions of each role
          bindings,  \* role bindings of the V2 API
          trail,     \* the audit log: who did what to groups and roles
          pending,   \* the requests between check and write
          changes    \* counts the requests

vars == <<version, groups, access, bindings, trail, pending, changes>>

People == Users \cup Bots
Roles == DOMAIN Seeded \cup {CustomRole}
Own == Groups \cup {"default", "stray"}
Absent == [live |-> FALSE, members |-> {}, roles |-> {}]

TypeOK ==
    /\ version \in {"v1", "v2"}
    /\ groups \in [Own -> [live : BOOLEAN, members : SUBSET People, roles : SUBSET Roles]]
    /\ access \in [Roles -> SUBSET UNION ({Seeded[r] : r \in DOMAIN Seeded} \cup CustomAccess)]
    /\ \A b \in bindings : b.role \in Roles \cup {"platform"}
    /\ changes \in 0..MaxChanges

ReportInit ==
    /\ version = "v1"
    /\ groups \in Starts
    /\ \E s \in CustomAccess :
          access = [r \in Roles |-> IF r = CustomRole THEN s ELSE Seeded[r]]
    /\ bindings = {} /\ trail = {} /\ pending = {} /\ changes = 0

(***************************************************************************)
(* V1 access                                                               *)
(***************************************************************************)
Live == {g \in Own : groups[g].live}

RolesOf(g) ==
    IF g = "platform" THEN PlatformRoles
    ELSE IF g = "admins" THEN AdminRoles ELSE groups[g].roles

Assigned(p) == {g \in Live : p \in groups[g].members}

PlatformDefault == IF "default" \in Live THEN {"default"} ELSE {"platform"}

\* the mutation: service accounts get default access too
groups_for_principal_any(p, admin) ==
    Assigned(p) \cup PlatformDefault \cup (IF admin THEN {"admins"} ELSE {})

groups_for_principal(p, admin) ==
    Assigned(p) \cup (IF p \in Users
                      THEN PlatformDefault \cup (IF admin THEN {"admins"} ELSE {})
                      ELSE {})

roles_for_principal(p, admin) == UNION {RolesOf(g) : g \in groups_for_principal(p, admin)}

access_for_roles(rs, app) == {q \in UNION {access[r] : r \in rs} : q.app = app}

(* What GET /access answers about p, for whom the org admin flag is asked   *)
(* from BOP.                                                               *)
AccessView(p, app) ==
    access_for_roles(roles_for_principal(p, p \in Admins), app) \ Blocked

(* The middleware's idea of what the caller may write.                      *)
MayWrite(p, res) ==
    \E q \in access_for_roles(roles_for_principal(p, FALSE), "rbac") :
        q.res \in {"*", res} /\ q.verb \in {"*", "write"}

GroupAccessPermission(p, op) ==
    \/ p \in Admins
    \/ /\ MayWrite(p, "group")
       /\ op = "principals" => MayWrite(p, "principal")

AboveRead(r) == \E q \in access[r] : q.app = "rbac" /\ q.verb # "read"

protect_group_with_user_access_admin_role(p, g) ==
    p \in Admins \/ \A r \in RolesOf(g) : ~AboveRead(r)

(***************************************************************************)
(* Requests that change groups                                             *)
(***************************************************************************)
Counted == changes < MaxChanges /\ changes' = changes + 1

\* an entry names the group by its uuid, here "gone" for a group that was deleted
Entry(who, action, g) == [actor |-> who, type |-> "group", action |-> action, group |-> g]

Log(entries) == trail' = trail \cup entries

CreateGroup(who, g) ==
    /\ Counted /\ GroupAccessPermission(who, "create")
    /\ g \in Groups \ Live
    /\ groups' = [groups EXCEPT ![g] = [Absent EXCEPT !.live = TRUE]]
    /\ Log({Entry(who, "create", g)})
    /\ UNCHANGED <<version, access, bindings, pending>>

(* A custom default group that is made again has the uuid of the old one.   *)
Outlived(e, g) == IF e.group = g /\ g # "default" THEN [e EXCEPT !.group = "gone"] ELSE e

(* The row is locked.  A group with V2 bindings is protected by the foreign *)
(* key; bindings made by V1 assignments are removed with the group.  The   *)
(* default bindings come back with the last custom default group.          *)
DeleteGroup(who, g) ==
    /\ Counted /\ GroupAccessPermission(who, "delete")
    /\ g \in Live
    /\ protect_group_with_user_access_admin_role(who, g)
    /\ \A b \in bindings : b.subject # g
    /\ groups' = [groups EXCEPT ![g] = Absent]
    /\ bindings' = IF g = "default" /\ version = "v2"
                   THEN bindings \cup {[role |-> "platform", subject |-> "platform"]}
                   ELSE bindings
    /\ trail' = {Outlived(e, g) : e \in trail \cup {Entry(who, "delete", g)}}
    /\ pending' = {IF q.group = g THEN [q EXCEPT !.gone = TRUE] ELSE q : q \in pending}
    /\ UNCHANGED <<version, access>>

RemovePrincipals(who, g, p) ==
    /\ Counted /\ GroupAccessPermission(who, "principals")
    /\ g \in Live \ {"default"} /\ p \in groups[g].members
    /\ protect_group_with_user_access_admin_role(who, g)
    /\ groups' = [groups EXCEPT ![g].members = @ \ {p}]
    /\ Log({Entry(who, "remove", g)})
    /\ UNCHANGED <<version, access, bindings, pending>>

(* The check before the external calls of POST principals, and before the  *)
(* transaction of POST and DELETE roles, which may address the default     *)
(* group of the public tenant.                                             *)
Precheck(who, op, g, arg) ==
    /\ Counted
    /\ GroupAccessPermission(who, op)
    /\ IF op = "principals" THEN g \in Live \ {"default"} ELSE g \in Live \cup PlatformDefault
    /\ op # "principals" => version = "v1"
    /\ protect_group_with_user_access_admin_role(who, g)
    /\ pending' = pending \cup {[op |-> op, who |-> who, group |-> g, arg |-> arg, gone |-> FALSE]}
    /\ UNCHANGED <<version, groups, access, bindings, trail>>

\* the mutation: what was checked before the external calls is not checked again
Recheck_once(q) == q.group \in Live /\ ~q.gone

\* the locked group is checked again
Recheck(q) ==
    /\ q.group \in Live /\ ~q.gone
    /\ protect_group_with_user_access_admin_role(q.who, q.group)

WritePrincipals(q) ==
    /\ q.op = "principals" /\ Recheck(q)
    /\ groups' = [groups EXCEPT ![q.group].members = @ \cup {q.arg}]
    /\ Log({Entry(q.who, "add", q.group)})
    /\ pending' = pending \ {q}
    /\ UNCHANGED <<version, access, bindings, changes>>

(* set_system_flag_before_update: a request for the public default group    *)
(* makes the custom one as its copy, and fails when the name is taken.     *)
set_system_flag_before_update(q) ==
    q.group = "platform" => {"default", "stray"} \cap Live = {}

\* add_roles and remove_roles look the group up again, by its name
Named(q) ==
    IF q.group = "platform" THEN "default"
    ELSE IF q.group = "default" /\ q.group \notin Live THEN "stray" ELSE q.group

Updated(q) ==
    IF q.group = "platform" THEN [live |-> TRUE, members |-> {}, roles |-> PlatformRoles]
    ELSE groups[Named(q)]

(* The entries are written for the group that was checked: of a removal     *)
(* one for each role asked for, of an addition one for each role of it.    *)
Entries(q, action) ==
    IF q.group = "platform" THEN {Entry(q.who, action, "default"), Entry(q.who, "create", "default")}
    ELSE IF ~q.gone THEN {Entry(q.who, action, q.group)}
    ELSE IF action = "add" THEN {} ELSE {Outlived(Entry(q.who, action, q.group), q.group)}

(* A group deleted since the check is created again, without members.       *)
add_roles(q) ==
    /\ q.op = "roles" /\ version = "v1" /\ set_system_flag_before_update(q)
    /\ q.who \in Admins \/ ~AboveRead(q.arg)
    /\ groups' = [groups EXCEPT ![Named(q)] =
                     [Updated(q) EXCEPT !.live = TRUE, !.roles = @ \cup {q.arg}]]
    /\ Log(Entries(q, "add"))
    /\ pending' = pending \ {q}
    /\ UNCHANGED <<version, access, bindings, changes>>

remove_roles(q) ==
    /\ q.op = "unroles" /\ version = "v1" /\ set_system_flag_before_update(q)
    /\ Updated(q).live
    /\ groups' = [groups EXCEPT ![Named(q)] = [Updated(q) EXCEPT !.roles = @ \ {q.arg}]]
    /\ Log(Entries(q, "remove"))
    /\ pending' = pending \ {q}
    /\ UNCHANGED <<version, access, bindings, changes>>

(* The write is refused, and its transaction rolled back.                   *)
Refuse(q) ==
    /\ \/ q.op = "principals" /\ ~Recheck(q)
       \/ q.op # "principals" /\ (version = "v2" \/ ~set_system_flag_before_update(q))
       \/ q.op = "roles" /\ q.who \notin Admins /\ AboveRead(q.arg)
       \/ q.op = "unroles" /\ ~Updated(q).live
    /\ pending' = pending \ {q}
    /\ UNCHANGED <<version, groups, access, bindings, trail, changes>>

UpdateRole(who, s) ==
    /\ Counted /\ version = "v1"
    /\ who \in Admins \/ MayWrite(who, "role")
    /\ access' = [access EXCEPT ![CustomRole] = s]
    /\ Log({[actor |-> who, type |-> "role", action |-> "edit", group |-> "none"]})
    /\ UNCHANGED <<version, groups, bindings, pending>>

(***************************************************************************)
(* The V2 API                                                              *)
(***************************************************************************)
(* The bindings made by V1 assignments, and the default one unless there is *)
(* a custom default group (see SystemRoleBindings, CustomRoles and         *)
(* TenantVersion).                                                         *)
Activate ==
    /\ Counted /\ version = "v1" /\ version' = "v2"
    /\ bindings' =
          UNION {{[role |-> r, subject |-> g] : r \in groups[g].roles} : g \in Live}
            \cup (IF "default" \in Live THEN {} ELSE {[role |-> "platform", subject |-> "platform"]})
    /\ UNCHANGED <<groups, access, trail, pending>>

UpdateBindings(r, s) ==
    /\ Counted /\ version = "v2"
    /\ s \in Live \cup Users
    /\ LET b == [role |-> r, subject |-> s]
       IN  bindings' = IF b \in bindings THEN bindings \ {b} ELSE bindings \cup {b}
    /\ UNCHANGED <<version, groups, access, trail, pending>>

ReportNext ==
    \/ \E who \in Users, g \in Own :
          \/ CreateGroup(who, g) \/ DeleteGroup(who, g)
          \/ \E p \in People : RemovePrincipals(who, g, p) \/ Precheck(who, "principals", g, p)
    \/ \E who \in Users, g \in Own \cup {"platform"}, r \in Roles, op \in {"roles", "unroles"} :
          Precheck(who, op, g, r)
    \/ \E q \in pending : WritePrincipals(q) \/ add_roles(q) \/ remove_roles(q) \/ Refuse(q)
    \/ \E who \in Users, s \in CustomAccess : UpdateRole(who, s)
    \/ Activate
    \/ \E r \in Roles, s \in Live \cup Users : UpdateBindings(r, s)

Spec == ReportInit /\ [][ReportNext]_vars

(***************************************************************************)
(* The reports                                                             *)
(***************************************************************************)
(* _permission_matches: the wildcards are those of the granted permission.  *)
Matches(granted, wanted) ==
    \A f \in {"app", "res", "verb"} : granted[f] \in {"*", wanted[f]}

(* Bindings of the user, of a group of the user, or of a platform default   *)
(* group of the tenant or the public tenant.                               *)
for_granted_subject(p) ==
    {b \in bindings : b.subject \in Assigned(p) \cup {p, "platform", "default"}}

\* with_expanded_platform_roles
EffectiveRoles(bs) ==
    UNION {IF b.role = "platform" THEN PlatformRoles ELSE {b.role} : b \in bs}

check_user_permission_v1(p, q) == \E a \in AccessView(p, q.app) : Matches(a, q)

check_user_permission(p, q) ==
    IF version = "v1" THEN check_user_permission_v1(p, q)
    ELSE \E r \in EffectiveRoles(for_granted_subject(p)) : \E a \in access[r] : Matches(a, q)

\* permissions of the roles of the groups a principal was added to
Explicit(p) == UNION {access[r] : r \in UNION {groups[g].roles : g \in Assigned(p)}}

(* /access is asked for each application of the explicit permissions.       *)
get_user_access_v1(p) == UNION {AccessView(p, a.app) : a \in Explicit(p)}

(* Default bindings are not looked at, and a binding of the platform role   *)
(* would show no permissions.                                              *)
get_user_access_v2(p) ==
    UNION {access[b.role] : b \in {x \in bindings : x.subject \in Assigned(p) \cup {p}}}

\* the "access" of get_user_state
UserState(p) == IF version = "v1" THEN get_user_access_v1(p) ELSE get_user_access_v2(p)

(* investigate_user_access: a permission is found when one granted and the  *)
(* one asked for match in either direction, or have application and verb   *)
(* in common; an org admin has every permission.                           *)
check_permission_match(a, q) ==
    Matches(a, q) \/ Matches(q, a) \/ (a.app = q.app /\ a.verb = q.verb)

InvestigatedV2(p) ==
    UNION {access[b.role] : b \in {x \in bindings :
        x.role # "platform" /\ (x.subject = p \/ x.subject \in Assigned(p))}}

investigate_user_access(p, q) ==
    \/ p \in Admins
    \/ \E a \in (IF version = "v1" THEN Explicit(p) ELSE InvestigatedV2(p)) :
          check_permission_match(a, q)

\* the groups and roles named as the sources of permission a
permission_sources(p, a) ==
    {<<g, r>> \in Assigned(p) \X Roles : r \in groups[g].roles /\ a \in access[r]}

(* _REQUIRED_PERMISSIONS: any one of them explains the action.              *)
Required(e) ==
    LET Write(res) == [app |-> "rbac", res |-> res, verb |-> "write"]
    IN  IF e.type = "group" /\ e.action \in {"add", "remove"}
        THEN {Write("group"), Write("principal")} ELSE {Write(e.type)}

\* the roles, with their groups, that explain an entry of the audit log
find_authorizing_role(e) ==
    {<<r, g>> \in Roles \X Live :
        /\ g \in Assigned(e.actor) /\ r \in groups[g].roles
        /\ \E a \in access[r], q \in Required(e) : Matches(a, q)}

\* list_audit_logs, with the authorization of each entry
authorized_by(e) == IF e.actor \in Admins THEN {<<"Org Admin", "none">>} ELSE find_authorizing_role(e)

\* the entries with the uuid of the group, each with its authorization
investigate_group_changes(g) == {<<e, authorized_by(e)>> : e \in {x \in trail : x.group = g}}

\* check_role_permissions: what is told about a role before it is assigned
can_modify(r) == \E a \in access[r] : a.verb \in {"write", "create", "delete", "*"}

(* guide_user_access_delegation, for a V1 organization: the groups with the *)
(* role and the groups listed for the user have one in common.  Default    *)
(* groups are not listed for service accounts.                             *)
ListedGroups(p) ==
    Assigned(p) \cup (IF p \in Bots THEN {}
                      ELSE PlatformDefault \cup (IF p \in Admins THEN {"admins"} ELSE {}))
user_already_has_role(p) == \E g \in ListedGroups(p) : Delegate \in RolesOf(g)

(* audit_group_for_dissolution                                              *)
OtherGroups(p, g) == Assigned(p) \ {g}
GroupPermissions(gs) == UNION {access[r] : r \in UNION {groups[g].roles : g \in gs}}

\* the mutation: what other members keep is taken for kept
permissions_lost_by_any(p, g) ==
    GroupPermissions({g}) \ GroupPermissions(UNION {OtherGroups(x, g) : x \in groups[g].members})

permissions_lost(p, g) == GroupPermissions({g}) \ GroupPermissions(OtherGroups(p, g))

is_stranded(p, g) == OtherGroups(p, g) \ {"default"} = {}

\* stranded_users and stranded_service_accounts; a group without members is safe to delete
Stranded(g) == {p \in groups[g].members : is_stranded(p, g)}

(***************************************************************************)
(* Properties                                                              *)
(***************************************************************************)
\* what the default groups grant a user
DefaultAccess(p) ==
    UNION {access[r] : r \in
        IF version = "v2" THEN EffectiveRoles({b \in bindings : b.subject \in {"platform", "default"}})
        ELSE UNION {RolesOf(g) : g \in PlatformDefault \cup (IF p \in Admins THEN {"admins"} ELSE {})}}

\* write access to groups and members, through groups the principal was added to
StillWrites(p) ==
    \A res \in {"group", "principal"} :
        \E a \in Explicit(p) : Matches(a, [app |-> "rbac", res |-> res, verb |-> "write"])

(* The tools, which compute access along different paths, agree with each   *)
(* other and with the access that the API enforces.  (1) What the state of *)
(* a user lists, and what the default groups grant, the permission check   *)
(* allows.  (2) What the check allows, the investigation finds, unless it  *)
(* comes from a default group.  (3) In a V1 organization the delegation    *)
(* guide says that a principal has the administrator role just when        *)
(* /access works with it.  (4) An entry of the audit log whose actor has   *)
(* access to do it again through a group is explained by some role.  (5)   *)
(* Such a role was announced as one that can modify.  (6) A permission is  *)
(* reported as lost with a group just when the investigation names that    *)
(* group as its only source (mcp_views.py, management/utils.py).           *)
ReportsAgree ==
    /\ \A p \in Users :
          /\ \A q \in UserState(p) \cup (DefaultAccess(p) \ Blocked) : check_user_permission(p, q)
          /\ \A q \in Asked : check_user_permission(p, q) =>
                investigate_user_access(p, q) \/ \E a \in DefaultAccess(p) : Matches(a, q)
    /\ version = "v1" => \A p \in People :
          user_already_has_role(p) <=> Delegate \in roles_for_principal(p, p \in Admins)
    /\ \A e \in trail :
          /\ e.type = "group" /\ StillWrites(e.actor) => authorized_by(e) # {}
          /\ \A x \in find_authorizing_role(e) : can_modify(x[1])
    /\ \A p \in People : \A g \in Assigned(p) :
          permissions_lost(p, g) = {a \in Explicit(p) : {x[1] : x \in permission_sources(p, a)} = {g}}

LossForeseenStep ==
    \A g \in Live \ {"default"} : version = "v1" /\ ~groups'[g].live =>
        \A p \in People, q \in Asked :
            /\ check_user_permission(p, q) /\ ~check_user_permission(p, q)' =>
                  p \in groups[g].members /\ \E a \in permissions_lost(p, g) : Matches(a, q)
            /\ p \in Stranded(g) /\ check_user_permission(p, q)' =>
                  p \in Users /\ \E a \in DefaultAccess(p) : Matches(a, q)

(* The audit of a group that is to be deleted tells the truth in a V1       *)
(* organization: what anybody can no longer do after the deletion is       *)
(* covered by a permission reported as lost by that member, a user         *)
(* reported as stranded is left with default access only, and a service    *)
(* account with none (audit_group_for_dissolution, GroupViewSet.destroy).  *)
LossForeseen == [][LossForeseenStep]_vars

GrantedByAdminsOnlyStep ==
    version' = "v1" => \A p \in People, q \in Asked :
        q.app = "rbac" /\ q.verb # "read"
          /\ ~check_user_permission(p, q) /\ check_user_permission(p, q)'
            => /\ \E x \in pending \ pending' : x.who \in Admins
               /\ \E g \in groups_for_principal(p, p \in Admins)' :
                     \E x \in investigate_group_changes(g)' : x[2] = {<<"Org Admin", "none">>}

(* Nobody gains RBAC access above "read" but by a request of an org admin,  *)
(* whatever other requests do between its check and its write, and the     *)
(* investigation of a group that grants it shows a change by an org admin  *)
(* (protect_group_with_user_access_admin_role, the check under the lock in *)
(* _write_group_principals, investigate_group_changes).                    *)
GrantedByAdminsOnly == [][GrantedByAdminsOnlyStep]_vars

=============================================================================
