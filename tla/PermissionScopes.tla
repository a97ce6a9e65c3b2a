--------------------------- MODULE PermissionScopes ---------------------------
(***************************************************************************)
(* Scopes of permissions (management/permission/scope_service.py): which   *)
(* scope the settings give a permission, at which scopes a role is bound,  *)
(* and the in-process cache of permission ids by scope behind the list of  *)
(* assignable V2 roles.  The permissions are those of one application; the *)
(* string "*" is the wildcard.                                             *)
(***************************************************************************)
EXTENDS Naturals, FiniteSets, FiniteSetsExt

CONSTANTS ResourceTypes, Verbs,
          Catalogs,        \* permission tables the seeds may install
          MaxPatterns,     \* bound on the patterns of the settings
          RoleSize         \* bound on the permissions of a role

VARIABLES patterns,        \* _permissions_map: configured patterns and their scopes
          running,         \* the settings are parsed
          table,           \* rows of Permission
          scopeCache       \* PermissionScopeCache of the process

scopeVars == <<patterns, running, table, scopeCache>>

DEFAULT == 1
ROOT == 2
TENANT == 3
ALL == 4
Concrete == {DEFAULT, ROOT, TENANT}
NotBuilt == [built |-> FALSE]

PermissionValues == (ResourceTypes \cup {"*"}) \X (Verbs \cup {"*"})
IsWildcard(p) == p[1] = "*" \/ p[2] = "*"

Subsumes(p, q) == (p[1] = "*" \/ p[1] = q[1]) /\ (p[2] = "*" \/ p[2] = q[2])

\* _wildcard_candidates, in the order of precedence
Candidates(p) == << p, <<p[1], "*">>, <<"*", p[2]>>, <<"*", "*">> >>

ScopeForPermission(p) ==
    LET c == Candidates(p)
        hits == {i \in DOMAIN c : c[i] \in DOMAIN patterns}
    IN IF hits = {} THEN DEFAULT ELSE patterns[c[Min(hits)]]

IsExplicitlyScoped(p) == \E i \in DOMAIN Candidates(p) : Candidates(p)[i] \in DOMAIN patterns


AllScopesForPermission(p) ==
    {ScopeForPermission(p)}
        \cup (IF IsWildcard(p)
              THEN {patterns[q] : q \in {q \in DOMAIN patterns : Subsumes(p, q)}}
              ELSE {})

\* split_permissions_by_binding_scope: permissions of each scope the role is bound at
Split(perms) ==
    LET scopes == UNION {AllScopesForPermission(p) : p \in perms}
        at == IF scopes \ {ALL} = {} THEN {DEFAULT} ELSE scopes \ {ALL}
        merged == IF {DEFAULT, ROOT} \subseteq at THEN at \ {DEFAULT} ELSE at
        Here(p, s) == \/ {s, ALL} \cap AllScopesForPermission(p) # {}
                      \/ s = ROOT /\ DEFAULT \in AllScopesForPermission(p)
    IN [s \in merged |-> {p \in perms : Here(p, s)}]

\* binding_scopes_for_permissions
BindingScopes(perms) == IF perms = {} THEN {DEFAULT} ELSE DOMAIN Split(perms)

HighestScope(perms) ==
    LET concrete == {ScopeForPermission(p) : p \in perms} \ {ALL}
    IN IF concrete = {} THEN DEFAULT ELSE Max(concrete)

IsAllScopeOnly(perms) == perms # {} /\ \A p \in perms : ScopeForPermission(p) = ALL

-----------------------------------------------------------------------------
(* Resources a role is bound at: resolve_workspace_scope, scope_for_resource *)

BoundResources == {"tenant", "root", "default", "standard"}
ScopeOfResource(r) == IF r = "tenant" THEN TENANT ELSE IF r = "root" THEN ROOT ELSE DEFAULT

\* the cache: permissions stand for their ids; None when it was not built yet
BuiltCache ==
    [built |-> TRUE, ids |-> [s \in Concrete \cup {ALL} |-> {p \in table : ScopeForPermission(p) = s}],
     explicit |-> {p \in table : ScopeForPermission(p) = DEFAULT /\ IsExplicitlyScoped(p)}]

\* reading the cache builds it when there is none
Cached == IF scopeCache.built THEN scopeCache ELSE BuiltCache

IdsForScopes(scopes) == UNION {Cached.ids[s] : s \in scopes}

\* _filter_by_resource_type, for one role
Listed(perms, r) ==
    LET s == ScopeOfResource(r)
        allOnly == /\ perms \cap IdsForScopes({ALL}) # {}
                   /\ perms \cap IdsForScopes(Concrete) = {}
    IN /\ s # DEFAULT => perms \cap IdsForScopes({s}) # {} \/ allOnly
       /\ perms \cap IdsForScopes({t \in Concrete : t > s}) = {}
       /\ r = "standard" => perms \cap Cached.explicit = {} /\ perms # {}

\* _validate_role_scopes, for one role
Accepted(perms, r) ==
    \/ IsAllScopeOnly(perms)
    \/ /\ HighestScope(perms) = ScopeOfResource(r)
       /\ r = "standard" => perms # {} /\ perms \cap Cached.explicit = {}

-----------------------------------------------------------------------------
ScopeInit ==
    /\ patterns = << >> /\ running = FALSE
    /\ table = {} /\ scopeCache = NotBuilt

\* add_permission: a pattern in two settings raises and the process does not start
AddPermission(p, s) ==
    /\ ~running /\ Cardinality(DOMAIN patterns) < MaxPatterns
    /\ p \notin DOMAIN patterns
    /\ patterns' = [q \in DOMAIN patterns \cup {p} |-> IF q = p THEN s ELSE patterns[q]]
    /\ UNCHANGED <<running, table, scopeCache>>

Start ==
    /\ ~running /\ running' = TRUE
    /\ UNCHANGED <<patterns, table, scopeCache>>

Invalidated == NotBuilt

\* _run_seeds with permissions or roles in this process
Seed(catalog) ==
    /\ running /\ table' = catalog /\ scopeCache' = Invalidated
    /\ UNCHANGED <<patterns, running>>

\* a list request or the validation of a binding at a standard workspace
ReadScopes ==
    /\ running /\ ~scopeCache.built
    /\ scopeCache' = BuiltCache
    /\ UNCHANGED <<patterns, running, table>>

ScopeNext ==
    \/ \E p \in PermissionValues, s \in Concrete \cup {ALL} : AddPermission(p, s)
    \/ Start
    \/ \E c \in Catalogs : Seed(c)
    \/ ReadScopes

ScopeSpec == ScopeInit /\ [][ScopeNext]_scopeVars

-----------------------------------------------------------------------------
(* Properties                                                              *)

RolesOver(perms) == UNION {kSubset(n, perms) : n \in 0..RoleSize}

\* The list of roles offered for a resource (SQL over cached permission ids) and the
\* check that a binding request passes (scopes of the role's permissions) agree: what
\* is offered is accepted, what would be accepted is offered.
OfferedIsAccepted ==
    running => \A perms \in RolesOver(table), r \in BoundResources :
        Listed(perms, r) <=> Accepted(perms, r)

\* reference: the pattern with fewest wildcards decides, a resource type before a verb
ReferenceScope(p) ==
    LET over == {q \in DOMAIN patterns : Subsumes(q, p)}
        weight(q) == (IF q[1] = "*" THEN 2 ELSE 0) + (IF q[2] = "*" THEN 1 ELSE 0)
        best == {q \in over : \A o \in over : weight(q) <= weight(o)}
    IN IF over = {} THEN DEFAULT ELSE patterns[CHOOSE q \in best : TRUE]

Meet(p, q) == \E c \in ResourceTypes \X Verbs : Subsumes(p, c) /\ Subsumes(q, c)


=============================================================================
