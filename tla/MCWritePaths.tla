---------------------------- MODULE MCWritePaths ----------------------------
(***************************************************************************)
(* The components that write access data, explored one by one: V2 role     *)
(* bindings through the API and the lists of them, V1 bindings of system   *)
(* roles, custom roles, group members, workspaces, and permission scopes.  *)
(* They share no state here; part chooses the one that a behaviour is      *)
(* about.                                                                  *)
(***************************************************************************)
EXTENDS Naturals, Sequences, FiniteSets, TLC

CONSTANTS Parts,           \* the components explored
          Mixes,           \* requests that meet in SystemRoleBindings
          NewScopes,       \* scopes its role moves to
          LateReferences   \* races admitted in CustomRoles

VARIABLES part,
          live, principals, userId, profile, bindings, entries, tuples, car, listed,
          asked,
          ops, holders, alive, rows, relations, scopeState, job, tx, locks,
          db, setting, removing,
          directory, topic, listener, adding, members, config,
          tree, parents, mirror, writing,
          patterns, running, table, scopeCache

\* two principals, two user ids, a custom and a system role, no cross-account requests
Bind == INSTANCE RoleBindings WITH
    Groups <- {"g"}, Principals <- {"p1", "p2"}, Home <- {"p1", "p2"}, UserIds <- {"u1", "u2"},
    NoUser <- "none", Custom <- {"r1"}, SeededRoles <- {"r2"}, Standard <- {"w"},
    Profiles <- {[scopes |-> {"default"}, all |-> FALSE, standard |-> TRUE]},
    Cars <- {}, CarUser <- <<>>, Api <- "api", relations <- tuples

\* what is listed of the bindings of a group and a user, on any resource
List == INSTANCE BindingQueries WITH
    Groups <- {"g"}, Principals <- {"p"}, Home <- {"p"}, UserIds <- {"u"},
    NoUser <- "none", Custom <- {}, SeededRoles <- {"r"}, Standard <- {"w"},
    Profiles <- {[scopes |-> {"root"}, all |-> TRUE, standard |-> TRUE]},
    Cars <- {}, CarUser <- <<>>, Api <- "api", relations <- tuples
\* and of a group and a user of another tenant with a cross-account request
Guest == INSTANCE BindingQueries WITH
    Groups <- {"g"}, Principals <- {"p"}, Home <- {}, UserIds <- {"u"},
    NoUser <- "none", Custom <- {}, SeededRoles <- {"r"}, Standard <- {"w"},
    Profiles <- {[scopes |-> {"default"}, all |-> FALSE, standard |-> TRUE]},
    Cars <- {"c"}, CarUser <- [c \in {"c"} |-> "u"], Api <- "api", relations <- tuples

\* a group and two cars of one user; a scope that moves, with its migration
CalmMixes ==
    {{"assign", "unassign", "destroy"} \X {"g1"} \cup {"approve", "deny"} \X {"c1", "c2"},
     {<<"reseed", "migration">>} \cup {"assign", "destroy"} \X {"g1", "g2"},
     {<<"reseed", "migration">>, <<"deny", "c1">>, <<"approve", "c1">>, <<"assign", "g1">>}}
\* a group loses the role while the migration moves its bindings
RaceMixes == {{<<"unassign", "g1">>, <<"reseed", "migration">>}}
Role == INSTANCE SystemRoleBindings WITH
    Groups <- {"g1", "g2"}, Cars <- {"c1", "c2"}, UserOf <- [c \in {"c1", "c2"} |-> "u"],
    Requests <- {"q1", "q2"}, Migration <- "migration", OldScopes <- {1}

\* access rows without resource definitions, with one, with several and other keys
On(ids) == [key |-> "group.id", ids |-> ids]
Access(p, defs) == [perm |-> p, defs |-> defs]
AccessLists ==
    {{}, {Access("p", {}), Access("q", {})}, {Access("p", {On({"w"})}), Access("q", {})},
     {Access("p", {On({"w", "default"})}), Access("q", {On({"w"})})},
     {Access("p", {On({"w"}), [key |-> "other", ids |-> {}]}), Access("q", {On({"default"})})}}
Custom == INSTANCE CustomRoles WITH
    CustomRoleIds <- {"r"}, Members <- {"g", "h"}, Permissions <- {"p", "q"}, Standard <- {"w"},
    Settings <- {[p |-> 1, q |-> 3], [p |-> 2, q |-> 1], [p |-> 4, q |-> 3]}, V2Ids <- 1..6,
    Orders <- {<<"w", "x", "default", "root", "tenant">>, <<"tenant", "root", "default", "x", "w">>}

\* a user who may be renamed, a service account
Body(users, accounts) == [users |-> users, accounts |-> accounts]
Member == INSTANCE Membership WITH
    Groups <- {"g"}, Users <- {"p"}, Accounts <- {"s"}, NamesOf <- [u \in {"p"} |-> {"a", "b"}],
    Additions <- {Body({"a"}, {"s"}), Body({"b"}, {})},
    Removals <- {Body({"a"}, {}), Body({}, {"s"})},
    Requests <- {"r"}, Configs <- [authoritative : BOOLEAN, updates : BOOLEAN],
    LateIds <- FALSE, MaxEvents <- 2, BatchSize <- 2

Tree == INSTANCE Workspaces WITH
    StandardIds <- {"u", "v", "w"}, Names <- {"x"}, Renames <- {<<"default", "x">>, <<"u", "y">>},
    DepthLimit <- 3, CountLimit <- 3, RestrictPeers <- TRUE, Writers <- {"q1", "q2"}

Scope == INSTANCE PermissionScopes WITH
    ResourceTypes <- {"x", "y"}, Verbs <- {"r", "w"}, MaxPatterns <- 2, RoleSize <- 2,
    Catalogs <- {{"x", "y"} \X {"r", "w"}, ({"x", "y"} \X {"r", "*"}) \cup {<<"*", "*">>}}

-----------------------------------------------------------------------------
BindVars == <<live, principals, userId, profile, bindings, entries, tuples, car, listed, asked>>
RoleVars == <<ops, holders, alive, rows, relations, scopeState, job, tx, locks>>
CustomVars == <<db, setting, removing>>
MemberVars == <<directory, topic, listener, adding, members, config>>
TreeVars == <<tree, parents, mirror, writing>>
ScopeVars == <<patterns, running, table, scopeCache>>
vars == <<part, BindVars, RoleVars, CustomVars, MemberVars, TreeVars, ScopeVars>>

\* the variables of a component that is not explored
NoBind == live = 0 /\ principals = 0 /\ userId = 0 /\ profile = 0 /\ bindings = 0 /\
    entries = 0 /\ tuples = 0 /\ car = 0 /\ listed = 0 /\ asked = 0
NoRole == ops = 0 /\ holders = 0 /\ alive = 0 /\ rows = 0 /\ relations = 0 /\ scopeState = 0 /\
    job = 0 /\ tx = 0 /\ locks = 0
NoCustom == db = 0 /\ setting = 0 /\ removing = 0
NoMember == directory = 0 /\ topic = 0 /\ listener = 0 /\ adding = 0 /\ members = 0 /\
    config = 0
NoTree == tree = 0 /\ parents = 0 /\ mirror = 0 /\ writing = 0
NoScope == patterns = 0 /\ running = 0 /\ table = 0 /\ scopeCache = 0

Init ==
    /\ part \in Parts
    /\ CASE part = "bindings" -> Bind!Init /\ asked = 0
         [] part = "listing"  -> List!ListInit
         [] part = "guests"   -> Guest!ListInit
         [] OTHER             -> NoBind
    /\ IF part = "system" THEN Role!RoleInit ELSE NoRole
    /\ IF part = "custom" THEN Custom!CustomInit ELSE NoCustom
    /\ IF part = "members" THEN Member!MemberInit ELSE NoMember
    /\ IF part = "tree" THEN Tree!TreeInit ELSE NoTree
    /\ IF part = "scopes" THEN Scope!ScopeInit ELSE NoScope

Next ==
    \/ /\ part = "bindings" /\ Bind!Next /\ UNCHANGED asked
       /\ UNCHANGED <<part, RoleVars, CustomVars, MemberVars, TreeVars, ScopeVars>>
    \/ /\ part = "listing" /\ List!ListNext
       /\ UNCHANGED <<part, RoleVars, CustomVars, MemberVars, TreeVars, ScopeVars>>
    \/ /\ part = "guests" /\ Guest!ListNext
       /\ UNCHANGED <<part, RoleVars, CustomVars, MemberVars, TreeVars, ScopeVars>>
    \/ /\ part = "system" /\ Role!RoleNext
       /\ UNCHANGED <<part, BindVars, CustomVars, MemberVars, TreeVars, ScopeVars>>
    \/ /\ part = "custom" /\ Custom!CustomNext
       /\ UNCHANGED <<part, BindVars, RoleVars, MemberVars, TreeVars, ScopeVars>>
    \/ /\ part = "members" /\ Member!MemberNext
       /\ UNCHANGED <<part, BindVars, RoleVars, CustomVars, TreeVars, ScopeVars>>
    \/ /\ part = "tree" /\ Tree!TreeNext
       /\ UNCHANGED <<part, BindVars, RoleVars, CustomVars, MemberVars, ScopeVars>>
    \/ /\ part = "scopes" /\ Scope!ScopeNext
       /\ UNCHANGED <<part, BindVars, RoleVars, CustomVars, MemberVars, TreeVars>>

Spec == Init /\ [][Next]_vars

-----------------------------------------------------------------------------
\* the replicated tuples are those of the rows (RoleBindings)
RelationsMatchRows == part = "bindings" => Bind!RelationsMatchRows

\* listings of bindings agree with each other and with what Kessel enforces (BindingQueries)
ListingsAgree ==
    /\ part = "listing" => List!ListingsAgree
    /\ part = "guests" => Guest!ListingsAgree

\* one mapping per scope of a system role, none without subjects, and the tuples sent
\* are those of the mappings (SystemRoleBindings)
TuplesFollowMappings ==
    part = "system" => Role!OneMappingPerScope /\ Role!TuplesFollowMappings

\* subjects are bound exactly where they hold the role (SystemRoleBindings)
HoldersArePlaced == part = "system" => Role!HoldersArePlaced

\* the tuples of a custom role grant what its V1 access rows grant (CustomRoles)
TuplesGrantV1Access == part = "custom" => Custom!TuplesGrantV1Access

\* mappings, V2 rows and tuples of a custom role agree (CustomRoles)
RowsAndTuplesAgree == part = "custom" => Custom!RowsAndTuplesAgree

\* no binding stays on a deleted workspace (CustomRoles)
BoundWorkspacesStand == part = "custom" => Custom!BoundWorkspacesStand



\* Kessel and the followers of workspace events know the tree (Workspaces)
MirrorsFollowTree == part = "tree" => Tree!MirrorsFollowTree


=============================================================================
