----------------------------- MODULE MCReadPaths -----------------------------
(***************************************************************************)
(* Cross-account access (RoleBindings) and what the reports of the MCP     *)
(* server say about access (AccessReports), explored one by one.  They     *)
(* share no state here; part chooses the one that a behaviour is about.    *)
(***************************************************************************)
EXTENDS RoleBindings, Naturals, FiniteSets, TLC

CONSTANTS Parts,                   \* the components explored
          c1, c2, p1, p2, u1, u2   \* cross-account requests, principals and user ids

VARIABLES part, orgVersion, orgGroups, roleAccess, grantRows, trail, checked, edits

CarVars == vars
ReportVars == <<orgVersion, orgGroups, roleAccess, grantRows, trail, checked, edits>>
allVars == <<part, CarVars, ReportVars>>

\* two cross-account requests of one user, and roles whose permissions are seeded anew
MCTwoCars == c1 :> u1 @@ c2 :> u1

Workspace == [scopes |-> {"default"}, all |-> FALSE, standard |-> TRUE]
Mixed == [scopes |-> {"tenant", "default"}, all |-> FALSE, standard |-> FALSE]

MCChanging == {Workspace, Mixed}

(* Both requests are of the same user, and the principals and user ids are *)
(* alike.                                                                  *)
MCSymmetry ==
    Permutations({c1, c2}) \union Permutations({p1, p2}) \union Permutations(UserIds)

\* a user, an org admin and a service account in up to two groups
Perm(app, res, verb) == [app |-> app, res |-> res, verb |-> verb]
Group(members, rs) == [live |-> TRUE, members |-> members, roles |-> rs]
NoGroup == [live |-> FALSE, members |-> {}, roles |-> {}]
SeededAccess ==
    [viewer |-> {Perm("inv", "hosts", "read")}, admin |-> {Perm("rbac", "*", "*")},
     owner |-> {Perm("inv", "*", "*"), Perm("inv", "groups", "write")}]
FirstGroups(g1, g2, d) == [g1 |-> g1, g2 |-> g2, default |-> d, stray |-> NoGroup]

Report == INSTANCE AccessReports WITH
    Users <- {"ann", "adm"}, Admins <- {"adm"}, Bots <- {"bot"}, Groups <- {"g1", "g2"},
    Seeded <- SeededAccess, CustomRole <- "custom", PlatformRoles <- {"viewer"},
    AdminRoles <- {"admin"}, Delegate <- "admin",
    CustomAccess <- {{Perm("inv", "hosts", "*")},
                     {Perm("inv", "groups", "write"), Perm("inv", "hosts", "read")}},
    Blocked <- {Perm("inv", "groups", "write")},
    Asked <- {Perm("inv", "hosts", "write"), Perm("inv", "groups", "write"),
              Perm("inv", "hosts", "read"), Perm("rbac", "group", "write")},
    Starts <- {FirstGroups(g1, g2, d) :
         g1 \in {NoGroup, Group({"ann"}, {"custom"}), Group({"ann", "adm"}, {"admin"})},
         g2 \in {Group({"bot"}, {}), Group({"ann"}, {"owner"}), Group({"adm"}, {"custom", "owner"})},
         d \in {NoGroup, Group({}, {"owner"})}},
    MaxChanges <- 2,
    version <- orgVersion, groups <- orgGroups, access <- roleAccess, bindings <- grantRows,
    pending <- checked, changes <- edits

-----------------------------------------------------------------------------
\* the variables of a component that is not explored
NoCars == Init /\ profile = [r \in Roles |-> Workspace]
NoReports ==
    /\ orgVersion = 0 /\ orgGroups = 0 /\ roleAccess = 0 /\ grantRows = 0 /\ trail = 0
    /\ checked = 0 /\ edits = 0

MCInit ==
    /\ part \in Parts
    /\ IF part = "cars" THEN Init ELSE NoCars
    /\ IF part = "reports" THEN Report!ReportInit ELSE NoReports

MCNext ==
    \/ part = "cars" /\ Next /\ UNCHANGED <<part, ReportVars>>
    \/ part = "reports" /\ Report!ReportNext /\ UNCHANGED <<part, CarVars>>

MCSpec == MCInit /\ [][MCNext]_allVars
-----------------------------------------------------------------------------
\* the tools agree with each other and with the access enforced (AccessReports)
ReportsAgree == part = "reports" => Report!ReportsAgree
\* the audit of a group foresees what its deletion takes away (AccessReports)
LossForeseen == [][part = "reports" => Report!LossForeseenStep]_allVars
\* only org admins give write access to RBAC (AccessReports)
GrantedByAdminsOnly == [][part = "reports" => Report!GrantedByAdminsOnlyStep]_allVars
=============================================================================
