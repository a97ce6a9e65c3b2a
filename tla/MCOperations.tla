---------------------------- MODULE MCOperations ----------------------------
(***************************************************************************)
(* The components around the access data, explored one by one: bootstrap   *)
(* of tenants, seeding, caches, waiting for replication, disaster          *)
(* recovery, repair of relations, MCP tools, access decisions, and the     *)
(* check of rows against relations.                                        *)
(***************************************************************************)
EXTENDS Naturals, Sequences, FiniteSets, TLC

CONSTANT Parts   \* the components explored

VARIABLES part,
          tenants, granted, published, owed, asks, jobs,
          rolesV1, rolesV2, permissions, defaultGroups, kesselRoles, destructive,
          seeder, runs, failures,
          kind, version, gone, redis, outage, change, reading, served, late,
          outbox, relay, freshness, skipped, sessions, waiting, looked,
          database, kessel, hbi, history, backup, phase, plan, crashes,
          stored, issued, pending, tuples, missing, cleanup, rebuild, disturbed,
          deployed, call, cache, previews, work, poolQueue, shutdown,
          spaces, known, grants, caller, switch, changes, reachable, answer,
          rows, relations, lagging, check, steady, absent, budget

\* requests that meet over tenant a, some of them over b as well
Ask(op, orgs) ==
    [op |-> op, orgs |-> orgs, force |-> FALSE, create |-> FALSE, hosts |-> "none"]
Of(op) == Ask(op, <<"a">>)
Endpoint == [Ask("endpoint", <<"b", "a">>) EXCEPT !.create = TRUE, !.hosts = "x"]
Command == [Ask("command", <<"a", "b">>) EXCEPT !.force = TRUE]
Mix(x, y, z) == [j1 |-> x, j2 |-> y, j3 |-> z]
Tenant(row, mapping, group) ==
    [row |-> row, mapping |-> mapping, group |-> group, pk |-> 0, hosts |-> "none"]
Bootstrap == INSTANCE TenantBootstrap WITH
    Orgs <- {"a", "b"}, Jobs <- {"j1", "j2", "j3"}, MaxAttempts <- 1,
    InitialRows <- {Tenant("none", "none", "none"), Tenant("imported", "none", "none"),
                    Tenant("ready", "none", "old"), Tenant("ready", "own", "own")},
    Casts <- {Mix(Command, Endpoint, Of("customize")), Mix(Command, Of("delete"), Of("customize")),
              Mix(Of("delete"), Of("delete"), Of("customize")),
              Mix(Endpoint, Of("lazy"), Of("customize")),
              Mix(Ask("import", <<"a", "b">>), Of("customize"), Of("admin")),
              Mix(Endpoint, [Endpoint EXCEPT !.orgs = <<"a", "b">>], Of("ungrouped")),
              Mix(Command, Of("reset"), Of("lazy")), Mix(Endpoint, Of("ungrouped"), Of("sweep")),
              Mix(Ask("import", <<"a">>), Of("lazy"), Of("reset")),
              Mix(Ask("users", <<"a", "b">>), Of("lazy"), Of("customize"))}

\* the newer deployment changes a role and the scopes, drops a role and adds another
Defines(n, access, defaults) == [version |-> n, access |-> access, defaults |-> defaults]
Deployments ==
    [old |-> [permissions |-> {"p"}, scope |-> [p |-> "default"],
              roles |-> [x |-> Defines(1, {"p"}, {"platform"}), z |-> Defines(1, {"p"}, {"admin"})]],
     new |-> [permissions |-> {"p", "q"}, scope |-> [p |-> "root", q |-> "tenant"],
              roles |-> [x |-> Defines(2, {"p", "q"}, {"admin"}), y |-> Defines(1, {"q"}, {"platform"})]]]
Seed == INSTANCE Seeding WITH
    RoleNames <- {"x", "y", "z"}, MaxSeedRuns <- 2, MaxSeedFailures <- 1

Kinds == {"response", "principal", "policy"}
Cache == INSTANCE Caches WITH
    Life <- [k \in Kinds |-> IF k = "response" THEN 1 ELSE 2],
    PurgeOf <- ("policy" :> "signal" @@ "principal" :> "never" @@ "response" :> "commit"),
    Fields <- [k \in Kinds |-> IF k = "policy" THEN {"p", "q"} ELSE {"p"}],
    Readers <- {"r1", "r2"}, RequestTime <- 1, MaxChanges <- 2, MaxOutages <- 1

Wait == INSTANCE ReadYourWrites WITH
    Creators <- {"c", "d"}, Jobs <- {"j"}, Casts <- {{"c", "d"}, {"j", "c"}},
    Batches <- 2, MaxRedeliveries <- 1

Recovery == INSTANCE DisasterRecovery WITH
    Resources <- {"r1", "r2"}, Subjects <- {"s"}, WorkspaceNames <- {"x", "y"},
    MaxEvents <- 4, Live <- FALSE

\* a deleted workspace whose parent tuple stayed, with a binding on it; a missing parent
\* tuple in a tenant with a custom default group; a binding without row
Binding(w) == [on |-> w, role |-> "r", subjects |-> {"s"}]
Rows == [parent |-> [w \in {"a"} |-> "root"], bindings |-> [b \in {"b1"} |-> Binding("a")],
         roles |-> {"r"}, custom |-> FALSE]
Starts ==
    {[rows |-> [Rows EXCEPT !.bindings = ("b1" :> Binding("a") @@ "b2" :> Binding("z"))],
      missing |-> {<<"role", "b1", "r">>}, used |-> {"z"},
      excess |-> {<<"parent", "a", "z">>, <<"parent", "z", "root">>, <<"subject", "b1", "t">>}],
     [rows |-> [Rows EXCEPT !.parent = [w \in {"a", "z"} |-> "root"], !.custom = TRUE],
      missing |-> {<<"parent", "a", "root">>}, used |-> {},
      excess |-> {<<"binding", "root", "builtin">>}],
     [rows |-> [Rows EXCEPT !.bindings["b1"].subjects = {"s", "t"}], missing |-> {}, used |-> {"b2"},
      excess |-> {<<"binding", "tenant", "b2">>, <<"role", "b2", "q">>, <<"subject", "b2", "t">>,
                  <<"permission", "q", "*">>}]}
Repair == INSTANCE OrphanRepair WITH
    Spaces <- {"a", "z"}, BindingIds <- {"b1", "b2"}, CustomRoleIds <- {"r", "q"},
    Subjects <- {"s", "t"}, MaxDisturbances <- 1

\* confirmed writes; a V1 tenant; a deployment without writes whose Kessel fails
Settings(tools, v2, writes, activated, kesselAnswer) ==
    [tools |-> tools, v2 |-> v2, writes |-> writes, confirm |-> v2, activated |-> activated,
     kessel |-> kesselAnswer, v1 |-> TRUE]
Mcp == INSTANCE McpTools WITH
    Calls <- {"p", "q", "r"}, ToolArguments <- {"x", "y"}, Orgs <- {"o"}, MaxWorkers <- 1,
    ToolSettings <- {Settings({"create_group"}, TRUE, TRUE, TRUE, "allowed"),
                     Settings({"list_roles", "delete_workspace"}, FALSE, TRUE, FALSE, "failed"),
                     Settings({"create_group", "list_bindings"}, TRUE, FALSE, TRUE, "failed")}

Grant(op, on) == [op |-> op, on |-> on]
Switch(v2, fine, tenantAuth) == [v2 |-> v2, fine |-> fine, tenantAuth |-> tenantAuth]
Access == INSTANCE WorkspaceAccess WITH
    InitialTree <- [root |-> "none", default |-> "root", ungrouped |-> "default",
                    a |-> "default", b |-> "a", c |-> "b"],
    Callers <- [system : BOOLEAN, admin : BOOLEAN],
    GrantSets <- {{Grant("read", {})}, {Grant("write", {"b"})},
                  {Grant("*", {"c"}), Grant("read", {"a"})},
                  {Grant("write", {}), Grant("role_binding_grant", {"tenant", "a"})},
                  {Grant("role_binding_grant", {"a"}), Grant("role_binding_revoke", {"b"})},
                  {Grant("*", {"null"})}},
    Switches <- {Switch(FALSE, TRUE, FALSE), Switch(TRUE, FALSE, TRUE), Switch(TRUE, TRUE, FALSE)},
    MaxTreeChanges <- 1

\* tenant a is not bootstrapped, or bootstrapped with or without a custom default group
Holding(workspaces, roles, groups, bootstrap) ==
    [workspace |-> workspaces, role |-> roles, group |-> groups, bootstrap |-> bootstrap, seeded |-> {}]
SeededWith(roles) == [Holding({}, {}, {}, {}) EXCEPT !.seeded = roles]
Named == {"hierarchy", "user", "admin"}
Contents ==
    [public |-> {SeededWith({"r"}), SeededWith({"s"})},
     a |-> {Holding({}, {}, {}, {}), Holding({"default"}, {"p"}, {}, Named),
            Holding({"moved"}, {}, {"u"}, Named), Holding({"default"}, {}, {}, Named \ {"user"})},
     b |-> {Holding({"default"}, {}, {"u"}, Named)}]
CheckOf(scheduled, enabled, org_ids) ==
    [scheduled |-> scheduled, enabled |-> enabled, org_ids |-> org_ids]
Parity == INSTANCE ParityCheck WITH
    Orgs <- {"public", "a", "b"}, MaxWrites <- 1, MaxLost <- 1, MaxErrors <- 1,
    InitialRows <- {[public |-> SeededWith({"r"}), a |-> x, b |-> y] :
                      x \in Contents.a, y \in Contents.b},
    Asks <- {CheckOf(TRUE, TRUE, <<"a", "", "a">>), CheckOf(TRUE, FALSE, <<"a">>),
             CheckOf(TRUE, TRUE, <<"">>),
             CheckOf(FALSE, FALSE, <<"c", "b", "a">>), CheckOf(FALSE, TRUE, <<"a", "">>)},
    kessel <- relations, outbox <- lagging, missing <- absent

-----------------------------------------------------------------------------
BootstrapVars == <<tenants, granted, published, owed, asks, jobs>>
SeedVars == <<rolesV1, rolesV2, permissions, defaultGroups, kesselRoles, destructive, seeder,
    runs, failures>>
CacheVars == <<kind, version, gone, redis, outage, change, reading, served, late>>
WaitVars == <<outbox, relay, freshness, skipped, sessions, waiting, looked>>
RecoveryVars == <<database, kessel, hbi, history, backup, phase, plan, crashes>>
RepairVars == <<stored, issued, pending, tuples, missing, cleanup, rebuild, disturbed>>
McpVars == <<deployed, call, cache, previews, work, poolQueue, shutdown>>
AccessVars == <<spaces, known, grants, caller, switch, changes, reachable, answer>>
ParityVars == <<rows, relations, lagging, check, steady, absent, budget>>
vars == <<part, BootstrapVars, SeedVars, CacheVars, WaitVars, RecoveryVars, RepairVars, McpVars, AccessVars, ParityVars>>

\* the variables of a component that is not explored
NoBootstrap == tenants = 0 /\ granted = 0 /\ published = 0 /\ owed = 0 /\ asks = 0 /\ jobs = 0
NoSeed == rolesV1 = 0 /\ rolesV2 = 0 /\ permissions = 0 /\ defaultGroups = 0 /\
    kesselRoles = 0 /\ destructive = 0 /\ seeder = 0 /\ runs = 0 /\ failures = 0
NoCache == kind = 0 /\ version = 0 /\ gone = 0 /\ redis = 0 /\ outage = 0 /\ change = 0 /\
    reading = 0 /\ served = 0 /\ late = 0
NoWait == outbox = 0 /\ relay = 0 /\ freshness = 0 /\ skipped = 0 /\ sessions = 0 /\
    waiting = 0 /\ looked = 0
NoRecovery == database = 0 /\ kessel = 0 /\ hbi = 0 /\ history = 0 /\ backup = 0 /\ phase = 0 /\
    plan = 0 /\ crashes = 0
NoRepair == stored = 0 /\ issued = 0 /\ pending = 0 /\ tuples = 0 /\ missing = 0 /\
    cleanup = 0 /\ rebuild = 0 /\ disturbed = 0
NoMcp == deployed = 0 /\ call = 0 /\ cache = 0 /\ previews = 0 /\ work = 0 /\ poolQueue = 0 /\
    shutdown = 0
NoAccess == spaces = 0 /\ known = 0 /\ grants = 0 /\ caller = 0 /\ switch = 0 /\ changes = 0 /\
    reachable = 0 /\ answer = 0
NoParity == rows = 0 /\ relations = 0 /\ lagging = 0 /\ check = 0 /\ steady = 0 /\ absent = 0 /\
    budget = 0

Init ==
    /\ part \in Parts
    /\ IF part = "bootstrap" THEN Bootstrap!BootstrapInit ELSE NoBootstrap
    /\ IF part = "seeding" THEN Seed!SeedInit ELSE NoSeed
    /\ IF part = "caches" THEN Cache!CacheInit ELSE NoCache
    /\ IF part = "wait" THEN Wait!WaitInit ELSE NoWait
    /\ IF part = "recovery" THEN Recovery!RecoveryInit ELSE NoRecovery
    /\ IF part = "repair" THEN Repair!RepairInit ELSE NoRepair
    /\ IF part = "mcp" THEN Mcp!McpInit ELSE NoMcp
    /\ IF part = "access" THEN Access!AccessInit ELSE NoAccess
    /\ IF part = "parity" THEN Parity!ParityInit ELSE NoParity

Next ==
    \/ /\ part = "bootstrap" /\ Bootstrap!BootstrapNext
       /\ UNCHANGED <<part, SeedVars, CacheVars, WaitVars, RecoveryVars, RepairVars, McpVars, AccessVars, ParityVars>>
    \/ /\ part = "seeding" /\ Seed!SeedNext
       /\ UNCHANGED <<part, BootstrapVars, CacheVars, WaitVars, RecoveryVars, RepairVars, McpVars, AccessVars, ParityVars>>
    \/ /\ part = "caches" /\ Cache!CacheNext
       /\ UNCHANGED <<part, BootstrapVars, SeedVars, WaitVars, RecoveryVars, RepairVars, McpVars, AccessVars, ParityVars>>
    \/ /\ part = "wait" /\ Wait!WaitNext
       /\ UNCHANGED <<part, BootstrapVars, SeedVars, CacheVars, RecoveryVars, RepairVars, McpVars, AccessVars, ParityVars>>
    \/ /\ part = "recovery" /\ Recovery!RecoveryNext
       /\ UNCHANGED <<part, BootstrapVars, SeedVars, CacheVars, WaitVars, RepairVars, McpVars, AccessVars, ParityVars>>
    \/ /\ part = "repair" /\ Repair!RepairNext
       /\ UNCHANGED <<part, BootstrapVars, SeedVars, CacheVars, WaitVars, RecoveryVars, McpVars, AccessVars, ParityVars>>
    \/ /\ part = "mcp" /\ Mcp!McpNext
       /\ UNCHANGED <<part, BootstrapVars, SeedVars, CacheVars, WaitVars, RecoveryVars, RepairVars, AccessVars, ParityVars>>
    \/ /\ part = "access" /\ Access!AccessNext
       /\ UNCHANGED <<part, BootstrapVars, SeedVars, CacheVars, WaitVars, RecoveryVars, RepairVars, McpVars, ParityVars>>
    \/ /\ part = "parity" /\ Parity!ParityNext
       /\ UNCHANGED <<part, BootstrapVars, SeedVars, CacheVars, WaitVars, RecoveryVars, RepairVars, McpVars, AccessVars>>

Spec == Init /\ [][Next]_vars

-----------------------------------------------------------------------------
\* bootstrapped tenants have the default access that is due to them, and callers and the
\* check of a tenant are told so (TenantBootstrap)
TenantsStand == part = "bootstrap" => Bootstrap!TenantsStand

\* V1 role, V2 role and relations of a seeded role agree (Seeding)
SeededRolesAgree == part = "seeding" => Seed!SeededRolesAgree

\* an undisturbed run leaves the definitions of its deployment (Seeding)
SeedingConverges == part = "seeding" => Seed!SeedingConverges

\* what a cache serves is stale for a bounded time only (Caches)
BoundedStaleness == part = "caches" => Cache!BoundedStaleness


\* a wait that succeeds means that the write was applied, and a created workspace is in
\* the next list (ReadYourWrites)
CreatedIsListed == part = "wait" => Wait!SuccessMeansApplied /\ Wait!CreatedIsListed


\* repairs remove nothing that the rows need (OrphanRepair)
NothingNeededRemoved == part = "repair" => Repair!NothingNeededRemoved





\* the check of rows against relations misses no lasting loss and raises no false alarm
\* (ParityCheck)
ParityReported == part = "parity" => Parity!ParityReported

=============================================================================
