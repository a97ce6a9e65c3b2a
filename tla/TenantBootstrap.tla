-------------------------- MODULE TenantBootstrap --------------------------
(***************************************************************************)
(* How an organization gets its V2 rows and relations: the bootstrap       *)
(* service (management/tenant_service/v2.py), which the middleware, the    *)
(* import of users, the internal endpoint, the management command and the  *)
(* customization of the default group call concurrently; the deletion of   *)
(* a custom default group; the repair of admin bindings, the deletion of   *)
(* imported tenants, the workspace for ungrouped hosts and the check of a  *)
(* bootstrapped tenant.                                                    *)
(*                                                                         *)
(* Requests from users and imports run SERIALIZABLE, the others at READ    *)
(* COMMITTED with row locks.  Relations are replicated in commit order, so *)
(* a commit changes them together with the rows.  The three scopes of      *)
(* default access are bound together and stand for one.                    *)
(***************************************************************************)
EXTENDS Naturals, Sequences, FiniteSets

CONSTANTS
    Orgs,          \* the organizations
    Jobs,          \* the requests and commands that run
    Casts,         \* what they may ask for; see Request
    InitialRows,   \* what the tenants table may hold initially; see Tenant
    MaxAttempts    \* retries of a serializable transaction; attempts of the command

VARIABLES
    tenants,       \* tenants[o]: the rows of organization o
    granted,       \* granted[o]: the relations replicated for it
    published,     \* default groups of the public tenant that were seeded
    owed,          \* owed[o]: default access skipped because its group was not seeded
    asks,          \* asks[j]: what job j asks for
    jobs           \* jobs[j]: how far it is

bootstrapVars == <<tenants, granted, published, owed, asks, jobs>>

Access == {"user", "admin"}    \* DefaultAccessType

(* group is the uuid of the custom default group, pk counts the rows that  *)
(* were created for it; mapping is the uuid that the tenant mapping names  *)
(* for the default group: the tenant's own, or that of a custom default    *)
(* group older than the mapping.                                           *)
Tenant == [row : {"none", "imported", "ready"}, mapping : {"none", "own", "old"},
           group : {"none", "own", "old"}, pk : Nat, hosts : {"none", "x", "generated"}]

Absent == [row |-> "none", mapping |-> "none", group |-> "none", pk |-> 0, hosts |-> "none"]

(* hosts is the ungrouped_hosts_id that the endpoint is given with the     *)
(* first organization.                                                     *)
Request == [op : {"lazy", "import", "endpoint", "command", "customize", "delete", "admin",
                  "reset", "sweep", "ungrouped", "users"},
            orgs : Seq(Orgs), force : BOOLEAN, create : BOOLEAN, hosts : {"none", "x"}]

Serializable(j) == asks[j].op \in {"lazy", "import", "users"}

(* A job's transaction is for the organizations in batch; todo are those   *)
(* it has yet to lock, rest those left for later transactions; seen are    *)
(* the rows it read and, at READ COMMITTED, locked; read the custom        *)
(* default groups it read last.                                            *)
NewJob == [pc |-> "idle", batch |-> <<>>, todo |-> <<>>, rest |-> <<>>, seen |-> <<>>,
           read |-> <<>>, tries |-> 0, result |-> "none"]

Mapped(o) == tenants[o].mapping # "none"

Members(s) == {s[i] : i \in 1..Len(s)}

(***************************************************************************)
(* The relations of a tenant                                               *)
(***************************************************************************)
built_in_hierarchy_tuples == {<<"parent", "default">>, <<"tenant", "root">>, <<"platform", "tenant">>}

(* With resource_binding_only, just the one that unbinds the access.       *)
default_role_binding_tuples(access, resourceBindingOnly) ==
    {"binding"} \X {access} \union IF resourceBindingOnly THEN {} ELSE {"role", "subject"} \X {access}

(* The default groups of the public tenant name the roles; without them    *)
(* DefaultGroupNotAvailableError is caught and nothing is bound.           *)
bootstrap_default_access(group) ==
    UNION {default_role_binding_tuples(a, FALSE) :
              a \in published \intersect (IF group = "none" THEN Access ELSE {"admin"})}

(* What remains owed after access has been bound.                          *)
StillOwed(group, due) == (due \ published) \ (IF group = "none" THEN {} ELSE {"user"})

(* Tenants are as an undisturbed bootstrap left them, or not bootstrapped. *)
BootstrapInit ==
    /\ tenants \in [Orgs -> InitialRows]
    /\ published \in {{}, {"user"}, Access}
    /\ \A o \in Orgs : tenants[o].group # "none" => "user" \in published
    /\ granted = [o \in Orgs |->
            IF Mapped(o) THEN built_in_hierarchy_tuples \union bootstrap_default_access(tenants[o].group)
            ELSE {}]
    /\ owed = [o \in Orgs |-> IF Mapped(o) THEN StillOwed(tenants[o].group, Access) ELSE {}]
    /\ asks \in Casts
    /\ jobs = [j \in Jobs |-> NewJob]

(***************************************************************************)
(* Transactions                                                            *)
(***************************************************************************)
(* j begins a transaction for batch; a serializable one reads its snapshot.*)
Started(j, batch, rest, tries) ==
    [NewJob EXCEPT !.pc = IF Serializable(j) THEN "commit" ELSE "lock",
                   !.batch = batch, !.todo = batch, !.rest = rest, !.tries = tries,
                   !.seen = tenants, !.read = [o \in Orgs |-> tenants[o].group]]

Finished(how) == [NewJob EXCEPT !.pc = "done", !.result = how]

(* Locks on the mapping and on the custom default group of o, and on the   *)
(* org_id of a tenant that j created; nothing else without these rows.     *)
Holds(j, o) ==
    /\ jobs[j].pc \in {"lock", "read", "commit"} /\ ~Serializable(j)
    /\ o \in Members(jobs[j].batch) \ Members(jobs[j].todo)
    /\ \/ jobs[j].seen[o].group # "none"
       \/ jobs[j].seen[o].mapping # "none" /\ asks[j].op # "delete"
       \/ jobs[j].seen[o].row = "none"

(* Mutation of Blockers: the row of the custom default group is not locked.*)
BlockersOfMappingOnly(j) ==
    {k \in Jobs \ {j} : /\ jobs[j].pc = "lock" /\ jobs[j].todo # <<>> /\ asks[j].op # "delete"
                        /\ Holds(k, Head(jobs[j].todo)) /\ asks[k].op # "delete"}

(* try_lock_tenants_for_bootstrap has to wait for any holder, the deletion *)
(* of a group only for those that locked the group.                        *)
Blockers(j) ==
    {k \in Jobs \ {j} : /\ jobs[j].pc = "lock" /\ jobs[j].todo # <<>>
                        /\ Holds(k, Head(jobs[j].todo))
                        /\ asks[j].op = "delete" => jobs[k].seen[Head(jobs[j].todo)].group # "none"}

(* The rows are read once the locks are held.                              *)
try_lock_tenants_for_bootstrap(j) ==
    LET o == Head(jobs[j].todo) IN
    /\ jobs[j].pc = "lock" /\ jobs[j].todo # <<>> /\ Blockers(j) = {}
    /\ tenants[o].row # "none" \/ asks[j].create
    /\ jobs' = [jobs EXCEPT ![j].todo = Tail(@), ![j].seen[o] = tenants[o],
                            ![j].pc = IF Len(jobs[j].todo) = 1 THEN "read" ELSE @]
    /\ UNCHANGED <<tenants, granted, published, owed, asks>>

(* A tenant without mapping is read again with its default group.          *)
tenant_default_groups(j) ==
    /\ jobs[j].pc = "read"
    /\ jobs' = [jobs EXCEPT ![j].pc = "commit", ![j].read = [o \in Orgs |-> tenants[o].group]]
    /\ UNCHANGED <<tenants, granted, published, owed, asks>>

(* PostgreSQL ends a deadlock by failing one of its transactions.          *)
InDeadlock(j) == \E k \in Blockers(j) : j \in Blockers(k)

(***************************************************************************)
(* What a transaction does to one organization                             *)
(***************************************************************************)
State(o) == [tenant |-> tenants[o], granted |-> granted[o], owed |-> owed[o]]

(* Rows and relations of a tenant without mapping; its mapping takes the   *)
(* uuid of a custom default group.                                         *)
bootstrap_tenants_no_replicate(s, group) ==
    [tenant |-> [s.tenant EXCEPT !.mapping = IF group = "none" THEN "own" ELSE group],
     granted |-> s.granted \union built_in_hierarchy_tuples \union bootstrap_default_access(group),
     owed |-> StillOwed(group, Access)]

replicate_bootstraps(s, group) ==
    [s EXCEPT !.granted = @ \union built_in_hierarchy_tuples \union bootstrap_default_access(group),
              !.owed = StillOwed(group, @)]

(* bootstrap_tenant and bootstrap_tenants, for the state s of a tenant.    *)
bootstrap_tenant(j, o, s) ==
    LET seen == jobs[j].seen[o]  group == jobs[j].read[o] IN
    IF seen.mapping = "none" THEN bootstrap_tenants_no_replicate(s, group)
    ELSE IF asks[j].force THEN replicate_bootstraps(s, group) ELSE s

(* A tenant that the request creates.                                      *)
get_or_create(s, row) == IF s.tenant.row = "none" THEN [s EXCEPT !.tenant.row = row] ELSE s

(* The custom default group takes the uuid of the mapping, and the default *)
(* access of users is unbound.                                             *)
clone_default_group_in_public_schema(s) ==
    [tenant |-> [s.tenant EXCEPT !.group = s.tenant.mapping, !.pk = @ + 1],
     granted |-> s.granted \ default_role_binding_tuples("user", TRUE),
     owed |-> s.owed \ {"user"}]

(* The default access of users is restored in full; deleting a group that  *)
(* is gone has no effect.                                                  *)
prepare_to_delete_group(s, pk) ==
    [tenant |-> IF s.tenant.pk = pk THEN [s.tenant EXCEPT !.group = "none"] ELSE s.tenant,
     granted |-> s.granted \union default_role_binding_tuples("user", FALSE),
     owed |-> s.owed]

(* id is "none" when the caller does not choose it.                        *)
get_or_create_ungrouped_workspace(s, id) ==
    IF s.tenant.hosts # "none" THEN s
    ELSE LET new == IF id = "none" THEN "generated" ELSE id
         IN [s EXCEPT !.tenant.hosts = new, !.granted = @ \union {<<"hosts", new>>}]

(* UngroupedWorkspaceError: the tenant has another workspace for ungrouped *)
(* hosts, or the id is taken.  A creation that loses a race ends likewise. *)
UngroupedWorkspaceError(o, id) ==
    /\ id # "none"
    /\ \/ tenants[o].hosts \notin {"none", id}
       \/ \E p \in Orgs \ {o} : tenants[p].hosts = id

After(j, o) ==
    LET op == asks[j].op  ask == asks[j]
        created == get_or_create(State(o), IF op \in {"lazy", "users"} THEN "ready" ELSE "imported")
    IN CASE op = "customize" -> clone_default_group_in_public_schema(bootstrap_tenant(j, o, State(o)))
         [] op = "delete"    -> prepare_to_delete_group(State(o), jobs[j].seen[o].pk)
         [] op = "endpoint" /\ ask.hosts # "none" /\ o = Head(ask.orgs) ->
                get_or_create_ungrouped_workspace(bootstrap_tenant(j, o, created), ask.hosts)
         [] OTHER            -> bootstrap_tenant(j, o, created)

(***************************************************************************)
(* How a transaction ends                                                  *)
(***************************************************************************)

(* The command, and the endpoint that bootstraps users, go on with the     *)
(* organizations left to them.                                             *)
NextTenant(j, ok) ==
    LET job == jobs[j] IN
    IF job.rest = <<>> THEN Finished(IF ok /\ job.result # "failed" THEN "done" ELSE "failed")
    ELSE [Started(j, <<Head(job.rest)>>, Tail(job.rest), 1)
             EXCEPT !.result = IF ok THEN job.result ELSE "failed"]

(* A failed batch of the command is done tenant by tenant, a tenant is     *)
(* tried several times; other callers give up.                             *)
Failed(j) ==
    LET job == jobs[j]
        again(batch, rest) ==
            [Started(j, batch, rest, job.tries + 1) EXCEPT !.result = job.result]
    IN IF asks[j].op = "command" /\ job.tries = 0 THEN again(<<Head(job.batch)>>, Tail(job.batch))
       ELSE IF asks[j].op = "command" /\ job.tries < MaxAttempts THEN again(job.batch, job.rest)
       ELSE NextTenant(j, FALSE)

(* The mapping is unique, and its tenant has to exist.                     *)
IntegrityError(j) ==
    /\ asks[j].op \in {"endpoint", "command", "customize"}
    /\ \E o \in Members(jobs[j].batch) :
          /\ jobs[j].seen[o].mapping = "none"
          /\ Mapped(o) \/ (jobs[j].seen[o].row # "none" /\ tenants[o].row = "none")

Refused(j) ==
    LET o == Head(jobs[j].batch) IN
    CASE asks[j].op = "customize" -> jobs[j].read[o] # "none"
      [] asks[j].op = "delete"    -> jobs[j].seen[o].group = "none" \/ ~Mapped(o)
      [] asks[j].op = "endpoint"  -> UngroupedWorkspaceError(Head(asks[j].orgs), asks[j].hosts)
      [] OTHER                    -> FALSE

(* The rows that a snapshot shows have changed since.                      *)
Conflict(j) ==
    \E o \in Members(jobs[j].batch) :
        \/ jobs[j].seen[o].mapping # tenants[o].mapping \/ jobs[j].seen[o].group # tenants[o].group
        \/ (jobs[j].seen[o].row = "none") # (tenants[o].row = "none")

Commit(j) ==
    LET done == Members(jobs[j].batch) IN
    /\ jobs[j].pc = "commit"
    /\ IF Serializable(j) THEN ~Conflict(j) /\ \A k \in Jobs, o \in done : ~Holds(k, o)
       ELSE ~IntegrityError(j) /\ ~Refused(j)
    /\ tenants' = [o \in Orgs |-> IF o \in done THEN After(j, o).tenant ELSE tenants[o]]
    /\ granted' = [o \in Orgs |-> IF o \in done THEN After(j, o).granted ELSE granted[o]]
    /\ owed' = [o \in Orgs |-> IF o \in done THEN After(j, o).owed ELSE owed[o]]
    /\ jobs' = [jobs EXCEPT ![j] = NextTenant(j, TRUE)]
    /\ UNCHANGED <<published, asks>>

Rollback(j) ==
    /\ \/ jobs[j].pc = "commit" /\ ~Serializable(j) /\ (IntegrityError(j) \/ Refused(j))
       \/ InDeadlock(j)
    /\ jobs' = [jobs EXCEPT ![j] = Failed(j)]
    /\ UNCHANGED <<tenants, granted, published, owed, asks>>

(* run_atomic_with_retry: a serialization failure is retried.              *)
run_atomic_with_retry(j) ==
    /\ jobs[j].pc = "commit" /\ Serializable(j) /\ Conflict(j)
    /\ jobs' = [jobs EXCEPT ![j] =
            IF @.tries < MaxAttempts
            THEN [Started(j, @.batch, @.rest, @.tries + 1) EXCEPT !.result = jobs[j].result]
            ELSE NextTenant(j, FALSE)]
    /\ UNCHANGED <<tenants, granted, published, owed, asks>>

(* A unique constraint may notice the conflict first: the middleware then  *)
(* takes the tenant that someone else created, the others fail.            *)
LostRace(j) ==
    /\ jobs[j].pc = "commit" /\ Serializable(j) /\ Conflict(j)
    /\ jobs' = [jobs EXCEPT ![j] = NextTenant(j, asks[j].op = "lazy")]
    /\ UNCHANGED <<tenants, granted, published, owed, asks>>

(* The tenant's row is read before it is locked; without it the request is *)
(* answered 404, and the command leaves the tenant out.                    *)
Vanished(j) ==
    /\ jobs[j].pc = "lock" /\ jobs[j].todo # <<>> /\ ~asks[j].create
    /\ tenants[Head(jobs[j].todo)].row = "none"
    /\ jobs' = [jobs EXCEPT ![j] = IF asks[j].op = "command" /\ @.tries > 0
                                   THEN NextTenant(j, FALSE) ELSE Failed(j)]
    /\ UNCHANGED <<tenants, granted, published, owed, asks>>

(***************************************************************************)
(* Requests                                                                *)
(***************************************************************************)

(* Of the organizations named to the command only the tenants are taken.   *)
Batch(ask) ==
    LET known(o) == tenants[o].row # "none"
    IN IF ask.op = "command" THEN SelectSeq(ask.orgs, known) ELSE ask.orgs

(* A request for a tenant that exists only makes it ready, bootstrapped or *)
(* not.                                                                    *)
Begin(j) ==
    LET ask == asks[j]  known(o) == tenants[o].row # "none"
        batch == Batch(ask)
        first == IF ask.op = "users" THEN <<Head(batch)>> ELSE batch
        rest == IF ask.op = "users" THEN Tail(batch) ELSE <<>>
    IN
    /\ jobs[j].pc = "idle"
    /\ ask.op \notin {"ungrouped", "admin", "reset", "sweep"}
    /\ ask.op = "customize" => "user" \in published
    /\ tenants' = IF ask.op = "lazy" /\ known(Head(batch))
                  THEN [tenants EXCEPT ![Head(batch)].row = "ready"] ELSE tenants
    /\ jobs' = [jobs EXCEPT ![j] =
            IF ask.op = "lazy" /\ known(Head(batch)) THEN Finished("done")
            ELSE IF batch = <<>> THEN Finished("failed")
            ELSE [Started(j, first, rest, 0)
                     EXCEPT !.result = IF batch = ask.orgs THEN "none" ELSE "failed"]]
    /\ UNCHANGED <<granted, published, owed, asks>>

(* The service for hosts creates and bootstraps a tenant it does not find; *)
(* an existing tenant has to be bootstrapped.                              *)
retrieve_ungrouped_workspace(j) ==
    LET o == Head(asks[j].orgs)
        found == tenants[o].row # "none"
        s == IF found THEN State(o)
             ELSE bootstrap_tenants_no_replicate(get_or_create(State(o), "imported"), "none")
        after == IF s.tenant.mapping = "none" THEN s ELSE get_or_create_ungrouped_workspace(s, "none")
    IN
    /\ jobs[j].pc = "idle" /\ asks[j].op = "ungrouped"
    /\ found \/ \A k \in Jobs : ~Holds(k, o)
    /\ tenants' = [tenants EXCEPT ![o] = after.tenant]
    /\ granted' = [granted EXCEPT ![o] = after.granted]
    /\ owed' = [owed EXCEPT ![o] = after.owed]
    /\ jobs' = [jobs EXCEPT ![j] = Finished(IF after.tenant.mapping = "none" THEN "failed" ELSE "done")]
    /\ UNCHANGED <<published, asks>>

(* Admin bindings are not customizable, so nothing is locked.              *)
fix_admin_default_bindings(j) ==
    LET o == Head(asks[j].orgs) IN
    /\ jobs[j].pc = "idle" /\ asks[j].op = "admin"
    /\ LET fixed == Mapped(o) /\ "admin" \in published IN
       /\ granted' = [granted EXCEPT ![o] =
                        IF fixed THEN @ \union default_role_binding_tuples("admin", FALSE) ELSE @]
       /\ owed' = [owed EXCEPT ![o] = IF fixed THEN @ \ {"admin"} ELSE @]
       /\ jobs' = [jobs EXCEPT ![j] = Finished(IF fixed THEN "done" ELSE "failed")]
    /\ UNCHANGED <<tenants, published, asks>>

Records(o) == Mapped(o) \/ tenants[o].group # "none"

(* The tenants that are not ready or, with another flag, those without     *)
(* records.                                                                *)
ToReset(j) ==
    {o \in Orgs : IF asks[j].op = "reset" THEN tenants[o].row = "imported"
                  ELSE tenants[o].row # "none" /\ ~Records(o)}

(* One statement deletes them; a record that refers to any of them fails   *)
(* it.                                                                     *)
reset_imported_tenants(j) ==
    /\ jobs[j].pc = "idle" /\ asks[j].op \in {"reset", "sweep"}
    /\ LET refers == \E o \in ToReset(j) : Records(o) IN
       /\ tenants' = [o \in Orgs |-> IF ~refers /\ o \in ToReset(j) THEN Absent ELSE tenants[o]]
       /\ jobs' = [jobs EXCEPT ![j] = Finished(IF refers THEN "failed" ELSE "done")]
    /\ UNCHANGED <<granted, published, owed, asks>>

(* The default groups of the public tenant are seeded, together; an older  *)
(* deployment may have left it without that for admins.                    *)
Publish ==
    /\ published # Access
    /\ published' = Access
    /\ UNCHANGED <<tenants, granted, owed, asks, jobs>>

BootstrapNext ==
    \/ \E j \in Jobs :
          \/ Begin(j) \/ try_lock_tenants_for_bootstrap(j) \/ tenant_default_groups(j)
          \/ Commit(j) \/ Rollback(j) \/ run_atomic_with_retry(j) \/ LostRace(j) \/ Vanished(j)
          \/ retrieve_ungrouped_workspace(j) \/ fix_admin_default_bindings(j)
          \/ reset_imported_tenants(j)
    \/ Publish

(***************************************************************************)
(* The check of a bootstrapped tenant                                      *)
(***************************************************************************)
check_inventory_core(o, relations) == relations \subseteq granted[o]

build_named_tuples(o) ==
    built_in_hierarchy_tuples
    \union UNION {default_role_binding_tuples(a, FALSE) : a \in Access}
    \union IF tenants[o].hosts = "none" THEN {} ELSE {<<"hosts", tenants[o].hosts>>}

check_bootstrapped_tenant(o) == check_inventory_core(o, build_named_tuples(o))

(***************************************************************************)
(* Properties                                                              *)
(***************************************************************************)

(* Whatever meets, a bootstrapped tenant has its hierarchy, the admin      *)
(* access that was available, and the platform's access for users exactly  *)
(* while it has no custom default group; that group is the one its mapping *)
(* adds users to.  A tenant that is not bootstrapped has no relations.     *)
DefaultAccessStands ==
    \A o \in Orgs :
        IF ~Mapped(o) THEN granted[o] = {}
        ELSE /\ built_in_hierarchy_tuples \subseteq granted[o]
             /\ \A a \in Access :
                   (default_role_binding_tuples(a, FALSE) \subseteq granted[o])
                       <=> a \notin owed[o] /\ (a = "user" => tenants[o].group = "none")
             /\ <<"binding", "user">> \in granted[o] => tenants[o].group = "none"
             /\ tenants[o].group \in {"none", tenants[o].mapping}

(* A caller that is told of success finds the tenants it named             *)
(* bootstrapped, with the workspace it asked for, which no other tenant    *)
(* has.                                                                    *)
SuccessIsBootstrapped ==
    \A j \in Jobs :
        LET ask == asks[j] IN
        jobs[j].result = "done" /\ jobs[j].pc = "done"
          /\ ask.op \in {"import", "users", "endpoint", "command", "ungrouped"} =>
            /\ \A o \in Members(ask.orgs) : Mapped(o)
            /\ ask.op = "ungrouped" => tenants[Head(ask.orgs)].hosts # "none"
            /\ ask.op = "endpoint" /\ ask.hosts # "none" =>
                  /\ tenants[Head(ask.orgs)].hosts = ask.hosts
                  /\ \A o \in Orgs \ {Head(ask.orgs)} : tenants[o].hosts # ask.hosts

(* The check passes for exactly the bootstrapped tenants that have all of  *)
(* the platform's access: with a custom default group it fails.            *)
CheckIsExact ==
    \A o \in Orgs :
        check_bootstrapped_tenant(o)
            <=> Mapped(o) /\ owed[o] = {} /\ tenants[o].group = "none"

TenantsStand == DefaultAccessStands /\ SuccessIsBootstrapped /\ CheckIsExact
============================================================================
