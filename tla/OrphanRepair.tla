---------------------------- MODULE OrphanRepair ----------------------------
(***************************************************************************)
(* The jobs that repair the tuples of one tenant in Kessel while requests  *)
(* go on: cleanup_tenant_orphan_bindings removes what the rows do not      *)
(* explain and replicates the bindings again, rebuild_tenant_workspace_    *)
(* relations adds missing parents, remove_deleted_workspace_bindings drops *)
(* rows of deleted workspaces.  A job reads Kessel outside of its          *)
(* transactions, and Kessel lags behind the outbox.  A transaction is one  *)
(* step: rows it decides on are locked, or it is SERIALIZABLE against the  *)
(* other writers.  Identifiers are UUIDs and are not used twice.           *)
(***************************************************************************)
EXTENDS Naturals, Sequences, FiniteSets, SequencesExt, FiniteSetsExt

CONSTANTS Spaces,      \* workspaces below the root
          BindingIds, CustomRoleIds, Subjects,
          Starts,      \* rows and drift a behaviour may start from
          MaxDisturbances   \* requests, and failures of the clean-up

VARIABLES stored,      \* rows: parent, bindings, roles, custom (default group)
          issued,      \* identifiers in use so far
          pending,     \* the outbox
          tuples,      \* Kessel
          missing,     \* tuples missing in Kessel at first
          cleanup, rebuild, disturbed

repairVars == <<stored, issued, pending, tuples, missing, cleanup, rebuild, disturbed>>

Root == "root"
TenantResource == "tenant"
Builtin == "builtin"   \* the default access binding of users

BindingTuples(b, r) ==
    {<<"binding", r.on, b>>, <<"role", b, r.role>>} \cup {<<"subject", b, s>> : s \in r.subjects}

RoleTuples(r) == {<<"permission", r, "*">>}

\* what the rows say Kessel should hold
Expected(d) ==
    {<<"parent", w, d.parent[w]>> : w \in DOMAIN d.parent}
        \cup UNION {BindingTuples(b, d.bindings[b]) : b \in DOMAIN d.bindings}
        \cup UNION {RoleTuples(r) : r \in d.roles}
        \cup (IF d.custom THEN {} ELSE {<<"binding", Root, Builtin>>})

Applied(state, e) == (state \ e.remove) \cup e.add

\* Kessel once the outbox is delivered
Eventual == FoldLeft(Applied, tuples, pending)

Send(add, remove) ==
    pending' = IF add \cup remove = {} THEN pending
               ELSE Append(pending, [add |-> add, remove |-> remove])

NoJob == [step |-> "idle", stack |-> {}, found |-> {}, todo |-> {}, at |-> "none",
          read |-> {}, seen |-> {}]

RepairInit ==
    \E s \in Starts :
        /\ stored = s.rows
        /\ tuples = (Expected(s.rows) \ s.missing) \cup s.excess
        /\ missing = s.missing
        /\ issued = DOMAIN s.rows.parent \cup DOMAIN s.rows.bindings \cup s.used
        /\ pending = <<>>
        /\ cleanup = NoJob
        /\ rebuild = [started |-> FALSE, todo |-> {}]
        /\ disturbed = 0

\* the replication consumer applies the next event
Deliver ==
    /\ pending # <<>>
    /\ tuples' = Applied(tuples, Head(pending))
    /\ pending' = Tail(pending)
    /\ UNCHANGED <<missing, stored, issued, cleanup, rebuild, disturbed>>

-----------------------------------------------------------------------------
(* Requests                                                                *)

Write(rows, add, remove) ==
    /\ disturbed < MaxDisturbances
    /\ disturbed' = disturbed + 1
    /\ stored' = rows
    /\ Send(add, remove)
    /\ UNCHANGED <<missing, tuples, cleanup, rebuild>>

Resources(d) == DOMAIN d.parent \cup {Root, TenantResource}

CreateBinding(b, w, r, s) ==
    /\ b \notin issued /\ w \in Resources(stored) /\ r \in stored.roles
    /\ issued' = issued \cup {b}
    /\ LET row == [on |-> w, role |-> r, subjects |-> {s}]
       IN Write([stored EXCEPT !.bindings =
                    [c \in DOMAIN @ \cup {b} |-> IF c = b THEN row ELSE @[c]]],
                BindingTuples(b, row), {})

\* a binding without subjects is deleted
ChangeSubject(b, s) ==
    /\ b \in DOMAIN stored.bindings
    /\ LET row == stored.bindings[b]
           left == row.subjects \ {s}
       IN IF s \notin row.subjects
          THEN Write([stored EXCEPT !.bindings[b].subjects = @ \cup {s}],
                     {<<"subject", b, s>>}, {})
          ELSE IF left # {}
          THEN Write([stored EXCEPT !.bindings[b].subjects = left],
                     {}, {<<"subject", b, s>>})
          ELSE Write([stored EXCEPT !.bindings = [c \in DOMAIN @ \ {b} |-> @[c]]],
                     {}, BindingTuples(b, row))
    /\ UNCHANGED issued

CreateWorkspace(w, p) ==
    /\ w \notin issued /\ p \in DOMAIN stored.parent \cup {Root}
    /\ issued' = issued \cup {w}
    /\ Write([stored EXCEPT !.parent =
                 [v \in DOMAIN @ \cup {w} |-> IF v = w THEN p ELSE @[v]]],
             {<<"parent", w, p>>}, {})

MoveWorkspace(w, p) ==
    /\ w \in DOMAIN stored.parent /\ p \in (DOMAIN stored.parent \cup {Root}) \ {w}
    /\ p # stored.parent[w] /\ (p # Root => stored.parent[p] # w)
    /\ Write([stored EXCEPT !.parent[w] = p],
             {<<"parent", w, p>>}, {<<"parent", w, stored.parent[w]>>})
    /\ UNCHANGED issued

\* its direct bindings go with the workspace
DeleteWorkspace(w) ==
    /\ w \in DOMAIN stored.parent /\ \A v \in DOMAIN stored.parent : stored.parent[v] # w
    /\ LET bound == {b \in DOMAIN stored.bindings : stored.bindings[b].on = w}
       IN Write([stored EXCEPT !.parent = [v \in DOMAIN @ \ {w} |-> @[v]],
                               !.bindings = [b \in DOMAIN @ \ bound |-> @[b]]],
                {}, {<<"parent", w, stored.parent[w]>>}
                      \cup UNION {BindingTuples(b, stored.bindings[b]) : b \in bound})
    /\ UNCHANGED issued

\* a custom default group appears, or is deleted
Customize ==
    /\ LET t == {<<"binding", Root, Builtin>>}
       IN Write([stored EXCEPT !.custom = ~@],
                IF stored.custom THEN t ELSE {}, IF stored.custom THEN {} ELSE t)
    /\ UNCHANGED issued

-----------------------------------------------------------------------------
(* cleanup_tenant_orphan_bindings                                          *)

Running == UNCHANGED <<missing, stored, issued, tuples, rebuild, disturbed>>

StartCleanup ==
    /\ cleanup.step = "idle"
    /\ cleanup' = [NoJob EXCEPT !.step = "walk", !.stack = {Root}]
    /\ UNCHANGED pending /\ Running

\* _collect_remote_workspaces: the children of one workspace in Kessel
Walk(p) ==
    /\ cleanup.step = "walk" /\ p \in cleanup.stack
    /\ LET children == {t[2] : t \in {u \in tuples : u[1] = "parent" /\ u[3] = p}}
           known == {e[2] : e \in cleanup.found}
       IN cleanup' = [cleanup EXCEPT
                        !.stack = (@ \ {p}) \cup (children \ known),
                        !.found = @ \cup {<<"parent", w, p>> : w \in children}]
    /\ UNCHANGED pending /\ Running

ResourcesToVisit(found) == Resources(stored) \cup {e[2] : e \in found}

EndWalk ==
    /\ cleanup.step = "walk" /\ cleanup.stack = {}
    /\ cleanup' = [cleanup EXCEPT !.step = "resources",
                                  !.todo = ResourcesToVisit(cleanup.found)]
    /\ UNCHANGED pending /\ Running

\* _collect_remote_relations_for_binding, for the bindings of one resource
OfBindings(w) ==
    LET bound == {b \in BindingIds \cup {Builtin} : <<"binding", w, b>> \in tuples}
    IN {t \in tuples : \/ t[1] = "binding" /\ t[2] = w
                       \/ t[1] \in {"role", "subject"} /\ t[2] \in bound}

ReadBindings(w) ==
    /\ cleanup.step = "resources" /\ w \in cleanup.todo
    /\ TenantResource \in cleanup.todo => w = TenantResource
    /\ cleanup' = [cleanup EXCEPT !.step = "bindings", !.at = w,
                                  !.todo = @ \ {w}, !.read = OfBindings(w), !.seen = {}]
    /\ UNCHANGED pending /\ Running


\* mutant: the built-in binding is treated as any other
BindingOrphansPlain(read) ==
    read \ UNION {BindingTuples(b, stored.bindings[b]) : b \in DOMAIN stored.bindings}

\* the transaction of _remove_orphaned_role_bindings compares the tuples read with the
\* rows; of the built-in binding only the resource's tuple goes, for a custom group
BindingOrphans(read) ==
    LET builtin == {t \in read : t[3] = Builtin}
        expected == UNION {BindingTuples(b, stored.bindings[b]) : b \in DOMAIN stored.bindings}
    IN ((read \ builtin) \ expected) \cup (IF stored.custom THEN builtin ELSE {})

RemoveBindings ==
    /\ cleanup.step = "bindings"
    /\ Send({}, BindingOrphans(cleanup.read))
    /\ cleanup' = [cleanup EXCEPT !.step = "roles", !.read = {},
                     !.seen = {t[3] : t \in {u \in cleanup.read : u[1] = "role"}}]
    /\ Running

\* _remove_orphaned_custom_role_relations reads the roles seen, then compares
ReadRoles ==
    /\ cleanup.step = "roles"
    /\ cleanup' = [cleanup EXCEPT !.step = "permissions",
                     !.read = {t \in tuples : t[1] = "permission" /\ t[2] \in cleanup.seen}]
    /\ UNCHANGED pending /\ Running

RemoveRoles ==
    /\ cleanup.step = "permissions"
    /\ Send({}, {t \in cleanup.read : t[2] \notin stored.roles})
    /\ cleanup' = [cleanup EXCEPT !.step = "resources", !.read = {}, !.seen = {}]
    /\ Running

\* _remove_orphaned_workspace_parent_relations, once every resource is done
RemoveOrphanedParents ==
    /\ cleanup.step = "resources" /\ cleanup.todo = {}
    /\ Send({}, {e \in cleanup.found : e[2] \notin DOMAIN stored.parent})
    /\ cleanup' = [cleanup EXCEPT !.step = "parents"]
    /\ Running

ExcessParents(found) ==
    {e \in found : e[2] \in DOMAIN stored.parent /\ stored.parent[e[2]] # e[3]}

\* _remove_incorrect_workspace_parent_relations locks the workspaces
RemoveIncorrectParents ==
    /\ cleanup.step = "parents"
    /\ Send({}, ExcessParents(cleanup.found))
    /\ cleanup' = [cleanup EXCEPT !.step = "list"]
    /\ Running

\* replicate_missing_binding_tuples lists the bindings of the workspaces and the tenant
ListBindings ==
    /\ cleanup.step = "list"
    /\ cleanup' = [cleanup EXCEPT !.step = "replicate",
                     !.read = {b \in DOMAIN stored.bindings :
                                 stored.bindings[b].on \in Resources(stored)}]
    /\ UNCHANGED pending /\ Running

\* _do_replicate_missing_binding_tuples_batch locks them and sends their tuples, with
\* those of their custom roles
ReplicateBindings ==
    /\ cleanup.step = "replicate"
    /\ Send(UNION {BindingTuples(b, stored.bindings[b]) \cup RoleTuples(stored.bindings[b].role)
                      : b \in cleanup.read \cap DOMAIN stored.bindings}, {})
    /\ cleanup' = [NoJob EXCEPT !.step = "done"]
    /\ Running

\* an exception: the job is tried again, or run again later
FailCleanup ==
    /\ cleanup.step \notin {"idle", "done"} /\ disturbed < MaxDisturbances
    /\ disturbed' = disturbed + 1
    /\ cleanup' = NoJob
    /\ UNCHANGED <<missing, stored, issued, pending, tuples, rebuild>>

-----------------------------------------------------------------------------
(* rebuild_tenant_workspace_relations, remove_deleted_workspace_bindings   *)

\* _build_workspace_graph
StartRebuild ==
    /\ ~rebuild.started
    /\ rebuild' = [started |-> TRUE,
                   todo |-> {<<"parent", w, stored.parent[w]>> : w \in DOMAIN stored.parent}]
    /\ UNCHANGED <<missing, stored, issued, pending, tuples, cleanup, disturbed>>

UnchangedParent(e) == e[2] \in DOMAIN stored.parent /\ stored.parent[e[2]] = e[3]

\* _process_workspace_in_transaction locks parent and child, then reads Kessel
RebuildParent(e) ==
    /\ e \in rebuild.todo
    /\ rebuild' = [rebuild EXCEPT !.todo = @ \ {e}]
    /\ Send(IF UnchangedParent(e) /\ e \notin tuples THEN {e} ELSE {}, {})
    /\ UNCHANGED <<missing, stored, issued, tuples, cleanup, disturbed>>

\* rows bound to a workspace that does not exist any more
Stranded ==
    {b \in DOMAIN stored.bindings : stored.bindings[b].on \notin Resources(stored)}

RemoveDeletedWorkspaceBindings ==
    /\ Stranded # {}
    /\ stored' = [stored EXCEPT !.bindings = [b \in DOMAIN @ \ Stranded |-> @[b]]]
    /\ Send({}, UNION {BindingTuples(b, stored.bindings[b]) : b \in Stranded})
    /\ UNCHANGED <<missing, issued, tuples, cleanup, rebuild, disturbed>>

-----------------------------------------------------------------------------
RepairNext ==
    \/ Deliver
    \/ \E b \in BindingIds, s \in Subjects :
         \/ ChangeSubject(b, s)
         \/ \E w \in Spaces \cup {Root, TenantResource}, r \in CustomRoleIds :
               CreateBinding(b, w, r, s)
    \/ \E w \in Spaces :
         \/ DeleteWorkspace(w)
         \/ \E p \in Spaces \cup {Root} : CreateWorkspace(w, p) \/ MoveWorkspace(w, p)
    \/ Customize
    \/ StartCleanup \/ (\E p \in Spaces \cup {Root} : Walk(p)) \/ EndWalk
    \/ (\E w \in Spaces \cup {Root, TenantResource} : ReadBindings(w))
    \/ RemoveBindings \/ ReadRoles \/ RemoveRoles
    \/ RemoveOrphanedParents \/ RemoveIncorrectParents
    \/ ListBindings \/ ReplicateBindings \/ FailCleanup
    \/ StartRebuild \/ (\E e \in rebuild.todo : RebuildParent(e))
    \/ RemoveDeletedWorkspaceBindings

RepairSpec == RepairInit /\ [][RepairNext]_repairVars

-----------------------------------------------------------------------------
(* Properties                                                              *)

Above(T, w) ==
    LET Up(S) == S \cup {t[3] : t \in {u \in T : u[1] = "parent" /\ u[2] \in S}}
        f[n \in 0..Cardinality(Spaces)] == IF n = 0 THEN {w} ELSE Up(f[n - 1])
    IN f[Cardinality(Spaces)]

\* who holds which role on which resource, by the tuples T
Access(T) ==
    {<<w, s, r>> \in (Spaces \cup {Root, TenantResource}) \X Subjects \X CustomRoleIds :
        \E b \in BindingIds :
            /\ {<<"subject", b, s>>, <<"role", b, r>>} \subseteq T
            /\ \E v \in Above(T, w) : <<"binding", v, b>> \in T}

\* No step of a job or of a request makes a tuple that the rows need go missing, though a
\* job decides on tuples it read before its transaction, from a Kessel that lags.
NothingNeededRemoved == Expected(stored) \ Eventual \subseteq missing


=============================================================================
