------------------------- MODULE SystemRoleBindings -------------------------
(***************************************************************************)
(* Bindings of one system role in one V1 tenant.  The role is bound at the *)
(* scopes its permissions imply (1 default workspace, 2 root workspace,    *)
(* 3 tenant) with one BindingMapping row per scope; a row names the groups *)
(* and cross-account requests (cars) that hold the role there.  Requests   *)
(* are transactions: the group endpoints run READ COMMITTED, the endpoints *)
(* of cars and the scope migration SERIALIZABLE.  Seeding may change the   *)
(* scopes of the role; the migration then moves the bindings.              *)
(* A row stands for the BindingMapping and the RoleBinding written with it.*)
(***************************************************************************)
EXTENDS Naturals, FiniteSets, FiniteSetsExt

CONSTANTS Groups, Cars, UserOf, Requests, Migration, OldScopes, NewScopes,
          Mixes       \* the operations <<op, subject>> that meet in one behaviour

VARIABLES ops,        \* a member of Mixes
          holders,    \* groups with the role in their policy, approved cars
          alive,      \* groups that exist
          rows,       \* mapping rows: id, scope, subjects
          relations,  \* tuples replicated, in commit order
          scopeState, \* RoleScopeState: scopes, version, migrated
          job,        \* the scope migration: version it started from, todo
          tx,         \* the transaction of each request and of the migration
          locks       \* row locks: on, by, mode

roleVars == <<ops, holders, alive, rows, relations, scopeState, job, tx, locks>>

CONCRETE_SCOPES == 1..3
Transactions == Requests \cup {Migration}

SubjectTuple(id, s) ==
    IF s \in Groups THEN <<"group", id, s>> ELSE <<"user", id, UserOf[s]>>

RowTuples(r) ==
    {<<"role", r.id>>, <<"binding", r.id, r.scope>>}
        \cup {SubjectTuple(r.id, s) : s \in r.subjects}

Idle == [op |-> "none", subject |-> "none", step |-> "idle", phase |-> "none",
         todo |-> {}, at |-> <<>>, touched |-> {}, mine |-> {}, add |-> {},
         remove |-> {}, snap |-> {}, serial |-> FALSE, lost |-> {}]

RoleInit ==
    /\ ops \in Mixes
    /\ holders \in SUBSET ({o[2] : o \in ops} \ {Migration})
    /\ alive = Groups
    /\ rows = IF holders = {} THEN {}
              ELSE {[id |-> <<"init", "init", s>>, scope |-> s, subjects |-> holders]
                       : s \in OldScopes}
    /\ relations = UNION {RowTuples(r) : r \in rows}
    /\ scopeState = [scopes |-> OldScopes, version |-> 0, migrated |-> TRUE]
    /\ job = [active |-> FALSE, version |-> 0, todo |-> {}]
    /\ tx = [q \in Transactions |-> Idle]
    /\ locks = {}

-----------------------------------------------------------------------------
(* PostgreSQL                                                              *)

Blocked(q, on, mode) ==
    \E l \in locks : l.on = on /\ l.by # q /\ "update" \in {mode, l.mode}

WithLock(q, on, mode) == locks \cup {[on |-> on, by |-> q, mode |-> mode]}
Released(q) == {l \in locks : l.by # q}

\* what the statements of q see: the newest committed rows, or its snapshot,
\* with its own changes
Visible(q, s) ==
    {r \in (IF tx[q].serial THEN tx[q].snap.rows ELSE rows) :
         r.scope = s /\ r.id \notin tx[q].touched}
        \cup {r \in tx[q].mine : r.scope = s}

\* a SERIALIZABLE transaction cannot lock a row changed since its snapshot
ConcurrentUpdate(q, r) == r.id \in tx[q].lost

\* what the commit of q takes away from a SERIALIZABLE transaction p: the rows that
\* q changed, and the car when both read the rows of one car and write them
Lost(p, q) ==
    IF ~tx[p].serial THEN {}
    ELSE tx[q].touched \cup
         (IF tx[q].serial /\ tx[q].subject \in Cars \cap {tx[p].subject}
          THEN {<<"subject", tx[q].subject>>} ELSE {})

RolledBack(q) ==
    [tx EXCEPT ![q] = IF q = Migration THEN Idle ELSE [Idle EXCEPT !.step = "done"]]

\* exception, serialization failure, deadlock victim, lost connection
Rollback(q) ==
    /\ tx[q].step \notin {"idle", "done"}
    /\ tx' = RolledBack(q)
    /\ locks' = Released(q)
    /\ UNCHANGED <<ops, holders, alive, rows, relations, scopeState, job>>

Snapshot == [rows |-> rows, holders |-> holders, alive |-> alive,
             scopeState |-> scopeState]

-----------------------------------------------------------------------------
(* The update of one mapping: _update_mapping_for_system_role               *)

NextScope(q) == Min(tx[q].todo)

\* mutant: the tuple is removed though another car of the user needs it
UnassignedAlways(r, s) == {SubjectTuple(r.id, s)}

\* pop_group_from_bindings, unassign_user_from_bindings: the tuple is removed
\* unless another car of the same user still holds the role in this row
Unassigned(r, s) ==
    LET left == r.subjects \ {s}
    IN {SubjectTuple(r.id, s)} \ {SubjectTuple(r.id, t) : t \in left}

AfterRemoval(q, r) ==
    LET s == tx[q].subject
        left == [r EXCEPT !.subjects = @ \ {s}]
        empty == left.subjects = {}
    IN [tx[q] EXCEPT
          !.touched = @ \cup {r.id},
          !.mine = (@ \ {r}) \cup (IF empty THEN {} ELSE {left}),
          !.remove = @ \cup Unassigned(r, s) \cup (IF empty THEN RowTuples(left) ELSE {}),
          !.todo = @ \ {r.scope}, !.at = <<>>]

AfterAddition(q, r) ==
    LET s == tx[q].subject
    IN [tx[q] EXCEPT
          !.touched = @ \cup {r.id},
          !.mine = (@ \ {r}) \cup {[r EXCEPT !.subjects = @ \cup {s}]},
          !.add = @ \cup {SubjectTuple(r.id, s)},
          !.todo = @ \ {r.scope}, !.at = <<>>]

Looking(q, phase) ==
    tx[q].step = "scopes" /\ tx[q].todo # {} /\ tx[q].phase \in phase

\* SELECT ... FOR UPDATE finds a mapping that another transaction has locked
WaitForRow(q) ==
    /\ Looking(q, {"add", "remove"}) /\ tx[q].at = <<>>
    /\ \E r \in Visible(q, NextScope(q)) :
         /\ Blocked(q, <<"row", r.id>>, "update")
         /\ tx' = [tx EXCEPT ![q].at = r.id]
    /\ UNCHANGED <<ops, holders, alive, rows, relations, scopeState, job, locks>>

\* the mapping is locked, changed by the callback, and saved
UpdateRow(q) ==
    /\ Looking(q, {"add", "remove"})
    /\ \E r \in Visible(q, NextScope(q)) :
         /\ tx[q].at \in {<<>>, r.id}
         /\ ~Blocked(q, <<"row", r.id>>, "update")
         /\ ~ConcurrentUpdate(q, r)
         /\ tx' = [tx EXCEPT ![q] = IF tx[q].phase = "add" THEN AfterAddition(q, r)
                                    ELSE AfterRemoval(q, r)]
         /\ locks' = WithLock(q, <<"row", r.id>>, "update")
    /\ UNCHANGED <<ops, holders, alive, rows, relations, scopeState, job>>

\* the query returns no mapping: there was none when it began, or the one it waited
\* for was deleted meanwhile (READ COMMITTED does not look for another one)
NotFound(q) ==
    IF tx[q].at = <<>> THEN Visible(q, NextScope(q)) = {}
    ELSE \A r \in Visible(q, NextScope(q)) : r.id # tx[q].at

\* no mapping at this scope to remove the subject from
SkipScope(q) ==
    /\ Looking(q, {"remove"}) /\ NotFound(q)
    /\ tx' = [tx EXCEPT ![q].todo = @ \ {NextScope(q)}, ![q].at = <<>>]
    /\ UNCHANGED <<ops, holders, alive, rows, relations, scopeState, job, locks>>

Resource(q) == <<"resource", NextScope(q)>>

HoldsResource(q) ==
    [on |-> Resource(q), by |-> q, mode |-> "update"] \in locks

\* no mapping to add the subject to: lock the workspace or tenant, look again
LockResource(q) ==
    /\ Looking(q, {"add"}) /\ NotFound(q)
    /\ ~HoldsResource(q) /\ ~Blocked(q, Resource(q), "update")
    /\ tx' = [tx EXCEPT ![q].at = <<>>]
    /\ locks' = WithLock(q, Resource(q), "update")
    /\ UNCHANGED <<ops, holders, alive, rows, relations, scopeState, job>>

MayCreate(q) == HoldsResource(q) /\ NotFound(q)

\* _create_default_mapping_for_system_role; a committed row that a snapshot does
\* not show violates unique_bindingmapping_v2role_resource
CreateRow(q) ==
    /\ Looking(q, {"add"}) /\ MayCreate(q)
    /\ ~(tx[q].serial
         /\ \E r \in rows : r.scope = NextScope(q) /\ r.id \notin tx[q].touched)
    /\ LET r == [id |-> <<q, tx[q].subject, NextScope(q)>>,
                 scope |-> NextScope(q), subjects |-> {tx[q].subject}]
       IN tx' = [tx EXCEPT ![q].mine = @ \cup {r},
                           ![q].add = @ \cup RowTuples(r),
                           ![q].todo = @ \ {r.scope}, ![q].at = <<>>]
    /\ UNCHANGED <<ops, holders, alive, rows, relations, scopeState, job, locks>>

-----------------------------------------------------------------------------
(* The requests                                                            *)

Start(q, op, s, serial) ==
    /\ <<op, s>> \in ops /\ q \in Requests /\ tx[q].step = "idle"
    /\ tx' = [tx EXCEPT ![q] = [Idle EXCEPT !.op = op, !.subject = s, !.step = "begun",
                                            !.serial = serial,
                                            !.snap = IF serial THEN Snapshot ELSE {}]]
    /\ UNCHANGED <<ops, holders, alive, rows, relations, scopeState, job, locks>>

\* the unlocked get_object of POST and DELETE /groups/:uuid/roles/, the locked one
\* of DELETE /groups/:uuid/ and of the cars
StartRequest(q) ==
    \/ \E op \in {"assign", "unassign", "destroy"}, g \in alive : Start(q, op, g, FALSE)
    \/ \E op \in {"approve", "deny"}, c \in Cars : Start(q, op, c, TRUE)

Policy(q) == <<"policy", tx[q].subject>>

Finish(q) ==
    /\ tx' = RolledBack(q)
    /\ locks' = Released(q)

\* add_roles: the policy row is inserted unless it exists
AddRoles(q) ==
    /\ tx[q].step = "begun" /\ tx[q].op = "assign"
    /\ \/ tx[q].subject \in holders /\ Finish(q)
       \/ /\ tx[q].subject \notin holders
          /\ ~Blocked(q, Policy(q), "update")
          /\ tx' = [tx EXCEPT ![q].step = "role",
                              ![q].op = IF tx[q].subject \in alive THEN "assign" ELSE "recreate"]
          /\ locks' = WithLock(q, Policy(q), "update")
    /\ UNCHANGED <<ops, holders, alive, rows, relations, scopeState, job>>

\* mutant: a role is removed only where it is bound today
ScopesToRemoveToday == scopeState.scopes

\* scopes a removal visits, whatever the scopes of the role are
ScopesToRemove == CONCRETE_SCOPES

\* remove_roles: nothing happens unless the policy row exists
RemoveRoles(q) ==
    /\ tx[q].step = "begun" /\ tx[q].op = "unassign"
    /\ \/ tx[q].subject \notin holders /\ Finish(q)
       \/ /\ tx[q].subject \in holders
          /\ ~Blocked(q, Policy(q), "update")
          /\ tx' = [tx EXCEPT ![q].step = "scopes", ![q].phase = "remove",
                              ![q].todo = ScopesToRemove]
          /\ locks' = WithLock(q, Policy(q), "update")
    /\ UNCHANGED <<ops, holders, alive, rows, relations, scopeState, job>>

SubjectRow(q) == <<"subject", tx[q].subject>>

\* GroupViewSet.destroy: lock the group, then remove it from the mappings of its
\* roles, unless it has none
DestroyGroup(q) ==
    /\ tx[q].step = "begun" /\ tx[q].op = "destroy"
    /\ ~Blocked(q, SubjectRow(q), "update")
    /\ \/ tx[q].subject \notin alive /\ Finish(q)
       \/ /\ tx[q].subject \in alive
          /\ tx' = [tx EXCEPT ![q].step = "scopes", ![q].phase = "remove",
                              ![q].todo = IF tx[q].subject \in holders THEN ScopesToRemove
                                          ELSE {}]
          /\ locks' = WithLock(q, SubjectRow(q), "update")
    /\ UNCHANGED <<ops, holders, alive, rows, relations, scopeState, job>>

\* the locked read of a car; it fails when the car changed after the snapshot
UpdateCar(q) ==
    /\ tx[q].step = "begun" /\ tx[q].op \in {"approve", "deny"}
    /\ ~Blocked(q, SubjectRow(q), "update")
    /\ LET c == tx[q].subject
           current == (c \in holders) = (c \in tx[q].snap.holders)
           due == current /\ (tx[q].op = "deny") = (c \in holders)
       IN \/ ~due /\ Finish(q)
          \/ /\ due
             /\ tx' = [tx EXCEPT ![q].step = IF tx[q].op = "deny" THEN "scopes" ELSE "role",
                                 ![q].phase = "remove",
                                 ![q].todo = IF tx[q].op = "deny" THEN ScopesToRemove ELSE {}]
             /\ locks' = WithLock(q, SubjectRow(q), "update")
    /\ UNCHANGED <<ops, holders, alive, rows, relations, scopeState, job>>

Role == <<"role", "role">>

\* _with_system_roles_for_share: the lock keeps the scopes from changing until the
\* end of the transaction; a snapshot older than the seeding fails
ReadRole(q) ==
    /\ tx[q].step = "role"
    /\ ~Blocked(q, Role, "share")
    /\ tx[q].serial => tx[q].snap.scopeState.version = scopeState.version
    /\ tx' = [tx EXCEPT ![q].step = "scopes", ![q].phase = "add",
                        ![q].todo = scopeState.scopes]
    /\ locks' = WithLock(q, Role, "share")
    /\ UNCHANGED <<ops, holders, alive, rows, relations, scopeState, job>>

\* SSI, and the foreign keys, checked at the end of the transaction: a role cannot be added to
\* a group deleted meanwhile, and PROTECT keeps a bound group from being deleted
Consistent(q) ==
    LET s == tx[q].subject
    IN /\ SubjectRow(q) \notin tx[q].lost
       /\ tx[q].op = "assign" => s \in alive
       /\ tx[q].op = "destroy" =>
            \A r \in rows : r.id \in tx[q].touched \/ s \notin r.subjects

\* the cascade to the policy rows waits for a request that deletes one of them
Waits(q) ==
    tx[q].op = "destroy"
        /\ \E p \in Requests \ {q} :
              tx[p].op = "unassign" /\ [on |-> Policy(q), by |-> p, mode |-> "update"] \in locks

Commit(q) ==
    /\ tx[q].step = "scopes" /\ tx[q].todo = {}
    /\ tx[q].phase = "remove" => q # Migration
    /\ Consistent(q) /\ ~Waits(q)
    /\ LET s == tx[q].subject
           op == tx[q].op
       IN /\ holders' = IF op \in {"assign", "recreate", "approve"} THEN holders \cup {s}
                        ELSE IF op \in {"unassign", "destroy", "deny"} THEN holders \ {s}
                        ELSE holders
          /\ alive' = IF op = "recreate" THEN alive \cup {s}
                      ELSE IF op = "destroy" THEN alive \ {s} ELSE alive
          /\ job' = IF q = Migration THEN [job EXCEPT !.todo = @ \ {s}] ELSE job
    /\ rows' = {r \in rows : r.id \notin tx[q].touched} \cup tx[q].mine
    /\ relations' = (relations \ tx[q].remove) \cup tx[q].add
    /\ tx' = [p \in Transactions |->
                IF p = q THEN RolledBack(q)[q]
                ELSE [tx[p] EXCEPT !.lost = @ \cup Lost(p, q)]]
    /\ locks' = Released(q)
    /\ UNCHANGED <<ops, scopeState>>

-----------------------------------------------------------------------------
(* Seeding and the scope migration                                         *)

\* _make_role locks the role against assignments and records the new scopes
Reseed ==
    /\ <<"reseed", Migration>> \in ops /\ scopeState.version = 0
    /\ \A q \in Transactions : ~Blocked(q, Role, "update")
    /\ scopeState' = [scopes |-> NewScopes, version |-> 1, migrated |-> FALSE]
    /\ UNCHANGED <<ops, holders, alive, rows, relations, job, tx, locks>>

\* migrate_role_scope_if_changed: the first check, then the groups and cars
StartMigration ==
    /\ ~job.active /\ ~scopeState.migrated
    /\ job' = [active |-> TRUE, version |-> scopeState.version, todo |-> holders]
    /\ UNCHANGED <<ops, holders, alive, rows, relations, scopeState, tx, locks>>

\* assert_can_migrate opens the transaction of one group or car
MigrateSubject(s) ==
    /\ job.active /\ s \in job.todo /\ tx[Migration].step = "idle"
    /\ ~scopeState.migrated /\ scopeState.version = job.version
    /\ tx' = [tx EXCEPT ![Migration] = [Idle EXCEPT !.op = "migrate", !.subject = s,
                            !.step = "begun", !.serial = TRUE, !.snap = Snapshot]]
    /\ UNCHANGED <<ops, holders, alive, rows, relations, scopeState, job, locks>>

\* the locked read of the group or car, then the removal of its bindings
LockSubject ==
    /\ tx[Migration].step = "begun"
    /\ ~Blocked(Migration, SubjectRow(Migration), "update")
    /\ LET s == tx[Migration].subject
           held == s \in tx[Migration].snap.holders
           current == IF s \in Groups
                      THEN (s \in alive) = (s \in tx[Migration].snap.alive)
                      ELSE held = (s \in holders)
       IN \/ /\ current /\ held
             /\ tx' = [tx EXCEPT ![Migration].step = "scopes", ![Migration].phase = "remove",
                                 ![Migration].todo = ScopesToRemove]
             /\ locks' = WithLock(Migration, SubjectRow(Migration), "update")
             /\ UNCHANGED job
          \/ /\ current /\ ~held
             /\ job' = [job EXCEPT !.todo = @ \ {s}]
             /\ Finish(Migration)
    /\ UNCHANGED <<ops, holders, alive, rows, relations, scopeState>>

\* the second handler binds the roles again, at their scopes
Rebind ==
    /\ tx[Migration].step = "scopes" /\ tx[Migration].phase = "remove"
    /\ tx[Migration].todo = {}
    /\ tx' = [tx EXCEPT ![Migration].step = "role", ![Migration].phase = "add"]
    /\ UNCHANGED <<ops, holders, alive, rows, relations, scopeState, job, locks>>

\* a batch that fails again after the fallback ends the migration; it stays due
AbandonMigration ==
    /\ job.active /\ tx[Migration].step = "idle"
    /\ job' = [job EXCEPT !.active = FALSE]
    /\ UNCHANGED <<ops, holders, alive, rows, relations, scopeState, tx, locks>>

\* the final check and the flag
FinishMigration ==
    /\ job.active /\ job.todo = {} /\ tx[Migration].step = "idle"
    /\ job' = [job EXCEPT !.active = FALSE]
    /\ scopeState' = [scopeState EXCEPT
                        !.migrated = @ \/ scopeState.version = job.version]
    /\ UNCHANGED <<ops, holders, alive, rows, relations, tx, locks>>

-----------------------------------------------------------------------------
RoleNext ==
    \/ \E q \in Transactions :
         \/ StartRequest(q) \/ AddRoles(q) \/ RemoveRoles(q) \/ DestroyGroup(q)
         \/ UpdateCar(q) \/ ReadRole(q)
         \/ WaitForRow(q) \/ UpdateRow(q) \/ SkipScope(q) \/ LockResource(q) \/ CreateRow(q)
         \/ Commit(q) \/ Rollback(q)
    \/ Reseed \/ StartMigration \/ (\E s \in Groups \cup Cars : MigrateSubject(s))
    \/ LockSubject \/ Rebind \/ AbandonMigration \/ FinishMigration

RoleSpec == RoleInit /\ [][RoleNext]_roleVars

-----------------------------------------------------------------------------
(* Properties                                                              *)

\* The row lock, the resource lock and the look after it keep a role from having two
\* mappings at one scope: the next .get() would fail for good.  Neither does a
\* mapping without subjects stay.
OneMappingPerScope ==
    /\ \A r1, r2 \in rows : r1.scope = r2.scope => r1 = r2
    /\ \A r \in rows : r.subjects # {}

\* The tuples sent by the dual write of every committed request are those of the
\* mappings, with two groups, cars of one user, deletions and migrations at once.
TuplesFollowMappings == relations = UNION {RowTuples(r) : r \in rows}

\* A group or car that lost the role (or was deleted) keeps no binding at any scope, though
\* the scopes of the role may have changed since; and when the migration marks the role as
\* migrated, each group and car that holds it is bound at the scopes of the role and at no
\* other, though roles were assigned and removed while the migration ran.
HoldersArePlaced ==
    /\ \A r \in rows : r.subjects \subseteq holders /\ r.subjects \cap Groups \subseteq alive
    /\ scopeState.migrated =>
         \A s \in holders, p \in CONCRETE_SCOPES :
            p \in scopeState.scopes <=> \E r \in rows : r.scope = p /\ s \in r.subjects

=============================================================================
