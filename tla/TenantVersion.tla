--------------------------- MODULE TenantVersion ---------------------------
(***************************************************************************)
(* One tenant's passage from V1 to V2: opting in, activation by the first  *)
(* V2 write, and the custom default group, as transactions of concurrent   *)
(* requests over the rows of PostgreSQL (management/tenant_mapping,        *)
(* management/role_binding, management/group, management/role).            *)
(*                                                                         *)
(* A V1 request runs at READ COMMITTED: every statement reads the database *)
(* as it is.  V2 requests and the opt-in endpoints run SERIALIZABLE: they  *)
(* read the snapshot of their first statement, and fail when the row they  *)
(* lock has been updated since.  A transaction that fails on a             *)
(* serialization conflict or a deadlock is retried when it is wrapped in   *)
(* atomic_with_retry.  Conflicts that SERIALIZABLE detects between reads   *)
(* only abort more; leaving them out allows more behaviours.               *)
(***************************************************************************)
EXTENDS Naturals, FiniteSets

CONSTANTS
    Requests,       \* the requests that are made
    Ops,            \* what they may ask for
    Seeded,         \* the platform roles have been seeded
    MaxRetries,     \* atomic_retry, and the retries of the opt-in endpoint
    NoGroup,        \* no custom default group
    OldGroup        \* one that exists initially

V1Ops == {"v1role", "v1customize"}
V2Ops == {"v2write", "v2customize"}
AllOps == V1Ops \union V2Ops
          \union {"optin", "setin", "setout", "deletegroup", "lazy"}

ASSUME VersionAssumption ==
    /\ Ops \subseteq AllOps /\ Seeded \in BOOLEAN /\ MaxRetries \in Nat
    /\ NoGroup # OldGroup /\ {NoGroup, OldGroup} \intersect Requests = {}

VARIABLES
    db,         \* what is committed; see DB
    op,         \* op[r]: what request r asks for
    pc,         \* pc[r]: the statement it is about to execute
    held,       \* held[r]: the row locks of its transaction
    snap,       \* snap[r]: the database its transaction reads
    tries,      \* tries[r]: how often the transaction was retried
    result      \* result[r]: how the request ended

vars == <<db, op, pc, held, snap, tries, result>>

(* version counts the updates of the TenantMapping row.  admin and user    *)
(* are the tenant's default RoleBinding rows; platform tells whether the   *)
(* relations, replicated in commit order, grant the platform's default     *)
(* access; custom is the custom default group, named for the request that  *)
(* created it; ineligible tells whether some V1 role or group uses an      *)
(* application kept out of V2.                                             *)
DB == [opted : BOOLEAN, activated : BOOLEAN, version : Nat,
       admin : BOOLEAN, user : BOOLEAN, custom : Requests \union {NoGroup, OldGroup},
       platform : BOOLEAN, ineligible : BOOLEAN]

Statements == {"idle", "begin", "share", "update", "group", "commit", "done"}
Locks == {"share", "update", "group"}
Results == {"none", "committed", "refused", "failed"}

TypeOK ==
    /\ db \in DB
    /\ op \in [Requests -> AllOps]
    /\ pc \in [Requests -> Statements]
    /\ held \in [Requests -> SUBSET Locks]
    /\ snap \in [Requests -> DB]
    /\ tries \in [Requests -> 0..MaxRetries]
    /\ result \in [Requests -> Results]

(* A bootstrapped tenant, opted in or not.                                 *)
Bootstrapped(o, c, i) ==
    [opted |-> o, activated |-> FALSE, version |-> 0, admin |-> o /\ Seeded,
     user |-> o /\ Seeded /\ c = NoGroup, custom |-> c, platform |-> c = NoGroup,
     ineligible |-> i]

(* The snapshot of a request that has none.                                *)
NoSnapshot == Bootstrapped(FALSE, NoGroup, FALSE)

Init ==
    /\ \E o, i \in BOOLEAN, c \in {NoGroup, OldGroup} : db = Bootstrapped(o, c, i)
    /\ op = [r \in Requests |-> "v1role"]
    /\ pc = [r \in Requests |-> "idle"]
    /\ held = [r \in Requests |-> {}]
    /\ snap = [r \in Requests |-> NoSnapshot]
    /\ tries = [r \in Requests |-> 0]
    /\ result = [r \in Requests |-> "none"]

Serializable(r) == op[r] \in V2Ops \union {"optin", "setin", "setout"}

(* The permission classes read the opt-in state without a lock, before the *)
(* transaction begins: V1 writes are for tenants that have not opted in,   *)
(* V2 writes for those that have.                                          *)
Permitted(o) ==
    /\ o \in V1Ops => ~db.opted
    /\ o \in V2Ops => db.opted

FirstStatement(o) ==
    IF o = "deletegroup" THEN "group"
    ELSE IF o \in {"setin", "setout"} THEN "update"
    ELSE IF o = "lazy" THEN "commit"
    ELSE "share"

Arrive(r) ==
    /\ pc[r] = "idle"
    /\ \E o \in Ops : Permitted(o) /\ op' = [op EXCEPT ![r] = o]
    /\ pc' = [pc EXCEPT ![r] = "begin"]
    /\ UNCHANGED <<db, held, snap, tries, result>>

(* The transaction's first statement begins, and with it the snapshot; at  *)
(* READ COMMITTED only the lazy creation acts on an earlier read.          *)
Begin(r) ==
    /\ pc[r] = "begin"
    /\ pc' = [pc EXCEPT ![r] = FirstStatement(op[r])]
    /\ snap' = IF Serializable(r) \/ op[r] = "lazy"
                THEN [snap EXCEPT ![r] = db] ELSE snap
    /\ UNCHANGED <<db, op, held, tries, result>>

(***************************************************************************)
(* Row locks                                                               *)
(***************************************************************************)

(* Who keeps r from executing its statement.                               *)
Blockers(r) ==
    {q \in Requests \ {r} :
        \/ pc[r] = "share" /\ "update" \in held[q]
        \/ pc[r] = "update" /\ held[q] \intersect {"share", "update"} # {}
        \/ pc[r] = "group" /\ "group" \in held[q]}

(* A SERIALIZABLE transaction may not lock a row updated since its         *)
(* snapshot.                                                               *)
Conflict(r) == Serializable(r) /\ db.version # snap[r].version

HasCustomGroup(d) == d.custom # NoGroup

MayLock(r, statement) ==
    pc[r] = statement /\ Blockers(r) = {} /\ ~Conflict(r)

(* r holds the lock it asked for and goes on with its next statement.      *)
Locked(r, next) ==
    /\ held' = [held EXCEPT ![r] = @ \union {pc[r]}]
    /\ pc' = [pc EXCEPT ![r] = next]
    /\ UNCHANGED <<db, op, snap, tries, result>>

(* The transaction of r ends and its locks are released.                   *)
End(r, how) ==
    /\ held' = [held EXCEPT ![r] = {}]
    /\ pc' = [pc EXCEPT ![r] = "done"]
    /\ result' = [result EXCEPT ![r] = how]
    /\ snap' = [snap EXCEPT ![r] = NoSnapshot]
    /\ UNCHANGED <<op, tries>>

Refuse(r) == End(r, "refused") /\ UNCHANGED db

AbortedInSavepoint(r) == UNCHANGED vars

(* The transaction is aborted by the database: begin it again, while there *)
(* are retries left, if it is wrapped in atomic_with_retry.                *)
Aborted(r) ==
    IF Serializable(r) /\ tries[r] < MaxRetries
    THEN /\ tries' = [tries EXCEPT ![r] = @ + 1]
         /\ held' = [held EXCEPT ![r] = {}]
         /\ pc' = [pc EXCEPT ![r] = "begin"]
         /\ UNCHANGED <<db, op, snap, result>>
    ELSE End(r, "failed") /\ UNCHANGED db

SerializationFailure(r) ==
    /\ pc[r] \in {"share", "update"} /\ Blockers(r) = {} /\ Conflict(r)
    /\ Aborted(r)

(* PostgreSQL aborts one transaction of a cycle of waiting ones.           *)
DeadlockDetected(r) ==
    /\ \E D \in SUBSET Requests :
          /\ r \in D
          /\ \A q \in D : /\ Blockers(q) \intersect D # {}
                          /\ \E p \in D : q \in Blockers(p)
    /\ Aborted(r)

(* A request dies, or a statement waits longer than lock_timeout: the      *)
(* transaction rolls back and is not retried.                              *)
Rollback(r) ==
    /\ pc[r] \in {"share", "update", "group", "commit"}
    /\ End(r, "failed") /\ UNCHANGED db

(***************************************************************************)
(* The statements that lock the TenantMapping row FOR SHARE                *)
(***************************************************************************)

assert_v1_write_allowedUnlocked(r) ==
    /\ op[r] \in V1Ops /\ MayLock(r, "share")
    /\ IF db.activated THEN Refuse(r)
       ELSE /\ pc' = [pc EXCEPT ![r] = IF op[r] = "v1role" THEN "commit" ELSE "update"]
            /\ UNCHANGED <<db, op, held, snap, tries, result>>

(* A V1 write holds the lock to its end, so that no V2 write can activate  *)
(* the tenant meanwhile.                                                   *)
assert_v1_write_allowed(r) ==
    /\ op[r] \in V1Ops /\ MayLock(r, "share")
    /\ IF db.activated THEN Refuse(r)
       ELSE Locked(r, IF op[r] = "v1role" THEN "commit" ELSE "update")

(* A V2 write goes on at once if the tenant is activated, and needs the    *)
(* exclusive lock otherwise; customizing the default group always does.    *)
ensure_v2_write_activated(r) ==
    /\ op[r] \in V2Ops /\ MayLock(r, "share")
    /\ Locked(r, IF /\ snap[r].activated
                    /\ op[r] = "v2customize" => HasCustomGroup(snap[r])
                 THEN "commit" ELSE "update")

(* The tenant's endpoint: one that has opted in is eligible, another       *)
(* tenant if nothing in its snapshot keeps it from V2.                     *)
check_v2_eligibility(r) ==
    /\ op[r] = "optin" /\ MayLock(r, "share")
    /\ IF snap[r].ineligible /\ ~snap[r].opted THEN Refuse(r)
       ELSE Locked(r, "update")

(* Deleting the custom default group, which is locked already.             *)
lock_tenant_version(r) ==
    /\ op[r] = "deletegroup" /\ MayLock(r, "share")
    /\ Locked(r, "commit")

(***************************************************************************)
(* The statements that lock a row FOR UPDATE                               *)
(***************************************************************************)

UpgradeActivation(r) ==
    /\ op[r] \in V2Ops /\ MayLock(r, "update")
    /\ Locked(r, "commit")

lock_tenant_for_bootstrap(r) ==
    /\ op[r] = "v1customize" /\ MayLock(r, "update")
    /\ Locked(r, "group")

(* From the tenant's endpoint or the internal one.  No tenant opts out     *)
(* once activated.                                                         *)
set_v2_opt_in_state(r) ==
    /\ op[r] \in {"optin", "setin", "setout"} /\ MayLock(r, "update")
    /\ IF op[r] = "setout" /\ db.activated THEN Refuse(r)
       ELSE Locked(r, "commit")

(* A custom default group cannot be created twice.                         *)
CustomGroupAbsent(r) ==
    /\ op[r] = "v1customize" /\ MayLock(r, "group")
    /\ IF HasCustomGroup(db) THEN Refuse(r) ELSE Locked(r, "commit")

(* The group to delete is read, and must be there.                         *)
FoundGroup(r, locks) ==
    /\ op[r] = "deletegroup" /\ MayLock(r, "group")
    /\ IF ~HasCustomGroup(db) THEN Refuse(r)
       ELSE /\ snap' = [snap EXCEPT ![r] = db]
            /\ held' = [held EXCEPT ![r] = @ \union locks]
            /\ pc' = [pc EXCEPT ![r] = "share"]
            /\ UNCHANGED <<db, op, tries, result>>

DeletedGroupUnlocked(r) == FoundGroup(r, {})

(* It is locked before its deletion is prepared.                           *)
DeletedGroup(r) == FoundGroup(r, {"group"})

(***************************************************************************)
(* Commits: what the transaction wrote becomes visible                     *)
(***************************************************************************)
Commit(r, new) == pc[r] = "commit" /\ db' = new /\ End(r, "committed")

(* The mapping row when a V2 write commits.                                *)
Activated(d) ==
    IF d.activated THEN d
    ELSE [d EXCEPT !.activated = TRUE, !.opted = TRUE, !.version = @ + 1]

(* A custom default group takes the place of the platform's default access *)
(* and of the default bindings for users, those the transaction sees.      *)
Customized(d, seen, r) ==
    [d EXCEPT !.custom = r, !.user = @ /\ ~seen.user, !.platform = FALSE]

(* Without the platform roles nothing is created; that is logged and not   *)
(* an error of the request.                                                *)
create_default_bindings(d, custom) ==
    [d EXCEPT !.admin = @ \/ Seeded, !.user = @ \/ (Seeded /\ ~custom)]

CommitV1Role(r) ==
    /\ op[r] = "v1role"
    /\ \E i \in BOOLEAN : Commit(r, [db EXCEPT !.ineligible = i])

CommitV1Customize(r) == op[r] = "v1customize" /\ Commit(r, Customized(db, db, r))

CommitV2Write(r) ==
    /\ op[r] = "v2write" \/ (op[r] = "v2customize" /\ HasCustomGroup(snap[r]))
    /\ Commit(r, Activated(db))

(* A group created since the snapshot has the uuid of the new one.         *)
CommitV2Customize(r) ==
    /\ op[r] = "v2customize" /\ ~HasCustomGroup(snap[r])
    /\ IF HasCustomGroup(db) THEN pc[r] = "commit" /\ End(r, "failed") /\ UNCHANGED db
       ELSE Commit(r, Customized(Activated(db), snap[r], r))

(* Newly opting in creates the default bindings in the same transaction.   *)
OptIn(d, custom) ==
    IF d.opted THEN [d EXCEPT !.version = @ + 1]
    ELSE create_default_bindings([d EXCEPT !.opted = TRUE, !.version = @ + 1], custom)

CommitOptIn(r) ==
    op[r] \in {"optin", "setin"} /\ Commit(r, OptIn(db, HasCustomGroup(snap[r])))

CommitOptOut(r) ==
    op[r] = "setout" /\ Commit(r, [db EXCEPT !.opted = FALSE, !.version = @ + 1])

restore_user_default_bindingsForgotten(d) == d

restore_user_default_bindings(d) == [d EXCEPT !.user = @ \/ Seeded]

(* Deleting the group g, if it is still there, restores the platform's     *)
(* access.                                                                 *)
WithoutGroup(d, g) ==
    [d EXCEPT !.custom = IF @ = g THEN NoGroup ELSE @, !.platform = TRUE]

CommitDeleteGroup(r) ==
    /\ op[r] = "deletegroup"
    /\ Commit(r, restore_user_default_bindings(WithoutGroup(db, snap[r].custom)))

(* A read of the role bindings creates missing default ones, without locks *)
(* and from what it read before.                                           *)
ensure_default_bindings_exist(r) ==
    /\ op[r] = "lazy"
    /\ Commit(r, IF snap[r].admin THEN db
                 ELSE create_default_bindings(db, HasCustomGroup(snap[r])))

Statement(r) ==
    \/ Begin(r) \/ SerializationFailure(r) \/ DeadlockDetected(r)
    \/ assert_v1_write_allowed(r) \/ ensure_v2_write_activated(r)
    \/ check_v2_eligibility(r) \/ lock_tenant_version(r)
    \/ UpgradeActivation(r) \/ lock_tenant_for_bootstrap(r)
    \/ set_v2_opt_in_state(r) \/ CustomGroupAbsent(r) \/ DeletedGroup(r)
    \/ CommitV1Role(r) \/ CommitV1Customize(r) \/ CommitV2Write(r)
    \/ CommitV2Customize(r) \/ CommitOptIn(r) \/ CommitOptOut(r)
    \/ CommitDeleteGroup(r) \/ ensure_default_bindings_exist(r)

Finished == \A r \in Requests : pc[r] = "done"

Next == \E r \in Requests : Arrive(r) \/ Statement(r) \/ Rollback(r)

Spec == Init /\ [][Next]_vars

(* Threads run, and PostgreSQL grants a lock that is free and detects      *)
(* deadlocks.                                                              *)
FairSpec == Spec /\ \A r \in Requests : WF_vars(Statement(r))

(***************************************************************************)
(* Properties                                                              *)
(***************************************************************************)

(* "Once activated, a tenant must never write via V1 again": no V1 write   *)
(* commits after the activation, whatever the permission check read.       *)
NoV1WriteAfterActivation ==
    [][\A r \in Requests :
          op[r] \in V1Ops /\ result[r] = "none" /\ result'[r] = "committed"
              => ~db.activated]_vars

(* Once the platform roles are seeded, a tenant that has opted in has its  *)
(* default bindings, even if it is opted in by the activation of a V2      *)
(* write admitted before an opt-out: the admin ones, and the user ones or  *)
(* a custom default group in their place (set_v2_opt_in_state,             *)
(* restore_user_default_bindings).                                         *)
OptedInHasBindings ==
    Seeded /\ db.opted => db.admin /\ (db.user \/ HasCustomGroup(db))

(* The locks of try_lock_tenants_for_bootstrap and of the group view keep  *)
(* the replicated platform default access and a custom default group       *)
(* exclusive, in whatever order they are created and deleted.              *)
PlatformAccessOrCustomGroup == db.platform = ~HasCustomGroup(db)

(* A custom default group replaces the default bindings for users          *)
(* (create_default_bindings, delete_user_default_bindings).                *)
CustomGroupReplacesUserBindings == HasCustomGroup(db) => ~db.user

(* The writers that look for the group after they hold the lock keep this; *)
(* the opt-in endpoints and the lazy creation read an older snapshot.      *)
LockedWritersExclude ==
    (\A r \in Requests : op[r] \notin {"optin", "setin", "lazy"})
        => CustomGroupReplacesUserBindings

(* Every request ends: two first V2 writes that both hold the shared lock, *)
(* or a creation and a deletion of the custom group that lock the rows in  *)
(* opposite orders, do not wait for each other for ever.                   *)
EveryRequestEnds ==
    \A r \in Requests : (pc[r] # "idle") ~> (pc[r] = "done")
=============================================================================
