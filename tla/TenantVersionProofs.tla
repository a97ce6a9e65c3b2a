------------------------ MODULE TenantVersionProofs -------------------------
(***************************************************************************)
(* For any set of requests, any number of retries and whether or not the   *)
(* platform roles are seeded: the row locks of TenantVersion exclude what  *)
(* they should, no V1 write commits once the tenant is activated, a custom *)
(* default group and the platform's default access exclude each other, and *)
(* a tenant that has opted in has its default bindings.                    *)
(***************************************************************************)
EXTENDS TenantVersion, TLAPS

(* Statements of a transaction that has its snapshot.                      *)
Running == {"share", "update", "group", "commit"}

(* The admin bindings are there, and the user ones or what replaces them.  *)
Provided(d) == d.admin /\ (d.user \/ HasCustomGroup(d))

(* FOR UPDATE excludes every other lock of the TenantMapping row, and one  *)
(* transaction locks the custom default group.                             *)
LocksExclude ==
    \A r \in Requests : \A q \in Requests \ {r} :
        /\ "update" \in held[r] => "share" \notin held[q] /\ "update" \notin held[q]
        /\ "group" \in held[r] => "group" \notin held[q]

(* What a transaction relies on until it commits, thanks to its locks: a   *)
(* V1 write on the tenant not being activated, a V2 write on being the one *)
(* that activates it or on its being activated, and a deletion of the      *)
(* custom default group on the group it has read.                          *)
Relies(r) ==
    /\ op[r] \in V1Ops /\ pc[r] \in {"update", "group", "commit"}
         => "share" \in held[r] /\ ~db.activated
    /\ op[r] \in V2Ops /\ pc[r] = "commit"
         => "update" \in held[r] \/ snap[r].activated
    /\ op[r] \in V2Ops /\ pc[r] \in Running /\ snap[r].activated => db.activated
    /\ op[r] = "v1customize" /\ pc[r] = "commit" => "group" \in held[r]
    /\ op[r] = "deletegroup" /\ pc[r] \in {"share", "commit"}
         => "group" \in held[r] /\ HasCustomGroup(db) /\ snap[r].custom = db.custom

HeldInv == \A r \in Requests : Relies(r)

(* What the default bindings are once the platform roles are seeded.  A V2 *)
(* write is admitted to a tenant that has them, so that it finds them when *)
(* it activates a tenant that has opted out since.  An opt-in that leaves  *)
(* the user bindings out saw a custom group, in whose place, if it has     *)
(* been deleted since, they were restored.                                 *)
Finds(r) ==
    /\ op[r] \in V2Ops => Provided(db)
    /\ op[r] \in V2Ops /\ pc[r] \in Running => snap[r].user \/ HasCustomGroup(snap[r])
    /\ op[r] \in {"optin", "setin"} /\ pc[r] \in Running /\ HasCustomGroup(snap[r])
         => db.user \/ HasCustomGroup(db)

BindingsInv == OptedInHasBindings /\ (Seeded => \A r \in Requests : Finds(r))

(* Without the platform roles there are no bindings for users; a request   *)
(* asks for one thing only.                                                *)
ExclusionInv ==
    /\ LockedWritersExclude
    /\ ~Seeded => ~db.user
    /\ \A r \in Requests : pc[r] = "idle" => op[r] = "v1role"

VersionInv ==
    /\ TypeOK /\ LocksExclude /\ HeldInv /\ BindingsInv /\ ExclusionInv
    /\ PlatformAccessOrCustomGroup

(* What holds of the database alone.                                       *)
DbInv == OptedInHasBindings /\ PlatformAccessOrCustomGroup /\ (~Seeded => ~db.user)

(* What no transaction does to the database: it is not deactivated, and    *)
(* default access, once provided, stays.                                   *)
Keeps ==
    /\ db.activated => db'.activated
    /\ Seeded /\ (db.user \/ HasCustomGroup(db)) => db'.user \/ HasCustomGroup(db')
    /\ db.admin => db'.admin

(***************************************************************************)
(* The transaction of r ends, or begins again                              *)
(***************************************************************************)
LEMMA LeaveStep ==
    ASSUME VersionInv, NEW r \in Requests, NEW s \in {"begin", "done"}, pc[r] # "idle",
           held' = [held EXCEPT ![r] = {}], pc' = [pc EXCEPT ![r] = s], op' = op,
           snap' = snap \/ snap' = [snap EXCEPT ![r] = NoSnapshot],
           tries' \in [Requests -> 0..MaxRetries], result' \in [Requests -> Results],
           db' \in DB, Keeps, DbInv', LockedWritersExclude',
           db'.activated # db.activated => "update" \in held[r],
           db'.custom # db.custom => "group" \in held[r] \/ ~HasCustomGroup(db)
    PROVE  VersionInv'
<1>1. NoSnapshot \in DB
    BY VersionAssumption DEF NoSnapshot, Bootstrapped, DB
<1>2. TypeOK'
    BY <1>1, ZenonT(30) DEF VersionInv, TypeOK, Statements
<1>3. /\ held'[r] = {} /\ pc'[r] = s
      /\ \A q \in Requests \ {r} : /\ held'[q] = held[q] /\ pc'[q] = pc[q]
                                   /\ snap'[q] = snap[q]
    BY DEF VersionInv, TypeOK
<1>4. LocksExclude'
    BY <1>3 DEF VersionInv, LocksExclude
<1>5. ASSUME NEW q \in Requests PROVE Relies(q)'
  <2>1. CASE q = r
    BY <1>3, <2>1 DEF Relies, Running
  <2>2. CASE q # r
    <3>1. /\ "update" \in held[r] => "share" \notin held[q]
          /\ "group" \in held[r] => "group" \notin held[q]
      BY <2>2 DEF VersionInv, LocksExclude
    <3>2. Relies(q)
      BY DEF VersionInv, HeldInv
    <3> QED BY <1>3, <2>2, <3>1, <3>2 DEF Relies, Keeps, HasCustomGroup
  <2> QED BY <2>1, <2>2
<1>6. ASSUME NEW q \in Requests, Seeded PROVE Finds(q)'
  <2>1. Finds(q)
    BY <1>6 DEF VersionInv, BindingsInv
  <2> QED BY <1>3, <1>6, <2>1 DEF Finds, Keeps, Provided, HasCustomGroup, Running
<1>7. ExclusionInv'
    BY <1>3 DEF VersionInv, ExclusionInv, DbInv
<1> QED BY <1>2, <1>4, <1>5, <1>6, <1>7 DEF VersionInv, HeldInv, BindingsInv, DbInv

(* ... without a change of the database.                                   *)
LEMMA SameDb == VersionInv /\ UNCHANGED <<db, op>> => Keeps /\ DbInv' /\ LockedWritersExclude'
BY DEF VersionInv, BindingsInv, ExclusionInv, Keeps, DbInv, OptedInHasBindings, HasCustomGroup,
       PlatformAccessOrCustomGroup, LockedWritersExclude, CustomGroupReplacesUserBindings

(* A request that ends without effect keeps the invariant.                 *)
LEMMA EndStep ==
    ASSUME VersionInv, NEW r \in Requests, NEW how \in Results, pc[r] # "idle",
           End(r, how), UNCHANGED db
    PROVE  VersionInv'
<1>1. Keeps /\ DbInv' /\ LockedWritersExclude'
    BY SameDb DEF End
<1>2. /\ "done" \in {"begin", "done"} /\ db' \in DB
      /\ tries' \in [Requests -> 0..MaxRetries] /\ result' \in [Requests -> Results]
    BY DEF End, VersionInv, TypeOK
<1> QED BY <1>1, <1>2, LeaveStep, ZenonT(30) DEF End

(* A transaction that is rolled back and run again keeps the invariant.    *)
LEMMA AbortedStep ==
    ASSUME VersionInv, NEW r \in Requests, pc[r] # "idle", Aborted(r)
    PROVE  VersionInv'
<1>1. CASE Serializable(r) /\ tries[r] < MaxRetries
  <2>1. /\ tries' = [tries EXCEPT ![r] = @ + 1]
        /\ held' = [held EXCEPT ![r] = {}] /\ pc' = [pc EXCEPT ![r] = "begin"]
        /\ UNCHANGED <<db, op, snap, result>>
    BY <1>1 DEF Aborted
  <2>2. Keeps /\ DbInv' /\ LockedWritersExclude'
    BY <2>1, SameDb
  <2>3. /\ "begin" \in {"begin", "done"} /\ db' \in DB /\ result' \in [Requests -> Results]
    BY <2>1 DEF VersionInv, TypeOK
  <2>4. tries' \in [Requests -> 0..MaxRetries]
    BY <1>1, <2>1, VersionAssumption DEF VersionInv, TypeOK
  <2> QED BY <2>1, <2>2, <2>3, <2>4, LeaveStep, ZenonT(30)
<1>2. CASE ~(Serializable(r) /\ tries[r] < MaxRetries)
    BY <1>2, EndStep DEF Aborted, Results
<1> QED BY <1>1, <1>2

(***************************************************************************)
(* The transaction of r locks a row                                        *)
(***************************************************************************)
LEMMA LockStep ==
    ASSUME VersionInv, NEW r \in Requests, NEW st \in Locks, MayLock(r, st),
           NEW next \in Running,
           held' = [held EXCEPT ![r] = @ \union {st}], pc' = [pc EXCEPT ![r] = next],
           \/ snap' = snap
           \/ op[r] = "deletegroup" /\ snap' = [snap EXCEPT ![r] = db],
           UNCHANGED <<db, op, tries, result>>, Relies(r)'
    PROVE  VersionInv'
<1>1. TypeOK'
  <2>1. pc' \in [Requests -> Statements]
    BY DEF VersionInv, TypeOK, Statements, Running
  <2>2. held' \in [Requests -> SUBSET Locks]
    BY DEF VersionInv, TypeOK
  <2>3. snap' \in [Requests -> DB]
    BY DEF VersionInv, TypeOK
  <2> QED BY <2>1, <2>2, <2>3 DEF VersionInv, TypeOK
<1>2. /\ pc[r] = st /\ Blockers(r) = {}
    BY DEF MayLock
<1>3. /\ held'[r] = held[r] \union {st} /\ pc'[r] = next
      /\ \A q \in Requests \ {r} : /\ held'[q] = held[q] /\ pc'[q] = pc[q]
                                   /\ snap'[q] = snap[q]
    BY DEF VersionInv, TypeOK
<1>4. \A q \in Requests \ {r} : /\ st = "share" => "update" \notin held[q]
                                /\ st = "update" => /\ "share" \notin held[q]
                                                    /\ "update" \notin held[q]
                                /\ st = "group" => "group" \notin held[q]
    BY <1>2 DEF Blockers
<1>5. LocksExclude'
    BY <1>3, <1>4 DEF VersionInv, LocksExclude, Locks
<1>6. ASSUME NEW q \in Requests PROVE Relies(q)'
  <2>1. CASE q # r
    BY <1>3, <2>1 DEF VersionInv, HeldInv, Relies
  <2> QED BY <2>1
<1>7. ASSUME NEW q \in Requests, Seeded PROVE Finds(q)'
  <2>1. Finds(q)
    BY <1>7 DEF VersionInv, BindingsInv
  <2>2. CASE q # r
    BY <1>3, <2>1, <2>2 DEF Finds
  <2>3. CASE q = r
    BY <1>2, <1>3, <2>1, <2>3 DEF Finds, Locks, Running, V2Ops
  <2> QED BY <2>2, <2>3
<1>8. Keeps /\ DbInv' /\ LockedWritersExclude'
    BY SameDb
<1>9. ExclusionInv'
    BY <1>3, <1>8 DEF VersionInv, ExclusionInv, DbInv, Running
<1> QED BY <1>1, <1>5, <1>6, <1>7, <1>8, <1>9 DEF VersionInv, HeldInv, BindingsInv, DbInv

(* A granted lock keeps the invariant if the transaction may rely on it.   *)
LEMMA LockedStep ==
    ASSUME VersionInv, NEW r \in Requests, NEW st \in Locks, MayLock(r, st),
           NEW next \in Running, Locked(r, next), Relies(r)'
    PROVE  VersionInv'
<1>1. pc[r] = st
    BY DEF MayLock
<1> QED BY <1>1, LockStep, ZenonT(30) DEF Locked

(* What a granted lock changes, and what held before.                      *)
LEMMA LockedState ==
    ASSUME VersionInv, NEW r \in Requests, NEW st, MayLock(r, st), NEW next, Locked(r, next)
    PROVE  /\ pc[r] = st /\ pc'[r] = next /\ held'[r] = held[r] \union {st}
           /\ op' = op /\ snap' = snap /\ db' = db /\ Relies(r)
BY DEF VersionInv, TypeOK, HeldInv, MayLock, Locked

(* Taking the row FOR SHARE keeps the invariant.                           *)
LEMMA ShareStep ==
    ASSUME VersionInv, NEW r \in Requests,
           \/ assert_v1_write_allowed(r) \/ ensure_v2_write_activated(r)
           \/ check_v2_eligibility(r) \/ lock_tenant_version(r)
    PROVE  VersionInv'
<1>1. "share" \in Locks /\ MayLock(r, "share") /\ pc[r] # "idle" /\ "refused" \in Results
    BY DEF Locks, MayLock, Results, assert_v1_write_allowed, ensure_v2_write_activated,
           check_v2_eligibility, lock_tenant_version
<1>2. CASE Refuse(r)
    BY <1>1, <1>2, EndStep DEF Refuse
<1>3. ASSUME assert_v1_write_allowed(r), ~Refuse(r) PROVE VersionInv'
  <2>1. PICK next \in {"commit", "update"} :
             Locked(r, next) /\ (op[r] = "v1customize" => next = "update")
    BY <1>3 DEF assert_v1_write_allowed, V1Ops
  <2>2. op[r] \in V1Ops /\ ~db.activated
    BY <1>3 DEF assert_v1_write_allowed
  <2>3. Relies(r)'
    BY <1>1, <2>1, <2>2, LockedState DEF Relies, V1Ops, V2Ops
  <2> QED BY <1>1, <2>1, <2>3, LockedStep DEF Running
<1>4. ASSUME ensure_v2_write_activated(r) PROVE VersionInv'
  <2>1. PICK next \in {"commit", "update"} :
             Locked(r, next) /\ (next = "commit" => snap[r].activated)
    BY <1>4 DEF ensure_v2_write_activated
  <2>2. op[r] \in V2Ops
    BY <1>4 DEF ensure_v2_write_activated
  <2>3. Relies(r)'
    BY <1>1, <2>1, <2>2, LockedState DEF Relies, V1Ops, V2Ops, Running
  <2> QED BY <1>1, <2>1, <2>3, LockedStep DEF Running
<1>5. ASSUME check_v2_eligibility(r), ~Refuse(r) PROVE VersionInv'
  <2>1. op[r] = "optin" /\ Locked(r, "update")
    BY <1>5, SMTT(30), SMTT(40) DEF check_v2_eligibility
  <2>2. Relies(r)'
    BY <1>1, <2>1, LockedState DEF Relies, V1Ops, V2Ops
  <2> QED BY <1>1, <2>1, <2>2, LockedStep DEF Running
<1>6. ASSUME lock_tenant_version(r) PROVE VersionInv'
  <2>1. op[r] = "deletegroup" /\ Locked(r, "commit")
    BY <1>6 DEF lock_tenant_version
  <2>2. Relies(r)'
    BY <1>1, <2>1, LockedState DEF Relies, V1Ops, V2Ops
  <2> QED BY <1>1, <2>1, <2>2, LockedStep DEF Running
<1> QED BY <1>2, <1>3, <1>4, <1>5, <1>6

(* Taking the row FOR UPDATE keeps the invariant.                          *)
LEMMA UpdateLockStep ==
    ASSUME VersionInv, NEW r \in Requests,
           \/ UpgradeActivation(r) \/ lock_tenant_for_bootstrap(r) \/ set_v2_opt_in_state(r)
    PROVE  VersionInv'
<1>1. "update" \in Locks /\ MayLock(r, "update") /\ pc[r] # "idle" /\ "refused" \in Results
    BY DEF Locks, MayLock, Results, UpgradeActivation, lock_tenant_for_bootstrap,
           set_v2_opt_in_state
<1>2. CASE Refuse(r)
    BY <1>1, <1>2, EndStep DEF Refuse
<1>3. ASSUME UpgradeActivation(r) PROVE VersionInv'
  <2>1. op[r] \in V2Ops /\ Locked(r, "commit")
    BY <1>3 DEF UpgradeActivation
  <2>2. Relies(r)'
    BY <1>1, <2>1, LockedState DEF Relies, V1Ops, V2Ops, Running
  <2> QED BY <1>1, <2>1, <2>2, LockedStep DEF Running
<1>4. ASSUME lock_tenant_for_bootstrap(r) PROVE VersionInv'
  <2>1. op[r] = "v1customize" /\ Locked(r, "group")
    BY <1>4 DEF lock_tenant_for_bootstrap
  <2>2. Relies(r)'
    BY <1>1, <2>1, LockedState DEF Relies, V1Ops, V2Ops
  <2> QED BY <1>1, <2>1, <2>2, LockedStep DEF Running
<1>5. ASSUME set_v2_opt_in_state(r), ~Refuse(r) PROVE VersionInv'
  <2>1. op[r] \in {"optin", "setin", "setout"} /\ Locked(r, "commit")
    BY <1>5 DEF set_v2_opt_in_state
  <2>2. Relies(r)'
    BY <1>1, <2>1, LockedState DEF Relies, V1Ops, V2Ops
  <2> QED BY <1>1, <2>1, <2>2, LockedStep DEF Running
<1> QED BY <1>2, <1>3, <1>4, <1>5

(* Locking the custom default group keeps the invariant.                   *)
LEMMA GroupLockStep ==
    ASSUME VersionInv, NEW r \in Requests, CustomGroupAbsent(r) \/ DeletedGroup(r)
    PROVE  VersionInv'
<1>1. "group" \in Locks /\ MayLock(r, "group") /\ pc[r] # "idle" /\ "refused" \in Results
    BY DEF Locks, MayLock, Results, CustomGroupAbsent, DeletedGroup, FoundGroup
<1>2. CASE Refuse(r)
    BY <1>1, <1>2, EndStep DEF Refuse
<1>3. ASSUME CustomGroupAbsent(r), ~Refuse(r) PROVE VersionInv'
  <2>1. op[r] = "v1customize" /\ Locked(r, "commit")
    BY <1>3 DEF CustomGroupAbsent
  <2>2. Relies(r)'
    BY <1>1, <2>1, LockedState DEF Relies, V1Ops, V2Ops
  <2> QED BY <1>1, <2>1, <2>2, LockedStep DEF Running
<1>4. ASSUME DeletedGroup(r), ~Refuse(r) PROVE VersionInv'
  <2>1. /\ op[r] = "deletegroup" /\ HasCustomGroup(db)
        /\ snap' = [snap EXCEPT ![r] = db]
        /\ held' = [held EXCEPT ![r] = @ \union {"group"}]
        /\ pc' = [pc EXCEPT ![r] = "share"]
        /\ UNCHANGED <<db, op, tries, result>>
    BY <1>4 DEF DeletedGroup, FoundGroup
  <2>2. Relies(r)'
    BY <2>1 DEF Relies, V1Ops, V2Ops, VersionInv, TypeOK, HasCustomGroup
  <2> QED BY <1>1, <2>1, <2>2, LockStep, ZenonT(30) DEF Running
<1> QED BY <1>2, <1>3, <1>4

(***************************************************************************)
(* The transaction of r commits                                            *)
(***************************************************************************)
LEMMA CommitStep ==
    ASSUME VersionInv, NEW r \in Requests, NEW new \in DB, Commit(r, new), Keeps, DbInv',
           LockedWritersExclude',
           new.activated # db.activated => "update" \in held[r],
           new.custom # db.custom => "group" \in held[r] \/ ~HasCustomGroup(db)
    PROVE  VersionInv'
<1>1. pc[r] = "commit" /\ db' = new /\ End(r, "committed")
    BY DEF Commit
<1>2. /\ "done" \in {"begin", "done"}
      /\ tries' \in [Requests -> 0..MaxRetries] /\ result' \in [Requests -> Results]
    BY <1>1 DEF End, VersionInv, TypeOK, Results
<1> QED BY <1>1, <1>2, LeaveStep, ZenonT(30) DEF End

(* What a commit changes, and what held before.                            *)
LEMMA CommitState ==
    ASSUME VersionInv, NEW r \in Requests, NEW new, Commit(r, new)
    PROVE  /\ pc[r] = "commit" /\ db' = new /\ op' = op /\ db \in DB /\ snap[r] \in DB
           /\ Relies(r) /\ (Seeded => Finds(r))
           /\ DbInv /\ LockedWritersExclude
BY DEF VersionInv, TypeOK, HeldInv, BindingsInv, ExclusionInv, DbInv, Commit, End

(* The commit of a V1 write keeps the invariant.                           *)
LEMMA V1CommitStep ==
    ASSUME VersionInv, NEW r \in Requests, CommitV1Role(r) \/ CommitV1Customize(r)
    PROVE  VersionInv'
<1>1. ASSUME NEW i \in BOOLEAN, Commit(r, [db EXCEPT !.ineligible = i]) PROVE VersionInv'
  <2> DEFINE new == [db EXCEPT !.ineligible = i]
  <2>1. db' = new /\ op' = op /\ db \in DB /\ DbInv /\ LockedWritersExclude
    BY <1>1, CommitState
  <2>2. /\ new \in DB /\ new.activated = db.activated /\ new.custom = db.custom
        /\ new.user = db.user /\ new.admin = db.admin /\ new.opted = db.opted
        /\ new.platform = db.platform
    BY <2>1 DEF DB
  <2> HIDE DEF new
  <2>3. Keeps
    BY <2>1, <2>2 DEF Keeps, HasCustomGroup
  <2>4. DbInv'
    BY <2>1, <2>2
    DEF DbInv, OptedInHasBindings, PlatformAccessOrCustomGroup, HasCustomGroup
  <2>5. LockedWritersExclude'
    BY <2>1, <2>2
    DEF LockedWritersExclude, CustomGroupReplacesUserBindings, HasCustomGroup
  <2>6. Commit(r, new)
    BY <1>1 DEF new
  <2> QED BY <2>2, <2>3, <2>4, <2>5, <2>6, CommitStep
<1>2. ASSUME op[r] = "v1customize", Commit(r, Customized(db, db, r)) PROVE VersionInv'
  <2>0. PICK new : new = Customized(db, db, r)
    OBVIOUS
  <2>1. /\ db' = new /\ op' = op /\ db \in DB /\ DbInv /\ LockedWritersExclude
        /\ "group" \in held[r]
    BY <1>2, <2>0, CommitState DEF Relies
  <2>2. /\ new \in DB /\ new.activated = db.activated /\ new.custom = r
        /\ ~new.user /\ new.admin = db.admin /\ new.opted = db.opted
        /\ new.platform = FALSE
    BY <2>0, <2>1, ZenonT(30) DEF DB, Customized
  <2>3. r # NoGroup
    BY VersionAssumption
  <2>4. Keeps
    BY <2>1, <2>2, <2>3 DEF Keeps, HasCustomGroup
  <2>5. DbInv'
    BY <2>1, <2>2, <2>3, ZenonT(30)
    DEF DbInv, OptedInHasBindings, PlatformAccessOrCustomGroup, HasCustomGroup
  <2>6. LockedWritersExclude'
    BY <2>1, <2>2
    DEF LockedWritersExclude, CustomGroupReplacesUserBindings, HasCustomGroup
  <2>7. Commit(r, new)
    BY <1>2, <2>0
  <2> QED BY <2>1, <2>2, <2>4, <2>5, <2>6, <2>7, CommitStep
<1> QED BY <1>1, <1>2, ZenonT(30) DEF CommitV1Role, CommitV1Customize

(* A V2 write that activates the tenant holds the exclusive lock.          *)
LEMMA ActivatedFields ==
    ASSUME db \in DB
    PROVE  /\ Activated(db) \in DB /\ Activated(db).activated
           /\ Activated(db).custom = db.custom /\ Activated(db).user = db.user
           /\ Activated(db).admin = db.admin /\ Activated(db).platform = db.platform
<1>1. CASE db.activated
    BY <1>1 DEF Activated
<1>2. CASE ~db.activated
  <2>1. Activated(db) = [db EXCEPT !.activated = TRUE, !.opted = TRUE, !.version = @ + 1]
    BY <1>2 DEF Activated
  <2>2. db.version + 1 \in Nat
    BY DEF DB
  <2> QED BY <2>1, <2>2, ZenonT(30) DEF DB
<1> QED BY <1>1, <1>2

(* The commit of a V2 write keeps the invariant.                           *)
LEMMA V2CommitStep ==
    ASSUME VersionInv, NEW r \in Requests, CommitV2Write(r) \/ CommitV2Customize(r)
    PROVE  VersionInv'
<1>1. op[r] \in V2Ops /\ pc[r] = "commit"
    BY DEF CommitV2Write, CommitV2Customize, Commit, V2Ops
<1>2. /\ db \in DB /\ snap[r] \in DB /\ DbInv /\ LockedWritersExclude
      /\ ~db.activated => "update" \in held[r]
      /\ Seeded => Provided(db) /\ (snap[r].user \/ HasCustomGroup(snap[r]))
    BY <1>1 DEF VersionInv, TypeOK, HeldInv, BindingsInv, ExclusionInv, DbInv, Relies, Finds,
                Running
<1>3. ASSUME CommitV2Write(r) PROVE VersionInv'
  <2> DEFINE new == Activated(db)
  <2>1. Commit(r, new) /\ db' = new /\ op' = op
    BY <1>3, CommitState DEF CommitV2Write
  <2>2. /\ new \in DB /\ new.activated /\ new.custom = db.custom /\ new.user = db.user
        /\ new.admin = db.admin /\ new.platform = db.platform
    BY <1>2, ActivatedFields
  <2> HIDE DEF new
  <2>3. Keeps
    BY <2>1, <2>2 DEF Keeps, HasCustomGroup
  <2>4. DbInv'
    BY <1>2, <2>1, <2>2
    DEF DbInv, OptedInHasBindings, PlatformAccessOrCustomGroup, HasCustomGroup, Provided
  <2>5. LockedWritersExclude'
    BY <1>2, <2>1, <2>2
    DEF LockedWritersExclude, CustomGroupReplacesUserBindings, HasCustomGroup
  <2>6. new.activated # db.activated => "update" \in held[r]
    BY <1>2, <2>2, ZenonT(30) DEF DB
  <2> QED BY <2>1, <2>2, <2>3, <2>4, <2>5, <2>6, CommitStep, ZenonT(30)
<1>4. ASSUME CommitV2Customize(r), HasCustomGroup(db) PROVE VersionInv'
    BY <1>1, <1>4, EndStep DEF CommitV2Customize, Results
<1>5. ASSUME CommitV2Customize(r), ~HasCustomGroup(db) PROVE VersionInv'
  <2>0. PICK new : new = Customized(Activated(db), snap[r], r)
    OBVIOUS
  <2>1. Commit(r, new) /\ db' = new /\ op' = op /\ ~HasCustomGroup(snap[r])
    BY <1>5, <2>0, CommitState DEF CommitV2Customize
  <2>2. /\ Activated(db) \in DB /\ Activated(db).activated
        /\ Activated(db).admin = db.admin /\ Activated(db).user = db.user
    BY <1>2, ActivatedFields
  <2>3. /\ new \in DB /\ new.activated /\ new.custom = r /\ new.platform = FALSE
        /\ new.admin = db.admin /\ (new.user <=> db.user /\ ~snap[r].user)
    <3>1. PICK d \in DB, seen \in DB : d = Activated(db) /\ seen = snap[r]
      BY <1>2, <2>2
    <3>2. new = [d EXCEPT !.custom = r, !.user = @ /\ ~seen.user, !.platform = FALSE]
      BY <2>0, <3>1 DEF Customized
    <3>3. /\ new \in DB /\ new.activated = d.activated /\ new.custom = r
          /\ new.platform = FALSE /\ new.admin = d.admin
      BY <3>2, ZenonT(30) DEF DB
    <3>4. new.user <=> d.user /\ ~seen.user
      BY <3>2, ZenonT(30) DEF DB
    <3> QED BY <2>2, <3>1, <3>3, <3>4
  <2>4. ~new.user
    BY <1>2, <2>1, <2>3 DEF DbInv
  <2>5. r # NoGroup
    BY VersionAssumption
  <2>6. Keeps
    BY <2>1, <2>3, <2>5 DEF Keeps, HasCustomGroup
  <2>7. DbInv'
    BY <1>2, <2>1, <2>3, <2>4, <2>5, ZenonT(30)
    DEF DbInv, OptedInHasBindings, PlatformAccessOrCustomGroup, HasCustomGroup, Provided
  <2>8. LockedWritersExclude'
    BY <2>1, <2>4 DEF LockedWritersExclude, CustomGroupReplacesUserBindings
  <2>9. new.activated # db.activated => "update" \in held[r]
    BY <1>2, <2>3, ZenonT(30) DEF DB
  <2> QED BY <1>5, <2>1, <2>3, <2>6, <2>7, <2>8, <2>9, CommitStep, ZenonT(30)
<1> QED BY <1>3, <1>4, <1>5

(* What create_default_bindings returns.                                   *)
LEMMA CreatedFields ==
    ASSUME NEW d \in DB, NEW custom \in BOOLEAN
    PROVE  LET c == create_default_bindings(d, custom)
           IN  /\ c \in DB /\ c.activated = d.activated /\ c.custom = d.custom
               /\ c.platform = d.platform /\ c.opted = d.opted
               /\ c.admin = (d.admin \/ Seeded) /\ c.user = (d.user \/ (Seeded /\ ~custom))
BY VersionAssumption, ZenonT(30) DEF DB, create_default_bindings

(* The commits that create default bindings, or change the opt-in state.   *)
LEMMA CreateStep ==
    ASSUME VersionInv, NEW r \in Requests, NEW new \in DB, Commit(r, new),
           new.activated = db.activated, new.custom = db.custom, new.platform = db.platform,
           db.admin => new.admin, db.user => new.user,
           new.user => Seeded \/ db.user,
           op[r] \in {"optin", "setin", "lazy"} \/ new.user = db.user,
           Seeded /\ new.opted => \/ db.opted
                                  \/ new.admin /\ (new.user \/ HasCustomGroup(db))
    PROVE  VersionInv'
<1>1. db' = new /\ op' = op /\ DbInv /\ LockedWritersExclude
    BY CommitState
<1>2. Keeps
    BY <1>1 DEF Keeps, HasCustomGroup
<1>3. DbInv'
    BY <1>1
    DEF DbInv, OptedInHasBindings, PlatformAccessOrCustomGroup, HasCustomGroup
<1>4. LockedWritersExclude'
    BY <1>1 DEF LockedWritersExclude, CustomGroupReplacesUserBindings, HasCustomGroup
<1> QED BY <1>2, <1>3, <1>4, CommitStep

(* The commit of an opt-in or opt-out keeps the invariant.                 *)
LEMMA OptStep ==
    ASSUME VersionInv, NEW r \in Requests, CommitOptIn(r) \/ CommitOptOut(r)
    PROVE  VersionInv'
<1>0. db \in DB /\ db.version + 1 \in Nat
    BY DEF VersionInv, TypeOK, DB
<1>1. ASSUME CommitOptIn(r), db.opted PROVE VersionInv'
  <2> DEFINE new == [db EXCEPT !.version = @ + 1]
  <2>1. Commit(r, new) /\ op[r] \in {"optin", "setin"}
    BY <1>1 DEF CommitOptIn, OptIn
  <2>2. /\ new \in DB /\ new.activated = db.activated /\ new.custom = db.custom
        /\ new.platform = db.platform /\ new.admin = db.admin /\ new.user = db.user
    BY <1>0 DEF DB
  <2> HIDE DEF new
  <2> QED BY <1>1, <2>1, <2>2, CreateStep
<1>2. ASSUME CommitOptIn(r), ~db.opted PROVE VersionInv'
  <2> DEFINE d == [db EXCEPT !.opted = TRUE, !.version = @ + 1]
             new == create_default_bindings(d, HasCustomGroup(snap[r]))
  <2>1. Commit(r, new) /\ op[r] \in {"optin", "setin"}
    BY <1>2 DEF CommitOptIn, OptIn
  <2>2. /\ d \in DB /\ d.activated = db.activated /\ d.custom = db.custom
        /\ d.platform = db.platform /\ d.admin = db.admin /\ d.user = db.user
    BY <1>0, ZenonT(30) DEF DB
  <2>3. HasCustomGroup(snap[r]) \in BOOLEAN
    BY DEF HasCustomGroup
  <2> HIDE DEF d
  <2>4. /\ new \in DB /\ new.activated = db.activated /\ new.custom = db.custom
        /\ new.platform = db.platform
        /\ new.admin = (db.admin \/ Seeded)
        /\ new.user = (db.user \/ (Seeded /\ ~HasCustomGroup(snap[r])))
    BY <2>2, <2>3, CreatedFields
  <2>5. Seeded /\ HasCustomGroup(snap[r]) => db.user \/ HasCustomGroup(db)
    BY <2>1, CommitState, ZenonT(30) DEF Finds, Running
  <2> HIDE DEF new
  <2> QED BY <2>1, <2>4, <2>5, CreateStep, ZenonT(30)
<1>3. ASSUME CommitOptOut(r) PROVE VersionInv'
  <2> DEFINE new == [db EXCEPT !.opted = FALSE, !.version = @ + 1]
  <2>1. Commit(r, new)
    BY <1>3 DEF CommitOptOut
  <2>2. /\ new \in DB /\ new.activated = db.activated /\ new.custom = db.custom
        /\ new.platform = db.platform /\ new.admin = db.admin /\ new.user = db.user
        /\ new.opted = FALSE
    BY <1>0, ZenonT(30) DEF DB
  <2> HIDE DEF new
  <2> QED BY <2>1, <2>2, CreateStep
<1> QED BY <1>1, <1>2, <1>3

(* The lazy creation of default bindings keeps the invariant.              *)
LEMMA LazyStep ==
    ASSUME VersionInv, NEW r \in Requests, ensure_default_bindings_exist(r)
    PROVE  VersionInv'
<1>0. db \in DB /\ op[r] = "lazy" /\ HasCustomGroup(snap[r]) \in BOOLEAN
    BY DEF VersionInv, TypeOK, ensure_default_bindings_exist, HasCustomGroup
<1>1. CASE snap[r].admin
    BY <1>0, <1>1, CreateStep DEF ensure_default_bindings_exist
<1>2. CASE ~snap[r].admin
  <2> DEFINE new == create_default_bindings(db, HasCustomGroup(snap[r]))
  <2>1. Commit(r, new)
    BY <1>2 DEF ensure_default_bindings_exist
  <2>2. /\ new \in DB /\ new.activated = db.activated /\ new.custom = db.custom
        /\ new.platform = db.platform /\ new.opted = db.opted
        /\ new.admin = (db.admin \/ Seeded)
        /\ new.user = (db.user \/ (Seeded /\ ~HasCustomGroup(snap[r])))
    BY <1>0, CreatedFields
  <2> HIDE DEF new
  <2> QED BY <1>0, <2>1, <2>2, CreateStep, ZenonT(30)
<1> QED BY <1>1, <1>2

(* The group that is deleted is the one that is there.                     *)
LEMMA DeleteStep ==
    ASSUME VersionInv, NEW r \in Requests, CommitDeleteGroup(r)
    PROVE  VersionInv'
<1> DEFINE d == WithoutGroup(db, snap[r].custom)
           new == restore_user_default_bindings(d)
<1>1. op[r] = "deletegroup" /\ Commit(r, new)
    BY DEF CommitDeleteGroup
<1>2. /\ db' = new /\ op' = op /\ db \in DB /\ DbInv /\ LockedWritersExclude
      /\ "group" \in held[r] /\ snap[r].custom = db.custom
    BY <1>1, CommitState DEF Relies
<1>3. /\ d \in DB /\ d.activated = db.activated /\ d.custom = NoGroup /\ d.platform = TRUE
      /\ d.admin = db.admin /\ d.user = db.user /\ d.opted = db.opted
    BY <1>2, ZenonT(30) DEF WithoutGroup, DB
<1>4. /\ new \in DB /\ new.activated = db.activated /\ new.custom = NoGroup
      /\ new.platform = TRUE /\ new.admin = db.admin /\ new.opted = db.opted
      /\ new.user = (db.user \/ Seeded)
    BY <1>3, VersionAssumption DEF restore_user_default_bindings, DB
<1> HIDE DEF new, d
<1>5. Keeps
    BY <1>2, <1>4, ZenonT(30) DEF Keeps, HasCustomGroup
<1>6. DbInv'
    BY <1>2, <1>4, ZenonT(30)
    DEF DbInv, OptedInHasBindings, PlatformAccessOrCustomGroup, HasCustomGroup
<1>7. LockedWritersExclude'
    BY <1>2, <1>4 DEF LockedWritersExclude, CustomGroupReplacesUserBindings, HasCustomGroup
<1> QED BY <1>1, <1>2, <1>4, <1>5, <1>6, <1>7, CommitStep

(***************************************************************************)
(* Requests begin                                                          *)
(***************************************************************************)
LEMMA ArriveStep ==
    ASSUME VersionInv, NEW r \in Requests, Arrive(r)
    PROVE  VersionInv'
<1>1. PICK o \in Ops : Permitted(o) /\ op' = [op EXCEPT ![r] = o]
    BY ZenonT(30) DEF Arrive
<1>2. /\ pc[r] = "idle" /\ pc' = [pc EXCEPT ![r] = "begin"] /\ op[r] = "v1role"
      /\ UNCHANGED <<db, held, snap, tries, result>>
    BY DEF Arrive, VersionInv, ExclusionInv
<1>3. TypeOK'
    BY <1>1, <1>2, VersionAssumption DEF VersionInv, TypeOK, Statements
<1>4. /\ op'[r] = o /\ pc'[r] = "begin"
      /\ \A q \in Requests \ {r} : op'[q] = op[q] /\ pc'[q] = pc[q]
    BY <1>1, <1>2 DEF VersionInv, TypeOK
<1>5. LocksExclude'
    BY <1>2 DEF VersionInv, LocksExclude
<1>6. ASSUME NEW q \in Requests PROVE Relies(q)'
    BY <1>2, <1>4 DEF VersionInv, HeldInv, Relies, Running, HasCustomGroup
<1>7. ASSUME Seeded, NEW q \in Requests PROVE Finds(q)'
  <2>1. CASE q = r
    BY <1>1, <1>2, <1>4, <1>7, <2>1, SMTT(30), SMTT(40)
    DEF VersionInv, BindingsInv, OptedInHasBindings, Permitted, Finds, Running, Provided,
        HasCustomGroup
  <2>2. CASE q # r
    BY <1>2, <1>4, <1>7, <2>2, SMTT(30), SMTT(40)
    DEF VersionInv, BindingsInv, Finds, Provided, HasCustomGroup
  <2> QED BY <2>1, <2>2, SMTT(30), SMTT(40)
<1>8. LockedWritersExclude'
  <2>1. (\A q \in Requests : op'[q] \notin {"optin", "setin", "lazy"})
          => \A q \in Requests : op[q] \notin {"optin", "setin", "lazy"}
    BY <1>2, <1>4
  <2> QED BY <1>2, <2>1
          DEF VersionInv, ExclusionInv, LockedWritersExclude, CustomGroupReplacesUserBindings,
              HasCustomGroup
<1>9. OptedInHasBindings' /\ PlatformAccessOrCustomGroup'
    BY <1>2 DEF VersionInv, BindingsInv, OptedInHasBindings, PlatformAccessOrCustomGroup,
                HasCustomGroup
<1>10. ExclusionInv'
    BY <1>2, <1>4, <1>8 DEF VersionInv, ExclusionInv
<1> QED BY <1>3, <1>5, <1>6, <1>7, <1>9, <1>10 DEF VersionInv, HeldInv, BindingsInv

(* The first statement of a transaction keeps the invariant.               *)
LEMMA BeginStep ==
    ASSUME VersionInv, NEW r \in Requests, Begin(r)
    PROVE  VersionInv'
<1>1. /\ pc[r] = "begin" /\ pc' = [pc EXCEPT ![r] = FirstStatement(op[r])]
      /\ UNCHANGED <<db, op, held, tries, result>>
    BY DEF Begin
<1>2. snap' = IF Serializable(r) \/ op[r] = "lazy" THEN [snap EXCEPT ![r] = db] ELSE snap
    BY DEF Begin
<1>3. TypeOK'
  <2>1. snap' \in [Requests -> DB]
    BY <1>2 DEF VersionInv, TypeOK
  <2>2. FirstStatement(op[r]) \in Statements
    BY DEF FirstStatement, Statements
  <2> QED BY <1>1, <2>1, <2>2, ZenonT(30) DEF VersionInv, TypeOK
<1>4. /\ pc'[r] = FirstStatement(op[r])
      /\ op[r] \in V1Ops \union V2Ops => pc'[r] = "share"
      /\ op[r] = "deletegroup" => pc'[r] = "group"
      /\ pc'[r] # "idle"
      /\ op[r] \in V2Ops \union {"optin", "setin"} => snap'[r] = db
      /\ \A q \in Requests \ {r} : pc'[q] = pc[q] /\ snap'[q] = snap[q]
    BY <1>1, <1>2 DEF VersionInv, TypeOK, FirstStatement, Serializable, V1Ops, V2Ops
<1>5. LocksExclude'
    BY <1>1 DEF VersionInv, LocksExclude
<1>6. ASSUME NEW q \in Requests PROVE Relies(q)'
  <2>1. CASE q = r
    BY <1>1, <1>4, <2>1, SMTT(30), SMTT(40) DEF Relies, V1Ops, V2Ops
  <2>2. CASE q # r
    BY <1>1, <1>4, <2>2 DEF VersionInv, HeldInv, Relies, HasCustomGroup
  <2> QED BY <2>1, <2>2, SMTT(30), SMTT(40)
<1>7. ASSUME Seeded, NEW q \in Requests PROVE Finds(q)'
  <2>0. Finds(q)
    BY <1>7, SMTT(30), SMTT(40) DEF VersionInv, BindingsInv
  <2>1. CASE q = r
    BY <1>1, <1>4, <2>0, <2>1, SMTT(30), SMTT(40) DEF Finds, Provided, HasCustomGroup
  <2>2. CASE q # r
    BY <1>1, <1>4, <2>0, <2>2 DEF Finds, Provided, HasCustomGroup
  <2> QED BY <2>1, <2>2
<1>8. DbInv' /\ LockedWritersExclude'
    BY <1>1, SameDb, SMTT(30), SMTT(40)
<1>9. ExclusionInv'
    BY <1>1, <1>4, <1>8 DEF VersionInv, ExclusionInv, DbInv
<1> QED BY <1>3, <1>5, <1>6, <1>7, <1>8, <1>9 DEF VersionInv, HeldInv, BindingsInv, DbInv

(***************************************************************************)
(* The theorems                                                            *)
(***************************************************************************)
LEMMA VersionInit == Init => VersionInv
<1> SUFFICES ASSUME Init PROVE VersionInv
    OBVIOUS
<1>1. PICK o \in BOOLEAN, i \in BOOLEAN, c \in {NoGroup, OldGroup} :
           db = Bootstrapped(o, c, i)
    BY SMTT(30), SMTT(40) DEF Init
<1>2. /\ db \in DB /\ NoSnapshot \in DB
      /\ db.opted = o /\ db.admin = (o /\ Seeded) /\ db.custom = c
      /\ db.user = (o /\ Seeded /\ c = NoGroup) /\ db.platform = (c = NoGroup)
    BY <1>1, VersionAssumption DEF Bootstrapped, NoSnapshot, DB
<1>3. /\ \A r \in Requests : pc[r] = "idle" /\ op[r] = "v1role" /\ held[r] = {}
      /\ TypeOK
    BY <1>2, VersionAssumption
    DEF Init, TypeOK, AllOps, V1Ops, V2Ops, Statements, Results
<1>4. OptedInHasBindings /\ PlatformAccessOrCustomGroup /\ CustomGroupReplacesUserBindings
      /\ (~Seeded => ~db.user)
    BY <1>2, ZenonT(30) DEF OptedInHasBindings, PlatformAccessOrCustomGroup, HasCustomGroup,
                CustomGroupReplacesUserBindings
<1>5. \A r \in Requests : Relies(r) /\ Finds(r)
    BY <1>3 DEF Relies, Finds, V1Ops, V2Ops
<1>6. LocksExclude
    BY <1>3 DEF LocksExclude
<1> QED BY <1>3, <1>4, <1>5, <1>6
        DEF VersionInv, HeldInv, BindingsInv, ExclusionInv, LockedWritersExclude

(* Every step keeps the invariant.                                         *)
LEMMA VersionNext == VersionInv /\ [Next]_vars => VersionInv'
<1> SUFFICES ASSUME VersionInv, [Next]_vars PROVE VersionInv'
    OBVIOUS
<1>1. ASSUME NEW r \in Requests, Arrive(r) \/ Statement(r) \/ Rollback(r)
      PROVE  VersionInv'
  <2>1. CASE Arrive(r) \/ Begin(r)
    BY <2>1, ArriveStep, BeginStep
  <2>2. CASE SerializationFailure(r)
    BY <2>2, AbortedStep DEF SerializationFailure
  <2>3. CASE DeadlockDetected(r)
    <3>1. pc[r] # "idle" /\ Aborted(r)
      BY <2>3 DEF DeadlockDetected, Blockers
    <3> QED BY <3>1, AbortedStep, SMTT(30), SMTT(40)
  <2>4. CASE Rollback(r)
    BY <2>4, EndStep DEF Rollback, Results
  <2>5. CASE \/ assert_v1_write_allowed(r) \/ ensure_v2_write_activated(r)
             \/ check_v2_eligibility(r) \/ lock_tenant_version(r)
    BY <2>5, ShareStep
  <2>6. CASE \/ UpgradeActivation(r) \/ lock_tenant_for_bootstrap(r) \/ set_v2_opt_in_state(r)
    BY <2>6, UpdateLockStep
  <2>7. CASE CustomGroupAbsent(r) \/ DeletedGroup(r)
    BY <2>7, GroupLockStep
  <2>8. CASE CommitV1Role(r) \/ CommitV1Customize(r)
    BY <2>8, V1CommitStep
  <2>9. CASE CommitV2Write(r) \/ CommitV2Customize(r)
    BY <2>9, V2CommitStep
  <2>10. CASE CommitOptIn(r) \/ CommitOptOut(r)
    BY <2>10, OptStep
  <2>11. CASE CommitDeleteGroup(r) \/ ensure_default_bindings_exist(r)
    BY <2>11, DeleteStep, LazyStep
  <2> QED BY <1>1, <2>1, <2>2, <2>3, <2>4, <2>5, <2>6, <2>7, <2>8, <2>9, <2>10, <2>11
          DEF Statement
<1>2. CASE UNCHANGED vars
  <2>1. DbInv' /\ LockedWritersExclude'
    BY <1>2, SameDb DEF vars
  <2>2. TypeOK' /\ LocksExclude'
    BY <1>2, SMTT(30), SMTT(40) DEF vars, VersionInv, TypeOK, LocksExclude
  <2>3. \A r \in Requests : Relies(r)' /\ (Seeded => Finds(r)')
    BY <1>2
    DEF vars, VersionInv, HeldInv, BindingsInv, Relies, Finds, Provided, HasCustomGroup
  <2> QED BY <1>2, <2>1, <2>2, <2>3
          DEF vars, VersionInv, HeldInv, BindingsInv, ExclusionInv, DbInv
<1> QED BY <1>1, <1>2 DEF Next

(* The inductive invariant, for any requests and any number of retries.    *)
THEOREM Version_Invariant == Spec => []VersionInv
<1>1. Init => VersionInv
    BY VersionInit
<1>2. VersionInv /\ [Next]_vars => VersionInv'
    BY VersionNext
<1> QED BY <1>1, <1>2, PTL DEF Spec

(* A tenant that has opted in has its default bindings, in whatever order  *)
(* opting in and out, V2 writes and custom default groups come.            *)
THEOREM OptedInTenantsHaveBindings == Spec => []OptedInHasBindings
<1>1. VersionInv => OptedInHasBindings
    BY DEF VersionInv, BindingsInv
<1> QED BY <1>1, Version_Invariant, PTL

(* The platform's default access and a custom default group exclude each   *)
(* other: the locks keep a creation and a deletion of the group apart.     *)
THEOREM PlatformAccessExclusive == Spec => []PlatformAccessOrCustomGroup
<1>1. VersionInv => PlatformAccessOrCustomGroup
    BY DEF VersionInv
<1> QED BY <1>1, Version_Invariant, PTL

(* Writers that look for the custom group while they hold the lock leave   *)
(* no default binding for users beside it.                                 *)
THEOREM LockedWritersKeepExclusion == Spec => []LockedWritersExclude
<1>1. VersionInv => LockedWritersExclude
    BY DEF VersionInv, ExclusionInv
<1> QED BY <1>1, Version_Invariant, PTL

(* Only a commit ends a request successfully.                              *)
LEMMA ResultStep ==
    ASSUME NEW r \in Requests, Arrive(r) \/ Statement(r) \/ Rollback(r)
    PROVE  \/ UNCHANGED result
           \/ \E how \in {"refused", "failed"} : result' = [result EXCEPT ![r] = how]
           \/ pc[r] = "commit" /\ result' = [result EXCEPT ![r] = "committed"]
<1>1. CASE Arrive(r) \/ Begin(r)
    BY <1>1 DEF Arrive, Begin
<1>2. CASE SerializationFailure(r) \/ DeadlockDetected(r) \/ Rollback(r)
    BY <1>2 DEF SerializationFailure, DeadlockDetected, Aborted, Rollback, End
<1>3. CASE \/ assert_v1_write_allowed(r) \/ ensure_v2_write_activated(r)
           \/ check_v2_eligibility(r) \/ lock_tenant_version(r)
           \/ UpgradeActivation(r) \/ lock_tenant_for_bootstrap(r)
           \/ set_v2_opt_in_state(r) \/ CustomGroupAbsent(r) \/ DeletedGroup(r)
  <2>1. UNCHANGED result \/ Refuse(r)
    BY <1>3
    DEF assert_v1_write_allowed, ensure_v2_write_activated, check_v2_eligibility,
        lock_tenant_version, UpgradeActivation, lock_tenant_for_bootstrap,
        set_v2_opt_in_state, CustomGroupAbsent, DeletedGroup, FoundGroup, Locked
  <2> QED BY <2>1, SMTT(30), SMTT(40) DEF Refuse, End
<1>4. CASE \/ CommitV1Role(r) \/ CommitV1Customize(r) \/ CommitV2Write(r)
           \/ CommitV2Customize(r) \/ CommitOptIn(r) \/ CommitOptOut(r)
           \/ CommitDeleteGroup(r) \/ ensure_default_bindings_exist(r)
  <2>1. (\E new : Commit(r, new)) \/ End(r, "failed")
    BY <1>4, ZenonT(30)
    DEF CommitV1Role, CommitV1Customize, CommitV2Write, CommitV2Customize, CommitOptIn,
        CommitOptOut, CommitDeleteGroup, ensure_default_bindings_exist
  <2> QED BY <2>1 DEF Commit, End
<1> QED BY <1>1, <1>2, <1>3, <1>4 DEF Statement

(* No V1 write commits once the tenant is activated: it holds the shared   *)
(* lock that whoever activates the tenant waits for.                       *)
THEOREM NoLateV1Write == Spec => NoV1WriteAfterActivation
<1> DEFINE Allowed == \A r \in Requests :
               op[r] \in V1Ops /\ result[r] = "none" /\ result'[r] = "committed"
                   => ~db.activated
<1>1. VersionInv /\ [Next]_vars => [Allowed]_vars
  <2> SUFFICES ASSUME VersionInv, Next PROVE Allowed
    OBVIOUS
  <2>1. PICK q \in Requests : Arrive(q) \/ Statement(q) \/ Rollback(q)
    BY DEF Next
  <2>2. \/ UNCHANGED result
        \/ \E how \in {"refused", "failed"} : result' = [result EXCEPT ![q] = how]
        \/ pc[q] = "commit" /\ result' = [result EXCEPT ![q] = "committed"]
    BY <2>1, ResultStep
  <2>3. op[q] \in V1Ops /\ pc[q] = "commit" => ~db.activated
    BY DEF VersionInv, HeldInv, Relies
  <2> QED BY <2>2, <2>3 DEF VersionInv, TypeOK
<1> QED BY <1>1, Version_Invariant, PTL DEF Spec, NoV1WriteAfterActivation
=============================================================================
