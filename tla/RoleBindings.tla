---------------------------- MODULE RoleBindings ----------------------------
(***************************************************************************)
(* The role bindings of one tenant that writes through V2, who is bound to *)
(* them and why, and the relations replicated for them                     *)
(* (management/role_binding, management/role/v2_service.py,                *)
(* management/workspace, management/group, management/tenant_service,      *)
(* api/cross_access).                                                      *)
(*                                                                         *)
(* Requests that write bindings are SERIALIZABLE transactions whose outbox *)
(* event commits with them, so each is one step that changes the rows and  *)
(* the relations together.  The relations are those that the events give   *)
(* when they are applied in commit order: KafkaConsumer shows how they are *)
(* applied.  The expiry job is one transaction per request, after a        *)
(* listing outside of them.                                                *)
(***************************************************************************)
CONSTANTS
    Groups,         \* groups of the tenant
    Principals,     \* users, of the tenant or of another one
    Home,           \* those of the tenant
    UserIds,        \* what identifies a user in the relations
    NoUser,         \* of a principal not yet synchronised
    Custom,         \* custom roles
    SeededRoles,    \* system roles
    Profiles,       \* what the permissions of a role may amount to
    Standard,       \* standard workspaces
    Cars,           \* cross-account requests for the tenant
    CarUser,        \* CarUser[c]: who asks for access with request c
    Api             \* the source of a binding made through the API

Builtin == {"tenant", "root", "default"}
Roles == Custom \union SeededRoles
Resources == Builtin \union Standard
Subjects == Groups \union Principals
Sources == Cars \union {Api}

(* A binding is unique for its role and resource, which stand for its uuid. *)
Bindings == Roles \X Resources

(* A row of RoleBindingGroup or RoleBindingPrincipal; a group has one row   *)
(* for a binding, a principal one for every source.                         *)
Entries == Bindings \X Subjects \X Sources

Statuses == {"none", "pending", "cancelled", "approved", "denied", "expired"}

(* Where a role is bound by a cross-account request, whether all of its     *)
(* permissions fit any resource, and whether standard workspaces take it.   *)
Profile == [scopes : (SUBSET Builtin) \ {{}}, all : BOOLEAN, standard : BOOLEAN]

ASSUME BindingAssumption ==
    /\ Home \subseteq Principals
    /\ NoUser \notin UserIds
    /\ Groups \intersect UserIds = {}
    /\ Principals \intersect (Custom \union Standard \union Groups) = {}
    /\ Custom \intersect (SeededRoles \union Standard \union Groups) = {}
    /\ Standard \intersect Groups = {}
    /\ Builtin \intersect Standard = {}
    /\ Profiles \subseteq Profile /\ Profiles # {}
    /\ CarUser \in [Cars -> UserIds] /\ Api \notin Cars

VARIABLES
    live,       \* the custom roles, standard workspaces and groups that exist
    principals, \* the principals that exist
    userId,     \* userId[p]: the user_id of principal p
    profile,    \* profile[r]: what the permissions of role r amount to
    bindings,   \* the RoleBinding rows
    entries,    \* their subjects
    relations,  \* the tuples replicated for them
    car,        \* car[c]: status, roles and end of a cross-account request
    listed      \* listed[c]: its status when the expiry job listed it

tenantVars == <<live, profile>>
principalVars == <<principals, userId>>
bindingVars == <<bindings, entries, relations>>
carVars == <<car, listed>>
vars == <<tenantVars, principalVars, bindingVars, carVars>>

(* due: the end date lies ahead, has passed today, or on an earlier day.    *)
Car == [status : Statuses, roles : SUBSET SeededRoles, due : {"ahead", "today", "past"}]

Tuples == Bindings \X {"role", "binding", "subject"}
                   \X (Roles \union Resources \union Groups \union UserIds \union {NoUser})

TypeOK ==
    /\ live \subseteq Custom \union Standard \union Groups
    /\ principals \subseteq Principals
    /\ userId \in [Principals -> UserIds \union {NoUser}]
    /\ profile \in [Roles -> Profiles]
    /\ bindings \subseteq Bindings
    /\ entries \subseteq Entries
    /\ relations \subseteq Tuples
    /\ car \in [Cars -> Car]
    /\ listed \in [Cars -> Statuses]

Init ==
    /\ live = {} /\ principals = {}
    /\ userId = [p \in Principals |-> NoUser]
    /\ profile \in [Roles -> Profiles]
    /\ bindings = {} /\ entries = {} /\ relations = {}
    /\ car = [c \in Cars |-> [status |-> "none", roles |-> {}, due |-> "ahead"]]
    /\ listed = [c \in Cars |-> "none"]

(***************************************************************************)
(* The tuples of a binding                                                 *)
(***************************************************************************)
binding_tuples(b) == {<<b, "role", b[1]>>, <<b, "binding", b[2]>>}

(* A principal is known to the relations by its user_id.                    *)
subject_id(s) == IF s \in Principals THEN userId[s] ELSE s

subject_tuple(b, s) == <<b, "subject", subject_id(s)>>

BoundTo(b, es) == {e[2] : e \in {x \in es : x[1] = b}}

all_tuples(b) ==
    binding_tuples(b) \union {subject_tuple(b, s) : s \in BoundTo(b, entries)}

(* An event's removals are applied before its additions.                    *)
Replicate(add, remove) == relations' = (relations \ remove) \union add

(***************************************************************************)
(* RoleBindingService                                                      *)
(***************************************************************************)
(* Subject s loses its entries of source src for the bindings in bs.        *)
Left(s, src, bs) == entries \ {<<b, s, src>> : b \in bs}

OrphanedOfGroups(bs, es) == {b \in bs : BoundTo(b, es) \intersect Groups = {}}

Orphaned(bs, es) == {b \in bs : BoundTo(b, es) = {}}

UnlinkedAnySource(s, bs, es) == bs

(* Another source may keep a principal on the binding.                      *)
Unlinked(s, bs, es) == {b \in bs : s \notin BoundTo(b, es)}

(* _remove_access for the bindings in old, then _add_access for those in    *)
(* new, replicated as one event.                                            *)
ChangeAccess(s, src, old, new) ==
    LET kept == Left(s, src, old)
        orphaned == Orphaned(old, kept)
        created == new \ (bindings \ orphaned)
    IN  /\ entries' = kept \union {<<b, s, src>> : b \in new}
        /\ bindings' = (bindings \ orphaned) \union created
        /\ Replicate((UNION {binding_tuples(b) : b \in created})
                       \union {subject_tuple(b, s) : b \in new},
                     (UNION {binding_tuples(b) : b \in orphaned})
                       \union {subject_tuple(b, s) : b \in Unlinked(s, old, kept)})

Highest(S) ==
    IF "tenant" \in S THEN "tenant" ELSE IF "root" \in S THEN "root" ELSE "default"

(* _validate_role_scopes                                                    *)
Fits(r, res) ==
    \/ profile[r].all
    \/ IF res \in Standard
       THEN Highest(profile[r].scopes) = "default" /\ profile[r].standard
       ELSE Highest(profile[r].scopes) = res

RoleExists(r) == r \in SeededRoles \union live
ResourceExists(res) == res \in Builtin \union live

SubjectExistsUnsynced(s) == s \in live \/ s \in principals

(* A principal without user_id cannot be bound.                             *)
SubjectExists(s) ==
    s \in live \/ (s \in principals /\ userId[s] # NoUser)

(* The bindings of subject s that source src made on resource res.          *)
Current(s, src, res) == {b \in bindings : b[2] = res /\ <<b, s, src>> \in entries}

update_role_bindings_for_subject(s, res, rs) ==
    LET desired == {<<r, res>> : r \in rs}
    IN  /\ ResourceExists(res)
        /\ \A r \in rs : RoleExists(r) /\ Fits(r, res)
        /\ SubjectExists(s) /\ s \in Groups \union Home
        /\ ChangeAccess(s, Api, Current(s, Api, res) \ desired,
                                desired \ Current(s, Api, res))
        /\ UNCHANGED <<tenantVars, principalVars, carVars>>

(* Several subjects may be bound in one request; links that exist are       *)
(* replicated again.                                                        *)
batch_create(requests) ==
    LET made == {q[1] : q \in requests}
    IN  /\ \A q \in requests :
              /\ RoleExists(q[1][1]) /\ ResourceExists(q[1][2]) /\ Fits(q[1][1], q[1][2])
              /\ SubjectExists(q[2]) /\ q[2] \in Groups \union Home
        /\ entries' = entries \union {<<q[1], q[2], Api>> : q \in requests}
        /\ bindings' = bindings \union made
        /\ Replicate((UNION {binding_tuples(b) : b \in made \ bindings})
                       \union {subject_tuple(q[1], q[2]) : q \in requests}, {})
        /\ UNCHANGED <<tenantVars, principalVars, carVars>>

(* A set of bindings goes with all of its subjects.                         *)
RemoveBindings(bs) ==
    /\ Replicate({}, UNION {all_tuples(b) : b \in bs})
    /\ bindings' = bindings \ bs
    /\ entries' = {e \in entries : e[1] \notin bs}

(***************************************************************************)
(* Roles, workspaces, groups                                               *)
(***************************************************************************)
Create(x) ==
    /\ x \in (Custom \union Standard \union Groups) \ live
    /\ live' = live \union {x}
    /\ UNCHANGED <<profile, principalVars, bindingVars, carVars>>

(* Permissions change by an update of a custom role and by seeding; what    *)
(* is bound stays where it is.                                              *)
ChangePermissions(r, f) ==
    /\ RoleExists(r) /\ f # profile[r]
    /\ profile' = [profile EXCEPT ![r] = f]
    /\ UNCHANGED <<live, principalVars, bindingVars, carVars>>

bulk_delete(rs) ==
    /\ rs \subseteq Custom \intersect live
    /\ RemoveBindings({b \in bindings : b[1] \in rs})
    /\ live' = live \ rs
    /\ UNCHANGED <<profile, principalVars, carVars>>

DestroyWorkspace(w) ==
    /\ w \in Standard \intersect live
    /\ RemoveBindings({b \in bindings : b[2] = w})
    /\ live' = live \ {w}
    /\ UNCHANGED <<profile, principalVars, carVars>>

Bound(s) == \E e \in entries : e[2] = s

(* The V2 endpoint refuses to delete a bound group.  The V1 endpoint        *)
(* prepares the removal of its tuples, but its entries protect the group:   *)
(* the deletion fails and all is rolled back.                               *)
DeleteGroup(g) ==
    /\ g \in Groups \intersect live /\ ~Bound(g)
    /\ live' = live \ {g}
    /\ UNCHANGED <<profile, principalVars, bindingVars, carVars>>

(***************************************************************************)
(* Principals                                                              *)
(***************************************************************************)
(* A principal named by a request is created before its user_id is known.   *)
CreatePrincipal(p) ==
    /\ p \in Principals \ principals
    /\ principals' = principals \union {p}
    /\ UNCHANGED <<userId, tenantVars, bindingVars, carVars>>

SameTenant(p, q) == p \in Home <=> q \in Home

Owners(u) == {p \in principals : userId[p] = u}

(* Bindings move with the user_id, so no tuple of theirs changes.           *)
TransferEntries(obsolete, p) ==
    {<<e[1], IF e[2] \in obsolete THEN p ELSE e[2], e[3]>> : e \in entries}

(* A user is synchronised: the principal with its name gets its user_id,    *)
(* taken from an older principal of the same tenant that is merged into it. *)
SyncPrincipal(p, u) ==
    LET obsolete == Owners(u) \ {p}
    IN  /\ userId[p] = NoUser
        /\ \A o \in obsolete : SameTenant(o, p)
        /\ entries' = TransferEntries(obsolete, p)
        /\ principals' = (principals \ obsolete) \union {p}
        /\ userId' = [q \in Principals |-> IF q = p THEN u
                                           ELSE IF q \in obsolete THEN NoUser ELSE userId[q]]
        /\ UNCHANGED <<tenantVars, bindings, relations, carVars>>

(***************************************************************************)
(* Cross-account requests                                                  *)
(***************************************************************************)
(* save refuses an end date on an earlier day.                              *)
CreateCar(c, rs, d) ==
    /\ car[c].status = "none" /\ d # "past"
    /\ car' = [car EXCEPT ![c] = [status |-> "pending", roles |-> rs, due |-> d]]
    /\ UNCHANGED <<tenantVars, principalVars, bindingVars, listed>>

(* The requestor replaces roles and dates of a pending request.             *)
UpdateCar(c, rs, d) ==
    /\ car[c].status = "pending" /\ d # "past"
    /\ car' = [car EXCEPT ![c] = [status |-> "pending", roles |-> rs, due |-> d]]
    /\ UNCHANGED <<tenantVars, principalVars, bindingVars, listed>>

CancelCar(c) ==
    /\ car[c].status = "pending" /\ car[c].due # "past"
    /\ car' = [car EXCEPT ![c].status = "cancelled"]
    /\ UNCHANGED <<tenantVars, principalVars, bindingVars, listed>>

CarBindings(c) ==
    UNION {{r} \X profile[r].scopes : r \in car[c].roles}

(* A request without roles changes no binding.                              *)
add_car_roles_v2(c) ==
    IF car[c].roles = {} THEN UNCHANGED bindingVars
    ELSE \E p \in Owners(CarUser[c]) : ChangeAccess(p, c, {}, CarBindings(c))

RemovedAtCurrentScopes(c, p) ==
    {b \in CarBindings(c) : b \in Current(p, c, b[2])}

(* The scopes of a role may have changed since: all are looked at.          *)
RemovedByCar(c, p) ==
    {b \in UNION {Current(p, c, res) : res \in Builtin} : b[1] \in car[c].roles}

remove_car_roles_v2(c) ==
    IF car[c].roles = {} THEN UNCHANGED bindingVars
    ELSE \E p \in Owners(CarUser[c]) : ChangeAccess(p, c, RemovedByCar(c, p), {})

ApproveCar(c) ==
    /\ car[c].status \in {"pending", "denied"} /\ car[c].due # "past"
    /\ car' = [car EXCEPT ![c].status = "approved"]
    /\ add_car_roles_v2(c)
    /\ UNCHANGED <<tenantVars, principalVars, listed>>

DenyCar(c) ==
    /\ car[c].status \in {"pending", "approved"} /\ car[c].due # "past"
    /\ car' = [car EXCEPT ![c].status = "denied"]
    /\ remove_car_roles_v2(c)
    /\ UNCHANGED <<tenantVars, principalVars, listed>>

TimePasses(c) ==
    /\ car[c].status # "none" /\ car[c].due # "past"
    /\ car' = [car EXCEPT ![c].due = IF @ = "ahead" THEN "today" ELSE "past"]
    /\ UNCHANGED <<tenantVars, principalVars, bindingVars, listed>>

(* The expiry job lists what may expire, and later looks at each again.     *)
ListCars ==
    /\ \A c \in Cars : listed[c] = "none"
    /\ \E c \in Cars : car[c].status \in {"pending", "approved"}
    /\ listed' = [c \in Cars |-> IF car[c].status \in {"pending", "approved"}
                                 THEN car[c].status ELSE "none"]
    /\ UNCHANGED <<tenantVars, principalVars, bindingVars, car>>

Expire(c, status) ==
    /\ listed[c] # "none"
    /\ listed' = [listed EXCEPT ![c] = "none"]
    /\ IF car[c].due = "ahead" THEN UNCHANGED <<car, bindingVars>>
       ELSE /\ car' = [car EXCEPT ![c].status = "expired"]
            /\ IF status = "approved" THEN remove_car_roles_v2(c)
               ELSE UNCHANGED bindingVars
    /\ UNCHANGED <<tenantVars, principalVars>>

ExpireCar(c) == Expire(c, car[c].status)

(* Nothing is retried: an error, or the end of the worker, ends the job.    *)
AbortJob ==
    /\ \E c \in Cars : listed[c] # "none"
    /\ listed' = [c \in Cars |-> "none"]
    /\ UNCHANGED <<tenantVars, principalVars, bindingVars, car>>

(***************************************************************************)
(* The system                                                              *)
(***************************************************************************)
(* A batch asks for at most two bindings here.                              *)
BindingStep ==
    \/ \E s \in Subjects, res \in Resources, rs \in SUBSET Roles :
          update_role_bindings_for_subject(s, res, rs)
    \/ \E q1, q2 \in Bindings \X Subjects : batch_create({q1, q2})

TenantStep ==
    \/ \E x \in Custom \union Standard \union Groups : Create(x)
    \/ \E r \in Roles, f \in Profiles : ChangePermissions(r, f)
    \/ \E rs \in (SUBSET Custom) \ {{}} : bulk_delete(rs)
    \/ \E w \in Standard : DestroyWorkspace(w)
    \/ \E g \in Groups : DeleteGroup(g)

PrincipalStep ==
    \E p \in Principals : CreatePrincipal(p) \/ \E u \in UserIds : SyncPrincipal(p, u)

CarStep ==
    \/ \E c \in Cars, rs \in SUBSET SeededRoles, d \in {"ahead", "today"} :
          CreateCar(c, rs, d) \/ UpdateCar(c, rs, d)
    \/ \E c \in Cars : \/ CancelCar(c) \/ ApproveCar(c) \/ DenyCar(c)
                       \/ TimePasses(c) \/ ExpireCar(c)
    \/ ListCars \/ AbortJob

Next == BindingStep \/ TenantStep \/ PrincipalStep \/ CarStep

Spec == Init /\ [][Next]_vars

(***************************************************************************)
(* Properties                                                              *)
(***************************************************************************)
(* The relations are at all times those of the rows: no source's removal    *)
(* takes a tuple another still needs, and none is left behind.              *)
RelationsMatchRows ==
    relations = UNION {all_tuples(b) : b \in bindings}

(* A binding is deleted with its last subject, and an entry's binding, role *)
(* and resource exist.                                                      *)
NoDanglingRows ==
    /\ \A b \in bindings : /\ BoundTo(b, entries) # {}
                           /\ RoleExists(b[1]) /\ ResourceExists(b[2])
    /\ \A e \in entries : e[1] \in bindings /\ SubjectExists(e[2])

(* Only while a cross-account request is approved is anyone bound by it,    *)
(* even if its roles were bound at scopes they no longer have, or the       *)
(* request changed while the expiry job was under way.                      *)
AccessOnlyWhileApproved ==
    \A e \in entries : e[3] # Api => car[e[3]].status = "approved"

(* An approved request's user, whichever principal it now is, is bound to   *)
(* each of its roles, whatever other requests with the same roles became.   *)
ApprovedHasAccess ==
    \A c \in Cars : car[c].status = "approved" =>
        \A r \in car[c].roles :
            \E res \in Builtin : <<<<r, res>>, "subject", CarUser[c]>> \in relations

(* Beyond these, for induction: no two principals share a user_id, who is   *)
(* bound by a request is its user, to its roles, at the built-in scopes,    *)
(* and an approved request has entries of its own, whatever others have.    *)
UniqueUserIds ==
    \A p, q \in principals : userId[p] = userId[q] /\ userId[p] # NoUser => p = q

CarEntries ==
    \A e \in entries : e[3] # Api =>
        /\ e[2] \in Principals /\ userId[e[2]] = CarUser[e[3]]
        /\ e[1][1] \in car[e[3]].roles /\ e[1][2] \in Builtin

ApprovedEntries ==
    \A c \in Cars : car[c].status = "approved" =>
        \A r \in car[c].roles : \E res \in Builtin, p \in principals :
            userId[p] = CarUser[c] /\ <<<<r, res>>, p, c>> \in entries

(* The inductive invariant of the proofs.                                   *)
BindingInv ==
    /\ TypeOK /\ RelationsMatchRows /\ NoDanglingRows /\ UniqueUserIds
    /\ \A p \in Principals \ principals : userId[p] = NoUser
    /\ \A e \in entries : e[2] \in Groups => e[3] = Api
    /\ CarEntries /\ AccessOnlyWhileApproved /\ ApprovedEntries
=============================================================================
