--------------------------- MODULE BindingQueries ---------------------------
(***************************************************************************)
(* The endpoints that list role bindings (management/role_binding/view.py, *)
(* service.py, queryset.py, serializer.py and util/inventory_api_client):  *)
(* GET /role-bindings/ and GET /role-bindings/by-subject/.                 *)
(*                                                                         *)
(* Which bindings a resource inherits only Kessel knows: an endpoint first *)
(* asks it for the bindings of the resource and of what lies above it, and *)
(* then reads the rows.  Other requests commit between the two reads.  The *)
(* default bindings that a listing creates first, when they are missing,   *)
(* are TenantVersion's.                                                    *)
(***************************************************************************)
EXTENDS RoleBindings

VARIABLE asked       \* the lookup of a listing in progress

queryVars == <<vars, asked>>

(* Kessel is not configured, or the call failed.                            *)
NoAnswer == {<<>>}

(* What a query may leave out.                                              *)
Unset == "unset"

TypeOf(res) == IF res = "tenant" THEN "tenant" ELSE "workspace"

(* A resource is named by id and type, or is the tenant named by org id.    *)
Queries == [id : Resources \union {Unset}, type : {"tenant", "workspace", Unset},
            org : BOOLEAN, exclude : {"none", "direct", "indirect"}]

(***************************************************************************)
(* The lookup                                                              *)
(***************************************************************************)
(* A standard workspace lies in the default one here.                       *)
Above(res) ==
    CASE res = "tenant"  -> {}
      [] res = "root"    -> {"tenant"}
      [] res = "default" -> {"tenant", "root"}
      [] OTHER           -> Builtin

(* What Kessel finds by the recursive relation "binding".                   *)
lookup_binding_subjects(res) ==
    {b \in Bindings : \E on \in {res} \union Above(res) : <<b, "binding", on>> \in relations}

Ask(res) ==
    /\ asked.res = Unset
    /\ asked' = [res |-> res, uuids |-> lookup_binding_subjects(res)]
    /\ UNCHANGED vars

Reply ==
    /\ asked.res # Unset
    /\ asked' = [res |-> Unset, uuids |-> {}]
    /\ UNCHANGED vars

(* A binding that is deleted does not come back: a later one for the same   *)
(* role and resource has another uuid.                                      *)
Write ==
    /\ Next
    /\ asked' = [asked EXCEPT !.uuids = @ \intersect bindings']

ListInit == Init /\ asked = [res |-> Unset, uuids |-> {}]

ListNext == Write \/ Reply \/ \E res \in Resources : ResourceExists(res) /\ Ask(res)

(***************************************************************************)
(* Queries                                                                 *)
(***************************************************************************)
(* RoleBindingListInputSerializer.validate                                  *)
valid_list(q) ==
    /\ q.org => q.id = Unset /\ q.type \in {Unset, "tenant"}
    /\ q.exclude # "indirect" /\ ~q.org => (q.id = Unset <=> q.type = Unset)

validate_resource_identifiers(q) ==
    IF q.org THEN q.id = Unset /\ q.type \in {Unset, "tenant"}
    ELSE q.id # Unset /\ q.type # Unset

resolve_resource_identifiers(q) ==
    IF q.org THEN [q EXCEPT !.id = "tenant", !.type = "tenant"] ELSE q

(* Kessel is asked only for what is inherited by a given resource.          *)
resolve_inherited_bindings(q, answer) ==
    IF q.exclude \in {"direct", "none"} /\ q.id # Unset /\ q.type # Unset
    THEN answer ELSE NoAnswer

for_resource_filter(q) ==
    {b \in bindings : /\ q.id # Unset => b[2] = q.id
                      /\ q.type # Unset => TypeOf(b[2]) = q.type}

BindingFilterWithDirect(q, uuids) ==
    IF uuids = NoAnswer THEN for_resource_filter(q)
    ELSE for_resource_filter(q) \union (bindings \intersect uuids)

build_binding_filter(q, uuids) ==
    IF uuids = NoAnswer THEN for_resource_filter(q)
    ELSE IF q.exclude = "direct" THEN (bindings \intersect uuids) \ for_resource_filter(q)
    ELSE for_resource_filter(q) \union (bindings \intersect uuids)

(* Without an answer what is inherited is unknown.                          *)
Selected(q, answer) ==
    LET asks == resolve_resource_identifiers(q)
        uuids == resolve_inherited_bindings(asks, answer)
    IN  IF q.exclude = "direct" /\ uuids = NoAnswer THEN {}
        ELSE build_binding_filter(asks, uuids)

(* Both groups and principals are searched, whoever made the binding.       *)
for_subject(bs, s) == {b \in bs : s \in BoundTo(b, entries)}

get_role_bindings_for_list(q, answer) == Selected(q, answer)

(* A row of the list shows the first group that is bound, if any, and else  *)
(* the first principal.                                                     *)
get_subject(b) ==
    LET groups == BoundTo(b, entries) \intersect Groups
    IN  IF groups # {} THEN groups ELSE BoundTo(b, entries)

(* Who made a group's binding is not looked at; a user is listed for what   *)
(* the API bound, and only in the tenant of their own.                      *)
build_base_queryset(q, answer) ==
    [g \in Groups |-> {b \in Selected(q, answer) : \E src \in Sources : <<b, g, src>> \in entries}]

build_user_queryset(q, answer) ==
    [p \in Principals |-> {b \in Selected(q, answer) : p \in Home /\ <<b, p, Api>> \in entries}]

get_role_bindings_by_subject(q, answer, s) ==
    IF s \in Groups THEN build_base_queryset(q, answer)[s]
    ELSE build_user_queryset(q, answer)[s]

get_roles(bs) == {b[1] : b \in bs}
get_sources(bs) == {b[2] : b \in bs}

(***************************************************************************)
(* Properties                                                              *)
(***************************************************************************)
(* The bindings through which Kessel gives subject s access to res.         *)
Enforced(s, res) ==
    {b \in lookup_binding_subjects(res) : subject_tuple(b, s) \in relations}

(* What Kessel may have told a listing that reads its rows now.             *)
Answers(res) ==
    {lookup_binding_subjects(res)} \union (IF asked.res = res THEN {asked.uuids} ELSE {})

Names(q, res) ==
    LET asks == resolve_resource_identifiers(q)
    IN  asks.id = res /\ asks.type = TypeOf(res)

ListQueries ==
    [res \in Resources |-> {q \in Queries : q.exclude = "none" /\ valid_list(q) /\ Names(q, res)}]

SubjectQueries ==
    [res \in Resources |->
        {q \in Queries : q.exclude = "none" /\ validate_resource_identifiers(q) /\ Names(q, res)}]

Excluding(q, x) == [q EXCEPT !.exclude = x]

(* However a resource is named, what is listed without exclusion are its    *)
(* direct bindings and those on what lies above it, also when Kessel        *)
(* answered before others wrote, or did not answer (service.py,             *)
(* get_role_bindings_for_list).                                             *)
SourcesAddUp ==
    \A res \in {r \in Resources : ResourceExists(r)} : \A q \in ListQueries[res] :
        \A answer \in Answers(res) \union {NoAnswer} :
            LET List(x) == get_role_bindings_for_list(Excluding(q, x), answer)
            IN  /\ List("none") = List("direct") \union List("indirect")
                /\ get_sources(List("indirect")) \subseteq {res}
                /\ get_sources(List("direct")) \subseteq Above(res)

(* Who is listed for a resource has the access there in Kessel, and who has *)
(* access is listed, cross-account access apart; a filter by subject gives  *)
(* the same, and the subject that a row shows is found by subject as well.  *)
ListedIsEnforced ==
    \A res \in {r \in Resources : ResourceExists(r)}, s \in Subjects : \A q \in SubjectQueries[res] :
        LET now == lookup_binding_subjects(res)
            Listed(answer) == get_role_bindings_by_subject(q, answer, s)
            crossAccount == {b \in bindings : \E c \in Cars : <<b, s, c>> \in entries}
        IN  /\ \A answer \in Answers(res) : Listed(answer) \subseteq Enforced(s, res)
            /\ Enforced(s, res) \ Listed(now) \subseteq crossAccount
            /\ for_subject(get_role_bindings_for_list(q, now), s) \ Listed(now) \subseteq crossAccount
            /\ \A b \in get_role_bindings_for_list(q, now) \ crossAccount :
                  s \in get_subject(b) => b[1] \in get_roles(Listed(now))

(* The two endpoints agree with each other and with what Kessel enforces.   *)
ListingsAgree == SourcesAddUp /\ ListedIsEnforced
=============================================================================
