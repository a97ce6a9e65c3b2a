------------------------- MODULE RoleBindingsProofs --------------------------
(***************************************************************************)
(* For any groups, principals, roles, workspaces and cross-account         *)
(* requests of a tenant: the relations are always those of the rows, a     *)
(* cross-account request gives access exactly while it is approved, and no *)
(* row refers to something that is gone.                                   *)
(***************************************************************************)
EXTENDS RoleBindings, TLAPS

(***************************************************************************)
(* Rows and the tuples they stand for                                      *)
(***************************************************************************)

(* An entry is made of a binding, a subject and a source.                  *)
LEMMA EntryParts ==
    \A e \in Entries : /\ e = <<e[1], e[2], e[3]>>
                       /\ e[1] \in Bindings /\ e[2] \in Subjects /\ e[3] \in Sources
BY DEF Entries

(* A binding is made of a role and a resource.                             *)
LEMMA BindingParts ==
    \A b \in Bindings : b = <<b[1], b[2]>> /\ b[1] \in Roles /\ b[2] \in Resources
BY DEF Bindings

(* Who is bound to b by the entries es.                                    *)
LEMMA BoundToMember ==
    ASSUME NEW b, NEW es, NEW s
    PROVE  s \in BoundTo(b, es) <=> \E e \in es : e[1] = b /\ e[2] = s
BY DEF BoundTo

(* A binding without entries is bound to nobody.                           *)
LEMMA BoundToEmpty ==
    ASSUME NEW b, NEW es
    PROVE  BoundTo(b, es) = {} <=> ~\E e \in es : e[1] = b
BY DEF BoundTo

(* The rows that tuple t stands for.                                       *)
HasRow(t) ==
    \E b \in bindings :
        \/ t \in binding_tuples(b)
        \/ \E e \in entries : e[1] = b /\ t = subject_tuple(b, e[2])

(* RelationsMatchRows, tuple by tuple.                                     *)
LEMMA RelationsByRow == RelationsMatchRows <=> \A t : t \in relations <=> HasRow(t)
<1>1. ASSUME NEW b, NEW t
      PROVE  t \in all_tuples(b) <=> \/ t \in binding_tuples(b)
                                     \/ \E e \in entries : e[1] = b /\ t = subject_tuple(b, e[2])
    BY BoundToMember DEF all_tuples
<1>2. ASSUME NEW t
      PROVE  t \in UNION {all_tuples(b) : b \in bindings} <=> HasRow(t)
    BY <1>1 DEF HasRow
<1> QED BY <1>2 DEF RelationsMatchRows

(* The same of the next state.                                             *)
LEMMA RelationsByRowNext ==
    RelationsMatchRows' <=> (\A t : t \in relations <=> HasRow(t))'
BY RelationsByRow, PTL

(* Subjects that can be bound are told apart by what the relations call    *)
(* them.                                                                   *)
LEMMA SubjectIdInjective ==
    ASSUME TypeOK, UniqueUserIds,
           NEW s \in Subjects, NEW q \in Subjects, SubjectExists(s), SubjectExists(q),
           subject_id(s) = subject_id(q)
    PROVE  s = q
<1>1. CASE s \in Principals /\ q \in Principals
    BY <1>1, BindingAssumption DEF TypeOK, UniqueUserIds, SubjectExists, subject_id
<1>2. CASE s \in Groups /\ q \in Groups
    BY <1>2, BindingAssumption DEF subject_id
<1>3. ASSUME NEW x \in Principals, NEW g \in Groups, SubjectExists(x)
      PROVE  subject_id(x) # subject_id(g)
    BY <1>3, BindingAssumption DEF TypeOK, SubjectExists, subject_id
<1> QED BY <1>1, <1>2, <1>3 DEF Subjects

(* The tuples of typed rows are typed.                                     *)
LEMMA RelationsTyped ==
    RelationsMatchRows /\ bindings \subseteq Bindings /\ entries \subseteq Entries
        /\ userId \in [Principals -> UserIds \union {NoUser}]
      => relations \subseteq Tuples
<1> SUFFICES ASSUME RelationsMatchRows, bindings \subseteq Bindings, entries \subseteq Entries,
                    userId \in [Principals -> UserIds \union {NoUser}],
                    NEW t \in relations
             PROVE  t \in Tuples
    OBVIOUS
<1>1. PICK b \in bindings : \/ t \in binding_tuples(b)
                            \/ \E e \in entries : e[1] = b /\ t = subject_tuple(b, e[2])
    BY RelationsByRow DEF HasRow
<1>2. CASE t \in binding_tuples(b)
    BY <1>2, BindingParts DEF binding_tuples, Tuples
<1>3. CASE \E e \in entries : e[1] = b /\ t = subject_tuple(b, e[2])
  <2>1. PICK e \in entries : t = <<b, "subject", subject_id(e[2])>>
    BY <1>3 DEF subject_tuple
  <2>2. subject_id(e[2]) \in Groups \union UserIds \union {NoUser}
    BY EntryParts DEF subject_id, Subjects
  <2> QED BY <2>1, <2>2 DEF Tuples
<1> QED BY <1>1, <1>2, <1>3

(* A change of the access of a subject that can be bound leaves the        *)
(* relations to be those of the rows and no row without what it refers to. *)
LEMMA ChangeAccessRows ==
    ASSUME TypeOK, RelationsMatchRows, NoDanglingRows, UniqueUserIds,
           NEW s \in Subjects, SubjectExists(s), NEW src \in Sources,
           NEW old \in SUBSET bindings, NEW new \in SUBSET Bindings,
           \A b \in new : RoleExists(b[1]) /\ ResourceExists(b[2]),
           ChangeAccess(s, src, old, new), UNCHANGED <<live, principals, userId>>
    PROVE  /\ RelationsMatchRows' /\ NoDanglingRows'
           /\ bindings' \subseteq Bindings /\ entries' \subseteq Entries
<1> DEFINE kept == Left(s, src, old)
           orphaned == Orphaned(old, kept)
           created == new \ (bindings \ orphaned)
           added == (UNION {binding_tuples(b) : b \in created})
                      \union {subject_tuple(b, s) : b \in new}
           removed == (UNION {binding_tuples(b) : b \in orphaned})
                      \union {subject_tuple(b, s) : b \in Unlinked(s, old, kept)}
<1>1. /\ entries' = kept \union {<<b, s, src>> : b \in new}
      /\ bindings' = (bindings \ orphaned) \union new
      /\ relations' = (relations \ removed) \union added
    BY DEF ChangeAccess, Replicate
<1>2. /\ kept \subseteq entries
      /\ \A e \in entries \ kept : e[1] \in old /\ e = <<e[1], s, src>>
      /\ \A e \in entries : e[1] \notin old => e \in kept
    BY DEF Left
<1>3. /\ orphaned \subseteq old
      /\ \A e \in kept : e[1] \notin orphaned
      /\ \A b \in old \ orphaned : \E e \in kept : e[1] = b
  <2>1. orphaned = {b \in old : BoundTo(b, kept) = {}}
    BY DEF Orphaned
  <2>2. ASSUME NEW b PROVE BoundTo(b, kept) = {} <=> ~\E e \in kept : e[1] = b
    BY BoundToEmpty, Zenon
  <2> HIDE DEF kept, orphaned
  <2> QED BY <2>1, <2>2
<1>4. \A b \in old : b \in Unlinked(s, old, kept) <=> ~\E e \in kept : e[1] = b /\ e[2] = s
    BY BoundToMember DEF Unlinked
<1>5. bindings' \subseteq Bindings /\ entries' \subseteq Entries
    BY <1>1, <1>2 DEF TypeOK, Entries
<1>6. NoDanglingRows'
  <2> HIDE DEF kept, orphaned, created, added, removed
  <2>1. \A b \in bindings : \E e \in entries : e[1] = b
    BY BoundToEmpty DEF NoDanglingRows
  <2>2. ASSUME NEW b \in bindings' PROVE \E e \in entries' : e[1] = b
    <3>1. CASE b \in new
      <4>1. <<b, s, src>> \in entries'
        BY <1>1, <3>1
      <4> QED BY <4>1
    <3>2. CASE b \in bindings \ orphaned
      BY <1>1, <1>2, <1>3, <2>1, <3>2
    <3> QED BY <1>1, <3>1, <3>2
  <2>3. ASSUME NEW b \in bindings' PROVE RoleExists(b[1]) /\ ResourceExists(b[2])
    BY <1>1 DEF NoDanglingRows
  <2>4. ASSUME NEW e \in entries' PROVE e[1] \in bindings' /\ SubjectExists(e[2])
    BY <1>1, <1>2, <1>3 DEF NoDanglingRows
  <2>5. ASSUME NEW b \in bindings' PROVE BoundTo(b, entries') # {}
    BY <2>2, BoundToEmpty
  <2> QED BY <2>3, <2>4, <2>5
          DEF NoDanglingRows, RoleExists, ResourceExists, SubjectExists, BoundTo
<1>7. ASSUME NEW t PROVE t \in relations' <=> HasRow(t)'
  <2>1. t \in relations <=> HasRow(t)
    BY RelationsByRow
  <2>2. \A b : subject_tuple(b, s)' = subject_tuple(b, s)
    BY DEF subject_tuple, subject_id
  <2>3. HasRow(t)' <=> \E b \in bindings' :
                          \/ t \in binding_tuples(b)
                          \/ \E e \in entries' : e[1] = b /\ t = subject_tuple(b, e[2])
    BY DEF HasRow, subject_tuple, subject_id
  <2>4. t \in added <=> \/ \E b \in created : t \in binding_tuples(b)
                       \/ \E b \in new : t = subject_tuple(b, s)
    OBVIOUS
  <2>5. t \in removed <=> \/ \E b \in orphaned : t \in binding_tuples(b)
                         \/ \E b \in Unlinked(s, old, kept) : t = subject_tuple(b, s)
    OBVIOUS
  <2>6. t \in relations' <=> (t \in relations /\ t \notin removed) \/ t \in added
    BY <1>1
  <2>7. created \subseteq new /\ new \subseteq created \union (bindings \ orphaned)
    OBVIOUS
  <2>8. \A b, c, x : t \in binding_tuples(b) => t # subject_tuple(c, x)
    BY DEF binding_tuples, subject_tuple
  <2>9. \A b, c : t \in binding_tuples(b) /\ t \in binding_tuples(c) => b = c
    BY DEF binding_tuples
  <2> HIDE DEF kept, orphaned, created, added, removed
  <2>11. CASE \E b \in Bindings : t \in binding_tuples(b)
    <3>1. PICK b \in Bindings : t \in binding_tuples(b)
      BY <2>11
    <3>2. HasRow(t) <=> b \in bindings
      BY <3>1, <2>8, <2>9 DEF HasRow
    <3>3. HasRow(t)' <=> b \in bindings'
      BY <3>1, <2>3, <2>8, <2>9
    <3>4. t \in added <=> b \in created
      BY <3>1, <2>4, <2>8, <2>9
    <3>5. t \in removed <=> b \in orphaned
      BY <3>1, <2>5, <2>8, <2>9
    <3> QED BY <1>1, <2>1, <2>6, <2>7, <3>2, <3>3, <3>4, <3>5
  <2>12. CASE \A b \in Bindings : t \notin binding_tuples(b)
    <3>0. bindings \subseteq Bindings /\ created \subseteq Bindings /\ orphaned \subseteq Bindings
      BY <1>3, <2>7 DEF TypeOK
    <3>1. HasRow(t) <=> \E e \in entries : t = subject_tuple(e[1], e[2])
      BY <2>12, <3>0 DEF HasRow, NoDanglingRows
    <3>2. HasRow(t)' <=> \E e \in entries' : t = subject_tuple(e[1], e[2])
      BY <1>5, <1>6, <2>3, <2>12 DEF NoDanglingRows
    <3>3. t \in added <=> \E b \in new : t = subject_tuple(b, s)
      BY <2>4, <2>12, <3>0
    <3>4. t \in removed <=> \E b \in Unlinked(s, old, kept) : t = subject_tuple(b, s)
      BY <2>5, <2>12, <3>0
    <3>5. ASSUME t \in added PROVE HasRow(t)'
      <4>1. PICK b \in new : t = subject_tuple(b, s)
        BY <3>3, <3>5
      <4>2. <<b, s, src>> \in entries'
        BY <1>1
      <4> QED BY <3>2, <4>1, <4>2
    <3>6. ASSUME t \in relations, t \notin removed PROVE HasRow(t)'
      <4>1. PICK e \in entries : t = subject_tuple(e[1], e[2])
        BY <2>1, <3>1, <3>6
      <4>2. CASE e \in kept
        BY <1>1, <3>2, <4>1, <4>2
      <4>3. CASE e \notin kept
        <5>1. e[1] \in old /\ e[2] = s
          BY <1>2, <4>3
        <5>2. PICK d \in kept : d[1] = e[1] /\ d[2] = s
          BY <1>4, <3>4, <3>6, <4>1, <5>1
        <5> QED BY <1>1, <3>2, <4>1, <5>1, <5>2
      <4> QED BY <4>2, <4>3
    <3>7. ASSUME HasRow(t)', t \notin added PROVE t \in relations /\ t \notin removed
      <4>1. PICK e \in entries' : t = subject_tuple(e[1], e[2])
        BY <3>2, <3>7
      <4>2. e \in kept
        BY <1>1, <3>3, <3>7, <4>1
      <4>3. t \in relations /\ e[2] \in Subjects /\ SubjectExists(e[2])
        BY <1>2, <2>1, <3>1, <4>1, <4>2, EntryParts DEF TypeOK, NoDanglingRows
      <4>4. ASSUME NEW b \in Unlinked(s, old, kept), t = subject_tuple(b, s) PROVE FALSE
        <5>1. e[1] = b /\ subject_id(e[2]) = subject_id(s)
          BY <4>1, <4>4 DEF subject_tuple
        <5>2. e[2] = s
          BY <4>3, <5>1, SubjectIdInjective
        <5>3. b \in old
          BY DEF Unlinked
        <5> QED BY <1>4, <4>2, <5>1, <5>2, <5>3
      <4> QED BY <3>4, <4>3, <4>4
    <3> QED BY <2>6, <3>5, <3>6, <3>7, SMTT(30), SMTT(40)
  <2> QED BY <2>11, <2>12
<1>8. RelationsMatchRows'
  <2>1. (\A t : t \in relations <=> HasRow(t))'
    BY <1>7
  <2> QED BY <2>1, RelationsByRowNext
<1> QED BY <1>5, <1>6, <1>8

(* So does a batch of bindings ...                                         *)
LEMMA BatchCreateRows ==
    ASSUME TypeOK, RelationsMatchRows, NoDanglingRows,
           NEW requests \in SUBSET (Bindings \X Subjects), batch_create(requests)
    PROVE  /\ RelationsMatchRows' /\ NoDanglingRows'
           /\ bindings' \subseteq Bindings /\ entries' \subseteq Entries
<1> DEFINE made == {q[1] : q \in requests}
           linked == {<<q[1], q[2], Api>> : q \in requests}
<1>1. /\ entries' = entries \union linked /\ bindings' = bindings \union made
      /\ UNCHANGED <<live, principals, userId>>
      /\ relations' = relations \union (UNION {binding_tuples(b) : b \in made \ bindings})
                                \union {subject_tuple(q[1], q[2]) : q \in requests}
    BY DEF batch_create, Replicate, tenantVars, principalVars
<1>2. /\ \A q \in requests : q[1] \in made /\ <<q[1], q[2], Api>> \in linked
      /\ \A b \in made : \E q \in requests : q[1] = b
      /\ \A e \in linked : \E q \in requests : e = <<q[1], q[2], Api>>
    OBVIOUS
<1>3. \A q \in requests : /\ q[1] \in Bindings /\ q[2] \in Subjects
                          /\ RoleExists(q[1][1]) /\ ResourceExists(q[1][2]) /\ SubjectExists(q[2])
    BY DEF batch_create
<1> HIDE DEF made, linked
<1>4. made \subseteq Bindings /\ linked \subseteq Entries
    BY <1>2, <1>3, SMTT(30), SMTT(40) DEF Entries, Sources
<1>5. NoDanglingRows'
  <2>1. \A b \in bindings : \E e \in entries : e[1] = b
    BY BoundToEmpty DEF NoDanglingRows
  <2>2. ASSUME NEW b \in made PROVE \E e \in linked : e[1] = b
    <3>1. PICK q \in requests : q[1] = b
      BY <1>2
    <3>2. <<b, q[2], Api>> \in linked
      BY <1>2, <3>1
    <3> QED BY <3>2
  <2>3. ASSUME NEW b \in bindings' PROVE BoundTo(b, entries') # {}
    BY <1>1, <2>1, <2>2, BoundToEmpty, SMTT(30), SMTT(40)
  <2>4. ASSUME NEW b \in bindings' PROVE RoleExists(b[1]) /\ ResourceExists(b[2])
    BY <1>1, <1>2, <1>3 DEF NoDanglingRows
  <2>5. ASSUME NEW e \in linked PROVE e[1] \in made /\ SubjectExists(e[2])
    BY <1>2, <1>3, SMTT(30), SMTT(40)
  <2>6. ASSUME NEW e \in entries' PROVE e[1] \in bindings' /\ SubjectExists(e[2])
    BY <1>1, <2>5 DEF NoDanglingRows
  <2> QED BY <1>1, <2>3, <2>4, <2>6, SMTT(30), SMTT(40)
          DEF NoDanglingRows, RoleExists, ResourceExists, SubjectExists, BoundTo
<1>6. ASSUME NEW t PROVE t \in relations' <=> HasRow(t)'
  <2>1. t \in relations <=> HasRow(t)
    BY RelationsByRow
  <2>2. HasRow(t)' <=> \E b \in bindings' :
                          \/ t \in binding_tuples(b)
                          \/ \E e \in entries' : e[1] = b /\ t = subject_tuple(b, e[2])
    BY <1>1 DEF HasRow, subject_tuple, subject_id
  <2>3. t \in relations' <=> \/ t \in relations
                             \/ \E b \in made \ bindings : t \in binding_tuples(b)
                             \/ \E q \in requests : t = subject_tuple(q[1], q[2])
    BY <1>1
  <2>4. ASSUME NEW q \in requests, t = subject_tuple(q[1], q[2]) PROVE HasRow(t)'
    <3>1. <<q[1], q[2], Api>> \in entries' /\ q[1] \in bindings'
      BY <1>1, <1>2
    <3> QED BY <2>2, <2>4, <3>1
  <2>5. t \in relations' => HasRow(t)'
    BY <1>1, <2>1, <2>2, <2>3, <2>4 DEF HasRow
  <2>6. ASSUME NEW b \in bindings', t \in binding_tuples(b) PROVE t \in relations'
    BY <1>1, <2>1, <2>3, <2>6 DEF HasRow
  <2>7. ASSUME NEW e \in entries', t = subject_tuple(e[1], e[2]) PROVE t \in relations'
    <3>1. CASE e \in entries
      BY <2>1, <2>3, <2>7, <3>1 DEF HasRow, NoDanglingRows
    <3>2. CASE e \in linked
      BY <1>2, <2>3, <2>7, <3>2
    <3> QED BY <1>1, <3>1, <3>2, SMTT(30), SMTT(40)
  <2> QED BY <2>2, <2>5, <2>6, <2>7
<1>7. RelationsMatchRows'
  <2>1. (\A t : t \in relations <=> HasRow(t))'
    BY <1>6, SMTT(30), SMTT(40)
  <2> QED BY <2>1, RelationsByRowNext
<1> QED BY <1>1, <1>4, <1>5, <1>7, SMTT(30), SMTT(40) DEF TypeOK

(* ... and the removal of bindings with all that is bound to them.         *)
LEMMA RemoveBindingsRows ==
    ASSUME TypeOK, RelationsMatchRows, NoDanglingRows,
           NEW bs \in SUBSET bindings, RemoveBindings(bs), UNCHANGED <<principals, userId>>,
           \A b \in bindings \ bs : RoleExists(b[1])' /\ ResourceExists(b[2])',
           \A s \in Subjects : SubjectExists(s) => SubjectExists(s)'
    PROVE  /\ RelationsMatchRows' /\ NoDanglingRows'
           /\ bindings' \subseteq Bindings /\ entries' \subseteq Entries
<1>1. /\ bindings' = bindings \ bs /\ entries' = {e \in entries : e[1] \notin bs}
      /\ relations' = relations \ UNION {all_tuples(b) : b \in bs}
    BY DEF RemoveBindings, Replicate
<1>2. \A b \in bindings' : BoundTo(b, entries') = BoundTo(b, entries)
    BY <1>1 DEF BoundTo
<1>3. NoDanglingRows'
  <2>1. ASSUME NEW e \in entries' PROVE e[1] \in bindings' /\ SubjectExists(e[2])'
    BY <1>1, EntryParts, SMTT(30), SMTT(40) DEF NoDanglingRows, TypeOK
  <2>2. ASSUME NEW b \in bindings'
        PROVE  BoundTo(b, entries') # {} /\ RoleExists(b[1])' /\ ResourceExists(b[2])'
    BY <1>1, <1>2 DEF NoDanglingRows
  <2> QED BY <2>1, <2>2 DEF NoDanglingRows, RoleExists, ResourceExists, SubjectExists, BoundTo
<1>4. \A b \in bindings' : all_tuples(b)' = all_tuples(b)
    BY <1>2 DEF all_tuples, binding_tuples, subject_tuple, subject_id, BoundTo
<1>5. \A b, t : t \in all_tuples(b) => t[1] = b
    BY DEF all_tuples, binding_tuples, subject_tuple
<1>6. relations' = UNION {all_tuples(b) : b \in bindings'}
    BY <1>1, <1>5 DEF RelationsMatchRows
<1>7. UNION {all_tuples(b) : b \in bindings'} = UNION {all_tuples(b)' : b \in bindings'}
    BY <1>4
<1>8. RelationsMatchRows'
    BY <1>6, <1>7 DEF RelationsMatchRows
<1> QED BY <1>1, <1>3, <1>8 DEF TypeOK

(***************************************************************************)
(* The parts of the inductive invariant                                    *)
(***************************************************************************)
RowInv ==
    /\ RelationsMatchRows /\ NoDanglingRows
    /\ bindings \subseteq Bindings /\ entries \subseteq Entries

PrincipalInv ==
    /\ principals \subseteq Principals
    /\ userId \in [Principals -> UserIds \union {NoUser}]
    /\ UniqueUserIds
    /\ \A p \in Principals \ principals : userId[p] = NoUser

CarInv ==
    /\ \A e \in entries : e[2] \in Groups => e[3] = Api
    /\ CarEntries /\ AccessOnlyWhileApproved /\ ApprovedEntries

OtherTypes ==
    /\ live \subseteq Custom \union Standard \union Groups
    /\ profile \in [Roles -> Profiles]
    /\ car \in [Cars -> Car]
    /\ listed \in [Cars -> Statuses]

(* The invariant split by what its conjuncts speak of: rows, principals,   *)
(* cross-account requests.                                                 *)
LEMMA BindingInvParts ==
    BindingInv <=> RowInv /\ PrincipalInv /\ CarInv /\ OtherTypes
<1>1. RowInv /\ PrincipalInv => relations \subseteq Tuples
    BY RelationsTyped DEF RowInv, PrincipalInv
<1> QED BY <1>1 DEF BindingInv, TypeOK, RowInv, PrincipalInv, CarInv, OtherTypes

(* The same of the next state.                                             *)
LEMMA BindingInvPartsNext ==
    BindingInv' <=> RowInv' /\ PrincipalInv' /\ CarInv' /\ OtherTypes'
BY BindingInvParts, PTL

(* A step that leaves the rows and their principals alone.                 *)
LEMMA SameRows ==
    ASSUME RowInv, UNCHANGED <<bindingVars, userId>>,
           \A b \in bindings : RoleExists(b[1])' /\ ResourceExists(b[2])',
           \A e \in entries : SubjectExists(e[2])'
    PROVE  RowInv'
<1>1. NoDanglingRows'
    BY DEF RowInv, NoDanglingRows, bindingVars, BoundTo, SubjectExists, RoleExists,
           ResourceExists
<1>2. RelationsMatchRows'
    BY DEF RowInv, RelationsMatchRows, bindingVars, all_tuples, binding_tuples,
           subject_tuple, subject_id, BoundTo
<1> QED BY <1>1, <1>2 DEF RowInv, bindingVars

(* A step that leaves the rows made by requests alone.                     *)
LEMMA SameCars ==
    ASSUME CarInv, UNCHANGED <<userId, principals, car>>, entries' \subseteq Entries,
           \A e \in Entries : e[3] # Api => (e \in entries' <=> e \in entries),
           entries \subseteq Entries
    PROVE  CarInv'
<1>1. \A e \in entries' : e[2] \in Groups => e[3] = Api
    BY DEF CarInv
<1>2. CarEntries'
    BY DEF CarInv, CarEntries
<1>3. AccessOnlyWhileApproved'
    BY DEF CarInv, AccessOnlyWhileApproved
<1>4. ApprovedEntries'
  <2> SUFFICES ASSUME NEW c \in Cars, car[c].status = "approved", NEW r \in car[c].roles
               PROVE  \E res \in Builtin, p \in principals :
                          userId[p] = CarUser[c] /\ <<<<r, res>>, p, c>> \in entries'
    BY DEF ApprovedEntries
  <2>1. PICK res \in Builtin, p \in principals :
                 userId[p] = CarUser[c] /\ <<<<r, res>>, p, c>> \in entries
    BY DEF CarInv, ApprovedEntries
  <2>2. <<<<r, res>>, p, c>> \in entries'
    BY <2>1, BindingAssumption
  <2> QED BY <2>1, <2>2
<1> QED BY <1>1, <1>2, <1>3, <1>4 DEF CarInv

(***************************************************************************)
(* One step per operation                                                  *)
(***************************************************************************)
LEMMA UpdateStep ==
    ASSUME BindingInv, NEW s \in Subjects, NEW res \in Resources, NEW rs \in SUBSET Roles,
           update_role_bindings_for_subject(s, res, rs)
    PROVE  BindingInv'
<1> DEFINE desired == {<<r, res>> : r \in rs}
           old == Current(s, Api, res) \ desired
           new == desired \ Current(s, Api, res)
<1>1. /\ ResourceExists(res) /\ \A r \in rs : RoleExists(r)
      /\ SubjectExists(s) /\ ChangeAccess(s, Api, old, new)
      /\ UNCHANGED <<tenantVars, principalVars, carVars>>
    BY DEF update_role_bindings_for_subject
<1>2. old \in SUBSET bindings /\ new \in SUBSET Bindings
    BY DEF Current, Bindings
<1>3. \A b \in new : RoleExists(b[1]) /\ ResourceExists(b[2])
    BY <1>1, SMTT(30), SMTT(40)
<1>4. entries' = Left(s, Api, old) \union {<<b, s, Api>> : b \in new}
    BY <1>1, ZenonT(30) DEF ChangeAccess
<1> HIDE DEF desired, old, new
<1>5. UNCHANGED <<live, profile, principals, userId, car, listed>>
    BY <1>1, SMTT(30), SMTT(40) DEF tenantVars, principalVars, carVars
<1>6. RowInv'
  <2>1. TypeOK /\ RelationsMatchRows /\ NoDanglingRows /\ UniqueUserIds
    BY DEF BindingInv
  <2>2. Api \in Sources
    BY DEF Sources
  <2> QED BY <1>1, <1>2, <1>3, <1>5, <2>1, <2>2, ChangeAccessRows DEF RowInv
<1>7. \A e \in Entries : e[3] # Api => (e \in entries' <=> e \in entries)
    BY <1>4 DEF Left
<1>8. CarInv'
    BY <1>5, <1>6, <1>7, SameCars, BindingInvParts DEF RowInv
<1>9. PrincipalInv' /\ OtherTypes'
    BY <1>5, BindingInvParts DEF PrincipalInv, OtherTypes, UniqueUserIds
<1> QED BY <1>6, <1>8, <1>9, BindingInvPartsNext, SMTT(30), SMTT(40)

(* Creating bindings in a batch keeps the invariant.                       *)
LEMMA BatchStep ==
    ASSUME BindingInv, NEW requests \in SUBSET (Bindings \X Subjects), batch_create(requests)
    PROVE  BindingInv'
<1>1. /\ UNCHANGED <<live, profile, principals, userId, car, listed>>
      /\ entries' = entries \union {<<q[1], q[2], Api>> : q \in requests}
    BY DEF batch_create, tenantVars, principalVars, carVars
<1>2. RowInv'
    BY BatchCreateRows, SMTT(30), SMTT(40) DEF BindingInv, RowInv
<1>3. \A e \in Entries : e[3] # Api => (e \in entries' <=> e \in entries)
    BY <1>1
<1>4. CarInv'
    BY <1>1, <1>2, <1>3, SameCars, BindingInvParts, SMTT(30), SMTT(40) DEF RowInv
<1>5. PrincipalInv' /\ OtherTypes'
    BY <1>1, BindingInvParts DEF PrincipalInv, OtherTypes, UniqueUserIds
<1> QED BY <1>2, <1>4, <1>5, BindingInvPartsNext, SMTT(30), SMTT(40)

(* Custom roles and standard workspaces are not bound by a request, and    *)
(* are neither groups nor principals.                                      *)
LEMMA RemoveStep ==
    ASSUME BindingInv, NEW bs \in SUBSET bindings, RemoveBindings(bs),
           NEW gone \in SUBSET (Custom \union Standard), live' = live \ gone,
           \A b \in bs : b[1] \in Custom \/ b[2] \in Standard,
           \A b \in bindings \ bs : RoleExists(b[1])' /\ ResourceExists(b[2])',
           UNCHANGED <<profile, principalVars, carVars>>
    PROVE  BindingInv'
<1>1. UNCHANGED <<profile, principals, userId, car, listed>>
    BY SMTT(30), SMTT(40) DEF principalVars, carVars
<1>2. RowInv'
  <2>1. \A s \in Subjects : SubjectExists(s) => SubjectExists(s)'
    BY <1>1, BindingAssumption DEF SubjectExists, Subjects
  <2> QED BY <1>1, <2>1, RemoveBindingsRows, SMTT(30), SMTT(40) DEF BindingInv, RowInv
<1>3. entries' = {e \in entries : e[1] \notin bs}
    BY SMTT(30), SMTT(40) DEF RemoveBindings
<1>4. ASSUME NEW e \in entries, e[3] # Api PROVE e[1] \notin bs
  <2>1. e[1][1] \in car[e[3]].roles /\ e[1][2] \in Builtin /\ e[3] \in Cars
    BY <1>4, EntryParts, SMTT(30), SMTT(40) DEF BindingInv, CarEntries, TypeOK, Sources
  <2>2. e[1][1] \in SeededRoles
    BY <2>1, SMTT(30), SMTT(40) DEF BindingInv, TypeOK, Car
  <2> QED BY <2>1, <2>2, BindingAssumption, SMTT(30), SMTT(40)
<1>5. CarInv'
    BY <1>1, <1>2, <1>3, <1>4, SameCars, BindingInvParts, SMTT(30), SMTT(40) DEF RowInv
<1>6. PrincipalInv' /\ OtherTypes'
    BY <1>1, BindingInvParts, SMTT(30), SMTT(40) DEF PrincipalInv, OtherTypes, UniqueUserIds
<1> QED BY <1>2, <1>5, <1>6, BindingInvPartsNext

(* Deleting roles with their bindings keeps the invariant.                 *)
LEMMA BulkDeleteStep ==
    ASSUME BindingInv, NEW rs \in SUBSET Custom, bulk_delete(rs)
    PROVE  BindingInv'
<1> DEFINE bs == {b \in bindings : b[1] \in rs}
<1>1. /\ RemoveBindings(bs) /\ live' = live \ rs
      /\ UNCHANGED <<profile, principalVars, carVars>>
    BY SMTT(30), SMTT(40) DEF bulk_delete
<1>2. \A b \in bindings \ bs : RoleExists(b[1])' /\ ResourceExists(b[2])'
    BY <1>1, BindingParts, BindingAssumption
    DEF BindingInv, TypeOK, NoDanglingRows, RoleExists, ResourceExists, Resources
<1>3. bs \in SUBSET bindings /\ \A b \in bs : b[1] \in Custom \/ b[2] \in Standard
    OBVIOUS
<1>4. rs \in SUBSET (Custom \union Standard)
    OBVIOUS
<1> HIDE DEF bs
<1> QED BY <1>1, <1>2, <1>3, <1>4, RemoveStep

(* Deleting a workspace with its bindings keeps the invariant.             *)
LEMMA DestroyStep ==
    ASSUME BindingInv, NEW w \in Standard, DestroyWorkspace(w)
    PROVE  BindingInv'
<1> DEFINE bs == {b \in bindings : b[2] = w}
<1>1. /\ RemoveBindings(bs) /\ live' = live \ {w}
      /\ UNCHANGED <<profile, principalVars, carVars>>
    BY SMTT(30), SMTT(40) DEF DestroyWorkspace
<1>2. \A b \in bindings \ bs : RoleExists(b[1])' /\ ResourceExists(b[2])'
    BY <1>1, BindingParts, BindingAssumption
    DEF BindingInv, TypeOK, NoDanglingRows, RoleExists, ResourceExists, Roles
<1>3. bs \in SUBSET bindings /\ \A b \in bs : b[1] \in Custom \/ b[2] \in Standard
    OBVIOUS
<1>4. {w} \in SUBSET (Custom \union Standard)
    OBVIOUS
<1> HIDE DEF bs
<1> QED BY <1>1, <1>2, <1>3, <1>4, RemoveStep, ZenonT(30)

(* Nothing that is bound, or bound to, goes away: of the tenant's steps    *)
(* that change no row, only DeleteGroup takes anything, and it is refused  *)
(* for a bound group.                                                      *)
LEMMA TenantRestStep ==
    ASSUME BindingInv,
           \/ \E x \in Custom \union Standard \union Groups : Create(x)
           \/ \E r \in Roles, f \in Profiles : ChangePermissions(r, f)
           \/ \E g \in Groups : DeleteGroup(g)
    PROVE  BindingInv'
<1>1. UNCHANGED <<bindingVars, principals, userId, car, listed>>
    BY DEF Create, ChangePermissions, DeleteGroup, principalVars, carVars
<1>2. OtherTypes'
    BY SMTT(30), SMTT(40)
       DEF Create, ChangePermissions, DeleteGroup, BindingInv, TypeOK, OtherTypes, carVars
<1>3. ASSUME NEW x \in live, x \in Custom \union Standard \union Principals \/ Bound(x)
      PROVE  x \in live'
    BY <1>3, BindingAssumption, SMTT(30), SMTT(40) DEF Create, ChangePermissions, DeleteGroup
<1>4. \A b \in bindings : RoleExists(b[1])' /\ ResourceExists(b[2])'
    BY <1>3, BindingParts, BindingAssumption, SMTT(30), SMTT(40)
    DEF BindingInv, TypeOK, NoDanglingRows, RoleExists, ResourceExists, Roles, Resources
<1>5. \A e \in entries : SubjectExists(e[2])'
    BY <1>1, <1>3 DEF BindingInv, NoDanglingRows, SubjectExists, Bound
<1>6. RowInv'
    BY <1>1, <1>4, <1>5, SameRows, BindingInvParts
<1>7. CarInv'
    BY <1>1, <1>6, SameCars, BindingInvParts DEF RowInv, bindingVars
<1>8. PrincipalInv'
    BY <1>1, BindingInvParts DEF PrincipalInv, UniqueUserIds
<1> QED BY <1>2, <1>6, <1>7, <1>8, BindingInvPartsNext

(* A new principal has no entries and keeps the invariant.                 *)
LEMMA CreatePrincipalStep ==
    ASSUME BindingInv, NEW p \in Principals, CreatePrincipal(p)
    PROVE  BindingInv'
<1>1. /\ p \notin principals /\ principals' = principals \union {p}
      /\ UNCHANGED <<userId, live, profile, bindingVars, car, listed>>
    BY SMTT(30), SMTT(40) DEF CreatePrincipal, tenantVars, carVars
<1>2. OtherTypes'
    BY <1>1, SMTT(30), SMTT(40) DEF BindingInv, TypeOK, OtherTypes
<1>3. PrincipalInv'
  <2>1. userId[p] = NoUser
    BY <1>1 DEF BindingInv
  <2> QED BY <1>1, <2>1 DEF BindingInv, TypeOK, PrincipalInv, UniqueUserIds
<1>4. RowInv'
  <2>1. \A b \in bindings : RoleExists(b[1])' /\ ResourceExists(b[2])'
    BY <1>1, SMTT(30), SMTT(40) DEF BindingInv, NoDanglingRows, RoleExists, ResourceExists
  <2>2. \A e \in entries : SubjectExists(e[2])'
    BY <1>1, SMTT(30), SMTT(40) DEF BindingInv, NoDanglingRows, SubjectExists
  <2> QED BY <1>1, <2>1, <2>2, SameRows, BindingInvParts, SMTT(30), SMTT(40)
<1>5. CarInv'
  <2>1. ApprovedEntries'
    BY <1>1 DEF BindingInv, ApprovedEntries, bindingVars
  <2> QED BY <1>1, <2>1, SMTT(30), SMTT(40)
          DEF BindingInv, CarInv, CarEntries, AccessOnlyWhileApproved, bindingVars
<1> QED BY <1>2, <1>3, <1>4, <1>5, BindingInvPartsNext

(* The bindings of the principals that had the user_id move to p, which    *)
(* had none, and stand for the same tuples as before.                      *)
LEMMA SyncPrincipalStep ==
    ASSUME BindingInv, NEW p \in Principals, NEW u \in UserIds, SyncPrincipal(p, u)
    PROVE  BindingInv'
<1>0. PICK obsolete : obsolete = Owners(u) \ {p}
    BY ZenonT(30)
<1> DEFINE to(s) == IF s \in obsolete THEN p ELSE s
<1>1. /\ userId[p] = NoUser
      /\ entries' = {<<e[1], to(e[2]), e[3]>> : e \in entries}
      /\ principals' = (principals \ obsolete) \union {p}
      /\ userId' = [q \in Principals |-> IF q = p THEN u
                                         ELSE IF q \in obsolete THEN NoUser ELSE userId[q]]
      /\ UNCHANGED <<live, profile, bindings, relations, car, listed>>
    BY <1>0 DEF SyncPrincipal, TransferEntries, tenantVars, carVars
<1>2. \A q : q \in obsolete <=> q \in principals /\ userId[q] = u /\ q # p
    BY <1>0 DEF Owners
<1>3. obsolete \subseteq Principals
    BY <1>2 DEF BindingInv, TypeOK
<1>4. OtherTypes'
    BY <1>1, ZenonT(30) DEF BindingInv, TypeOK, OtherTypes
<1>5. PrincipalInv'
  <2>1. userId' \in [Principals -> UserIds \union {NoUser}] /\ principals' \subseteq Principals
    BY <1>1, ZenonT(30) DEF BindingInv, TypeOK
  <2>2. \A q \in principals' : /\ q = p => userId'[q] = u
                               /\ q # p => /\ q \in principals /\ q \notin obsolete
                                           /\ userId'[q] = userId[q] /\ userId[q] # u
    BY <1>1, <1>2, SMTT(30), SMTT(40) DEF BindingInv, TypeOK
  <2>3. UniqueUserIds'
    BY <2>2, <1>1, SMTT(30), SMTT(40) DEF BindingInv, UniqueUserIds
  <2>4. \A q \in Principals \ principals' : userId'[q] = NoUser
    BY <1>1, SMTT(30), SMTT(40) DEF BindingInv
  <2> QED BY <2>1, <2>3, <2>4, SMTT(30), SMTT(40) DEF PrincipalInv
<1>6. \A e \in entries : /\ e[2] # p /\ e[2] \in Subjects
                         /\ e[2] \in live \/ (e[2] \in principals /\ userId[e[2]] # NoUser)
    BY <1>1, EntryParts, BindingAssumption, SMTT(30), SMTT(40)
    DEF BindingInv, TypeOK, NoDanglingRows, SubjectExists
<1>7. \A e \in entries : /\ to(e[2]) \in Principals <=> e[2] \in Principals
                         /\ e[2] \in Principals => userId'[to(e[2])] = userId[e[2]]
                         /\ e[2] \notin Principals => to(e[2]) = e[2]
                         /\ to(e[2]) \in Subjects
    BY <1>1, <1>2, <1>3, <1>6, SMTT(30), SMTT(40) DEF Subjects
<1>8. \A e \in entries : SubjectExists(to(e[2]))'
    BY <1>1, <1>2, <1>6, <1>7, BindingAssumption, SMTT(30), SMTT(40)
       DEF SubjectExists, BindingInv, TypeOK
<1>9. /\ \A e \in entries : <<e[1], to(e[2]), e[3]>> \in entries'
      /\ \A d \in entries' : \E e \in entries :
            d = <<e[1], to(e[2]), e[3]>> /\ d[1] = e[1] /\ d[2] = to(e[2]) /\ d[3] = e[3]
    BY <1>1, SMTT(30), SMTT(40)
<1>10. \A e \in entries : subject_tuple(e[1], to(e[2]))' = subject_tuple(e[1], e[2])
    BY <1>7 DEF subject_tuple, subject_id
<1> HIDE DEF to
<1>11. RowInv'
  <2>1. entries' \subseteq Entries /\ bindings' \subseteq Bindings
    BY <1>1, <1>7, <1>9, EntryParts, SMTT(30), SMTT(40) DEF BindingInv, TypeOK, Entries
  <2>2. \A d \in entries' : d[1] \in bindings' /\ SubjectExists(d[2])'
    BY <1>1, <1>8, <1>9 DEF BindingInv, NoDanglingRows
  <2>3. ASSUME NEW b \in bindings' PROVE BoundTo(b, entries') # {}
    <3>1. PICK e \in entries : e[1] = b
      BY <1>1, BoundToEmpty DEF BindingInv, NoDanglingRows
    <3>2. PICK d \in entries' : d = <<e[1], to(e[2]), e[3]>>
      BY <1>9, ZenonT(30)
    <3> QED BY <3>1, <3>2, BoundToEmpty, SMTT(30), SMTT(40)
  <2>4. NoDanglingRows'
    BY <1>1, <2>2, <2>3, SMTT(30), SMTT(40)
    DEF BindingInv, NoDanglingRows, RoleExists, ResourceExists, SubjectExists, BoundTo
  <2>5. ASSUME NEW t PROVE HasRow(t)' <=> HasRow(t)
    <3>1. HasRow(t)' <=> \E b \in bindings :
                            \/ t \in binding_tuples(b)
                            \/ \E d \in entries' : d[1] = b /\ t = subject_tuple(b, d[2])'
      BY <1>1, SMTT(30), SMTT(40) DEF HasRow, binding_tuples, subject_tuple, subject_id
    <3>2. ASSUME NEW b,
                 NEW d \in entries', d[1] = b, t = subject_tuple(b, d[2])'
          PROVE  \E e \in entries : e[1] = b /\ t = subject_tuple(b, e[2])
      BY <1>9, <1>10, <3>2, SMTT(30), SMTT(40)
    <3>3. ASSUME NEW b,
                 NEW e \in entries, e[1] = b, t = subject_tuple(b, e[2])
          PROVE  \E d \in entries' : d[1] = b /\ t = subject_tuple(b, d[2])'
      <4>1. PICK d \in entries' : d = <<e[1], to(e[2]), e[3]>>
        BY <1>9, ZenonT(30)
      <4>2. d[1] = e[1] /\ d[2] = to(e[2])
        BY <4>1, SMTT(30), SMTT(40)
      <4> QED BY <1>10, <3>3, <4>2
    <3> QED BY <3>1, <3>2, <3>3, SMTT(30), SMTT(40) DEF HasRow
  <2>6. (\A t : t \in relations <=> HasRow(t))'
    BY <1>1, <2>5, RelationsByRow DEF BindingInv
  <2> QED BY <2>1, <2>4, <2>6, RelationsByRowNext, SMTT(30), SMTT(40) DEF RowInv
<1>12. CarInv'
  <2>1. \A d \in entries' : d[2] \in Groups => d[3] = Api
    BY <1>7, <1>9, BindingAssumption, SMTT(30), SMTT(40) DEF BindingInv, Subjects
  <2>2. CarEntries'
    BY <1>1, <1>7, <1>9, SMTT(30), SMTT(40) DEF BindingInv, CarEntries
  <2>3. AccessOnlyWhileApproved'
    BY <1>1, <1>9, SMTT(30), SMTT(40) DEF BindingInv, AccessOnlyWhileApproved
  <2>4. ASSUME NEW c \in Cars, car[c].status = "approved", NEW r \in car[c].roles
        PROVE  \E res \in Builtin, q \in principals' :
                   userId'[q] = CarUser[c] /\ <<<<r, res>>, q, c>> \in entries'
    <3>1. PICK res \in Builtin, o \in principals :
                   userId[o] = CarUser[c] /\ <<<<r, res>>, o, c>> \in entries
      BY <2>4, ZenonT(30) DEF BindingInv, ApprovedEntries
    <3>2. /\ <<<<r, res>>, to(o), c>> \in entries'
          /\ SubjectExists(to(o))' /\ to(o) \in Principals
          /\ userId'[to(o)] = CarUser[c]
      <4>1. o \in Principals
        BY ZenonT(30) DEF BindingInv, TypeOK
      <4> QED BY <1>7, <1>8, <1>9, <3>1, <4>1, SMTT(30), SMTT(40)
    <3>3. to(o) \in principals'
      BY <1>1, <3>2, BindingAssumption, SMTT(30), SMTT(40) DEF SubjectExists, BindingInv, TypeOK
    <3> QED BY <3>2, <3>3, SMTT(30), SMTT(40)
  <2>5. ApprovedEntries'
    BY <1>1, <2>4, ZenonT(30) DEF ApprovedEntries
  <2> QED BY <2>1, <2>2, <2>3, <2>5, SMTT(30), SMTT(40) DEF CarInv
<1> QED BY <1>4, <1>5, <1>11, <1>12, BindingInvPartsNext

(* A request that is not approved has bound nobody, so its roles may       *)
(* change, and steps that neither approve a request nor end its approval   *)
(* leave the rows alone.                                                   *)
LEMMA CarRestStep ==
    ASSUME BindingInv, UNCHANGED <<tenantVars, principalVars, bindingVars>>,
           car' \in [Cars -> Car], listed' \in [Cars -> Statuses],
           \A c \in Cars : \/ car'[c].status = car[c].status /\ car'[c].roles = car[c].roles
                           \/ car[c].status # "approved" /\ car'[c].status # "approved"
    PROVE  BindingInv'
<1>1. UNCHANGED <<live, profile, principals, userId, bindings, entries, relations>>
    BY SMTT(30), SMTT(40) DEF tenantVars, principalVars, bindingVars
<1>2. OtherTypes' /\ PrincipalInv'
    BY <1>1, BindingInvParts, SMTT(30), SMTT(40) DEF OtherTypes, PrincipalInv, UniqueUserIds
<1>3. RowInv'
  <2>1. /\ \A b \in bindings : RoleExists(b[1])' /\ ResourceExists(b[2])'
        /\ \A e \in entries : SubjectExists(e[2])'
    BY <1>1, SMTT(30), SMTT(40)
       DEF BindingInv, NoDanglingRows, RoleExists, ResourceExists, SubjectExists
  <2> QED BY <1>1, <2>1, SameRows, BindingInvParts, SMTT(30), SMTT(40)
<1>4. ASSUME NEW e \in entries, e[3] # Api
      PROVE  /\ e[3] \in Cars /\ car[e[3]].status = "approved"
             /\ car'[e[3]].status = "approved" /\ car'[e[3]].roles = car[e[3]].roles
  <2>1. e[3] \in Cars
    BY <1>4, EntryParts, SMTT(30), SMTT(40) DEF BindingInv, TypeOK, Sources
  <2> QED BY <1>4, <2>1, SMTT(30), SMTT(40) DEF BindingInv, AccessOnlyWhileApproved
<1>5. CarEntries' /\ AccessOnlyWhileApproved'
    BY <1>1, <1>4, SMTT(30), SMTT(40) DEF BindingInv, CarEntries, AccessOnlyWhileApproved
<1>6. ApprovedEntries'
    BY <1>1, ZenonT(30) DEF BindingInv, ApprovedEntries
<1> QED BY <1>1, <1>2, <1>3, <1>5, <1>6, BindingInvPartsNext, SMTT(30), SMTT(40)
           DEF CarInv, BindingInv

(* Approving a cross-account request keeps the invariant.                  *)
LEMMA ApproveStep ==
    ASSUME BindingInv, NEW c \in Cars, ApproveCar(c)
    PROVE  BindingInv'
<1>1. /\ car[c].status # "approved"
      /\ car' = [car EXCEPT ![c].status = "approved"]
      /\ add_car_roles_v2(c)
      /\ UNCHANGED <<live, profile, principals, userId, listed>>
    BY DEF ApproveCar, tenantVars, principalVars
<1>2. /\ car \in [Cars -> Car] /\ car' \in [Cars -> Car]
      /\ \A d \in Cars : car'[d].roles = car[d].roles
      /\ \A d \in Cars : d # c => car'[d].status = car[d].status
      /\ car'[c].status = "approved"
    BY <1>1 DEF BindingInv, TypeOK, Car, Statuses
<1>3. OtherTypes' /\ PrincipalInv'
    BY <1>1, <1>2, BindingInvParts DEF OtherTypes, PrincipalInv, UniqueUserIds
<1>4. \A e \in entries : e[3] \in Sources
    BY EntryParts DEF BindingInv, TypeOK
<1>5. CASE car[c].roles = {}
  <2>1. UNCHANGED <<bindings, entries, relations>>
    BY <1>1, <1>5 DEF add_car_roles_v2, bindingVars
  <2>2. RowInv'
    <3>1. /\ \A b \in bindings : RoleExists(b[1])' /\ ResourceExists(b[2])'
          /\ \A e \in entries : SubjectExists(e[2])'
      BY <1>1 DEF BindingInv, NoDanglingRows, RoleExists, ResourceExists, SubjectExists
    <3> QED BY <1>1, <2>1, <3>1, SameRows, BindingInvParts DEF bindingVars
  <2>3. CarEntries' /\ AccessOnlyWhileApproved'
    BY <1>1, <1>2, <1>4, <2>1
    DEF BindingInv, CarEntries, AccessOnlyWhileApproved, Sources
  <2>4. ApprovedEntries'
    BY <1>1, <1>2, <1>5, <2>1, SMTT(30), SMTT(40) DEF BindingInv, ApprovedEntries
  <2> QED BY <1>3, <2>1, <2>2, <2>3, <2>4, BindingInvPartsNext, ZenonT(30)
             DEF CarInv, BindingInv
<1>6. CASE car[c].roles # {}
  <2>1. PICK p \in Owners(CarUser[c]) : ChangeAccess(p, c, {}, CarBindings(c))
    BY <1>1, <1>6, SMTT(30), SMTT(40) DEF add_car_roles_v2
  <2>2. p \in Principals /\ p \in principals /\ userId[p] = CarUser[c] /\ SubjectExists(p)
    BY BindingAssumption DEF Owners, BindingInv, TypeOK, SubjectExists
  <2>3. car[c].roles \subseteq SeededRoles
    BY <1>2, SMTT(30), SMTT(40) DEF Car
  <2>4. \A r \in SeededRoles : profile[r].scopes \subseteq Builtin /\ profile[r].scopes # {}
    BY BindingAssumption DEF BindingInv, TypeOK, Roles, Profile
  <2>5. /\ \A b \in CarBindings(c) : /\ b = <<b[1], b[2]>>
                                     /\ b[1] \in car[c].roles /\ b[2] \in profile[b[1]].scopes
        /\ \A r \in car[c].roles : \A res \in profile[r].scopes : <<r, res>> \in CarBindings(c)
    BY SMTT(30), SMTT(40) DEF CarBindings
  <2>6. /\ CarBindings(c) \in SUBSET Bindings
        /\ \A b \in CarBindings(c) : RoleExists(b[1]) /\ ResourceExists(b[2])
    BY <2>3, <2>4, <2>5 DEF Bindings, Roles, Resources, RoleExists, ResourceExists
  <2>7. RowInv'
    <3>1. p \in Subjects /\ c \in Sources /\ {} \in SUBSET bindings
      BY <2>2, SMTT(30), SMTT(40) DEF Subjects, Sources
    <3> QED BY <1>1, <2>1, <2>2, <2>6, <3>1, ChangeAccessRows, ZenonT(30) DEF BindingInv, RowInv
  <2>8. entries' = entries \union {<<b, p, c>> : b \in CarBindings(c)}
    BY <2>1, SMTT(30), SMTT(40) DEF ChangeAccess, Left
  <2>9. ASSUME NEW e \in entries', e \notin entries
        PROVE  /\ e[2] = p /\ e[3] = c /\ e[1] \in CarBindings(c)
    BY <2>8, <2>9, SMTT(30), SMTT(40)
  <2>10. \A e \in entries' : e[2] \in Groups => e[3] = Api
    BY <2>2, <2>9, BindingAssumption DEF BindingInv
  <2>11. CarEntries'
    BY <1>1, <1>2, <1>4, <2>2, <2>3, <2>4, <2>5, <2>9, SMTT(30), SMTT(40)
       DEF BindingInv, CarEntries, Sources
  <2>12. AccessOnlyWhileApproved'
    BY <1>2, <1>4, <2>9, SMTT(30), SMTT(40) DEF BindingInv, AccessOnlyWhileApproved, Sources
  <2>13. ASSUME NEW r \in car[c].roles
         PROVE  \E res \in Builtin : <<<<r, res>>, p, c>> \in entries'
    <3>1. PICK res \in profile[r].scopes : res \in Builtin
      BY <2>3, <2>4, SMTT(30), SMTT(40)
    <3>2. <<r, res>> \in CarBindings(c)
      BY <2>5
    <3> QED BY <2>8, <3>1, <3>2, SMTT(30), SMTT(40)
  <2>14. ApprovedEntries'
    BY <1>1, <1>2, <2>2, <2>8, <2>13, ZenonT(30) DEF BindingInv, ApprovedEntries
  <2> QED BY <1>3, <2>7, <2>10, <2>11, <2>12, <2>14, BindingInvPartsNext DEF CarInv
<1> QED BY <1>5, <1>6

(* When an approval ends, exactly the rows of the request go: they are its *)
(* user's, of its roles, at the built-in scopes, which is what is removed. *)
LEMMA ApprovalEnds ==
    ASSUME BindingInv, NEW c \in Cars, remove_car_roles_v2(c),
           UNCHANGED <<tenantVars, principalVars>>
    PROVE  RowInv' /\ entries' = {e \in entries : e[3] # c}
<1>0. UNCHANGED <<live, profile, principals, userId>>
    BY SMTT(30), SMTT(40) DEF tenantVars, principalVars
<1>1. \A e \in entries : e[3] = c => /\ e[2] \in Principals /\ userId[e[2]] = CarUser[c]
                                    /\ e[1][1] \in car[c].roles /\ e[1][2] \in Builtin
    BY BindingAssumption, SMTT(30), SMTT(40) DEF BindingInv, CarEntries
<1>2. CASE car[c].roles = {}
  <2>1. UNCHANGED bindingVars
    BY <1>2, SMTT(30), SMTT(40) DEF remove_car_roles_v2
  <2>2. /\ \A b \in bindings : RoleExists(b[1])' /\ ResourceExists(b[2])'
        /\ \A e \in entries : SubjectExists(e[2])'
    BY <1>0, SMTT(30), SMTT(40)
       DEF BindingInv, NoDanglingRows, RoleExists, ResourceExists, SubjectExists
  <2>3. RowInv'
    BY <1>0, <2>1, <2>2, SameRows, BindingInvParts
  <2> QED BY <1>1, <1>2, <2>1, <2>3, SMTT(30), SMTT(40) DEF bindingVars
<1>3. CASE car[c].roles # {}
  <2>1. PICK p \in Owners(CarUser[c]) : ChangeAccess(p, c, RemovedByCar(c, p), {})
    BY <1>3, SMTT(30), SMTT(40) DEF remove_car_roles_v2
  <2>2. p \in Principals /\ p \in principals /\ userId[p] = CarUser[c] /\ SubjectExists(p)
    BY BindingAssumption, SMTT(30), SMTT(40) DEF Owners, BindingInv, TypeOK, SubjectExists
  <2>3. RowInv'
    <3>1. /\ p \in Subjects /\ c \in Sources /\ {} \in SUBSET Bindings
          /\ RemovedByCar(c, p) \in SUBSET bindings
      BY <2>2 DEF Subjects, Sources, RemovedByCar, Current
    <3>2. \A b \in {} : RoleExists(b[1]) /\ ResourceExists(b[2])
      BY SMTT(30), SMTT(40)
    <3> QED BY <1>0, <2>1, <2>2, <3>1, <3>2, ChangeAccessRows, SMTT(30), SMTT(40)
               DEF BindingInv, RowInv
  <2>4. entries' = entries \ {<<b, p, c>> : b \in RemovedByCar(c, p)}
    BY <2>1, ZenonT(30) DEF ChangeAccess, Left
  <2>5. ASSUME NEW e \in entries, e[3] = c
        PROVE  e = <<e[1], p, c>> /\ e[1] \in RemovedByCar(c, p)
    <3>1. e[2] = p
      BY <1>1, <2>2, <2>5, BindingAssumption, SMTT(30), SMTT(40)
         DEF BindingInv, UniqueUserIds, TypeOK
    <3>2. e = <<e[1], p, c>>
      BY <2>5, <3>1, EntryParts, SMTT(30), SMTT(40) DEF BindingInv, TypeOK
    <3>3. e[1] \in bindings
      BY DEF BindingInv, NoDanglingRows
    <3> QED BY <1>1, <2>5, <3>2, <3>3, SMTT(30), SMTT(40) DEF RemovedByCar, Current
  <2> QED BY <2>3, <2>4, <2>5, SMTT(30), SMTT(40)
<1> QED BY <1>2, <1>3

(* Denying a cross-account request keeps the invariant.                    *)
LEMMA CarEndsStep ==
    ASSUME BindingInv, NEW c \in Cars, NEW st \in Statuses \ {"approved"},
           remove_car_roles_v2(c), car' = [car EXCEPT ![c].status = st],
           UNCHANGED <<tenantVars, principalVars>>, listed' \in [Cars -> Statuses]
    PROVE  BindingInv'
<1>1. RowInv' /\ entries' = {e \in entries : e[3] # c}
    BY ApprovalEnds
<1>2. /\ car \in [Cars -> Car] /\ car' \in [Cars -> Car]
      /\ \A d \in Cars : car'[d].roles = car[d].roles
      /\ \A d \in Cars : d # c => car'[d].status = car[d].status
      /\ car'[c].status # "approved"
    BY DEF BindingInv, TypeOK, Car
<1>3. UNCHANGED <<live, profile, principals, userId>>
    BY DEF tenantVars, principalVars
<1>4. OtherTypes' /\ PrincipalInv'
    BY <1>2, <1>3, BindingInvParts DEF OtherTypes, PrincipalInv, UniqueUserIds
<1>5. \A e \in entries : e[3] \in Sources
    BY EntryParts DEF BindingInv, TypeOK
<1>6. CarEntries' /\ AccessOnlyWhileApproved'
    BY <1>1, <1>2, <1>3, <1>5 DEF BindingInv, CarEntries, AccessOnlyWhileApproved, Sources
<1>7. ApprovedEntries'
  <2> SUFFICES ASSUME NEW d \in Cars, d # c, car[d].status = "approved", NEW r \in car[d].roles
               PROVE  \E res \in Builtin, p \in principals :
                          userId[p] = CarUser[d] /\ <<<<r, res>>, p, d>> \in entries'
    BY <1>2, <1>3, ZenonT(30) DEF ApprovedEntries
  <2>1. PICK res \in Builtin, p \in principals :
                 userId[p] = CarUser[d] /\ <<<<r, res>>, p, d>> \in entries
    BY ZenonT(30) DEF BindingInv, ApprovedEntries
  <2>2. <<<<r, res>>, p, d>> \in entries'
    BY <1>1, <2>1
  <2> QED BY <2>1, <2>2
<1>8. \A e \in entries' : e[2] \in Groups => e[3] = Api
    BY <1>1, SMTT(30), SMTT(40) DEF BindingInv
<1> QED BY <1>1, <1>4, <1>6, <1>7, <1>8, BindingInvPartsNext DEF CarInv

(***************************************************************************)
(* The theorems                                                            *)
(***************************************************************************)
LEMMA BindingInit == Init => BindingInv
<1> SUFFICES ASSUME Init PROVE BindingInv
    BY SMTT(30), SMTT(40)
<1>1. RelationsMatchRows
    BY SMTT(30), SMTT(40) DEF Init, RelationsMatchRows
<1> QED BY <1>1, BindingAssumption
        DEF Init, BindingInv, TypeOK, NoDanglingRows, UniqueUserIds, CarEntries,
            AccessOnlyWhileApproved, ApprovedEntries, Car, Statuses

(* Expiring a cross-account request keeps the invariant.                   *)
LEMMA ExpireStep ==
    ASSUME BindingInv, NEW c \in Cars, ExpireCar(c)
    PROVE  BindingInv'
<1>1. /\ listed' = [listed EXCEPT ![c] = "none"]
      /\ UNCHANGED <<tenantVars, principalVars>>
    BY SMTT(30), SMTT(40) DEF ExpireCar, Expire
<1>2. listed' \in [Cars -> Statuses] /\ car \in [Cars -> Car]
    BY <1>1 DEF BindingInv, TypeOK, Statuses
<1>3. CASE car[c].due = "ahead"
    BY <1>1, <1>2, <1>3, CarRestStep DEF ExpireCar, Expire
<1>4. CASE car[c].due # "ahead" /\ car[c].status = "approved"
  <2>1. "expired" \in Statuses \ {"approved"}
    BY DEF Statuses
  <2>2. car' = [car EXCEPT ![c].status = "expired"] /\ remove_car_roles_v2(c)
    BY <1>4 DEF ExpireCar, Expire
  <2> QED BY <1>1, <1>2, <2>1, <2>2, CarEndsStep, ZenonT(30)
<1>5. CASE car[c].due # "ahead" /\ car[c].status # "approved"
  <2>1. car' = [car EXCEPT ![c].status = "expired"] /\ UNCHANGED bindingVars
    BY <1>5 DEF ExpireCar, Expire
  <2>2. /\ car' \in [Cars -> Car] /\ car'[c].status # "approved"
        /\ \A d \in Cars : d # c => car'[d] = car[d]
    BY <1>2, <2>1, SMTT(30), SMTT(40) DEF Car, Statuses
  <2> QED BY <1>1, <1>2, <1>5, <2>1, <2>2, CarRestStep
<1> QED BY <1>3, <1>4, <1>5

(* Every step of a cross-account request keeps the invariant.              *)
LEMMA CarStepInv ==
    ASSUME BindingInv, CarStep
    PROVE  BindingInv'
<1>0. car \in [Cars -> Car] /\ listed \in [Cars -> Statuses]
    BY DEF BindingInv, TypeOK
<1>1. ASSUME NEW c \in Cars, NEW rs \in SUBSET SeededRoles, NEW d \in {"ahead", "today"},
             CreateCar(c, rs, d) \/ UpdateCar(c, rs, d)
      PROVE  BindingInv'
  <2>1. /\ car' = [car EXCEPT ![c] = [status |-> "pending", roles |-> rs, due |-> d]]
        /\ car[c].status # "approved" /\ listed' = listed
        /\ UNCHANGED <<tenantVars, principalVars, bindingVars>>
    BY <1>1, SMTT(30), SMTT(40) DEF CreateCar, UpdateCar
  <2>2. /\ car' \in [Cars -> Car] /\ car'[c].status # "approved"
        /\ \A x \in Cars : x # c => car'[x] = car[x]
    BY <1>0, <2>1 DEF Car, Statuses
  <2> QED BY <1>0, <2>1, <2>2, CarRestStep, ZenonT(30)
<1>2. ASSUME NEW c \in Cars, CancelCar(c) PROVE BindingInv'
  <2>1. /\ car' = [car EXCEPT ![c].status = "cancelled"]
        /\ car[c].status # "approved" /\ listed' = listed
        /\ UNCHANGED <<tenantVars, principalVars, bindingVars>>
    BY <1>2 DEF CancelCar
  <2>2. /\ car' \in [Cars -> Car] /\ car'[c].status # "approved"
        /\ \A x \in Cars : x # c => car'[x] = car[x]
    BY <1>0, <2>1 DEF Car, Statuses
  <2> QED BY <1>0, <2>1, <2>2, CarRestStep
<1>3. ASSUME NEW c \in Cars, DenyCar(c) PROVE BindingInv'
  <2>1. "denied" \in Statuses \ {"approved"}
    BY DEF Statuses
  <2>2. /\ car' = [car EXCEPT ![c].status = "denied"] /\ remove_car_roles_v2(c)
        /\ UNCHANGED <<tenantVars, principalVars>> /\ listed' = listed
    BY <1>3 DEF DenyCar
  <2> QED BY <1>0, <2>1, <2>2, CarEndsStep, ZenonT(30)
<1>4. ASSUME NEW c \in Cars, TimePasses(c) PROVE BindingInv'
  <2>1. PICK d \in {"today", "past"} :
             /\ car' = [car EXCEPT ![c].due = d] /\ listed' = listed
             /\ UNCHANGED <<tenantVars, principalVars, bindingVars>>
    BY <1>4, <1>0, ZenonT(30) DEF TimePasses
  <2>2. /\ car' \in [Cars -> Car]
        /\ \A x \in Cars : car'[x].status = car[x].status /\ car'[x].roles = car[x].roles
    BY <1>0, <2>1, SMTT(30), SMTT(40) DEF Car
  <2> QED BY <1>0, <2>1, <2>2, CarRestStep
<1>5. CASE ListCars \/ AbortJob
  <2>1. car' = car /\ UNCHANGED <<tenantVars, principalVars, bindingVars>>
    BY <1>5, SMTT(30), SMTT(40) DEF ListCars, AbortJob
  <2>2. listed' \in [Cars -> Statuses]
    BY <1>0, <1>5 DEF ListCars, AbortJob, Car, Statuses
  <2> QED BY <1>0, <2>1, <2>2, CarRestStep, SMTT(30), SMTT(40)
<1> QED BY <1>1, <1>2, <1>3, <1>4, <1>5, ApproveStep, ExpireStep DEF CarStep

(* Every step keeps the invariant.                                         *)
LEMMA BindingNext == BindingInv /\ [Next]_vars => BindingInv'
<1> SUFFICES ASSUME BindingInv, [Next]_vars PROVE BindingInv'
    OBVIOUS
<1>1. CASE BindingStep
  <2>1. ASSUME NEW q1 \in Bindings \X Subjects, NEW q2 \in Bindings \X Subjects,
               batch_create({q1, q2})
        PROVE  BindingInv'
    BY <2>1, BatchStep
  <2> QED BY <1>1, <2>1, UpdateStep, ZenonT(30) DEF BindingStep
<1>2. CASE TenantStep
    BY <1>2, TenantRestStep, BulkDeleteStep, DestroyStep DEF TenantStep
<1>3. CASE PrincipalStep
    BY <1>3, CreatePrincipalStep, SyncPrincipalStep DEF PrincipalStep
<1>4. CASE CarStep
    BY <1>4, CarStepInv, SMTT(30), SMTT(40)
<1>5. CASE UNCHANGED vars
  <2>1. /\ UNCHANGED <<tenantVars, principalVars, bindingVars>>
        /\ UNCHANGED <<car, listed>>
    BY <1>5 DEF vars, carVars
  <2> QED BY <2>1, CarRestStep, SMTT(30), SMTT(40) DEF BindingInv, TypeOK
<1> QED BY <1>1, <1>2, <1>3, <1>4, <1>5 DEF Next

(* For any groups, users, roles, workspaces and requests: the rows and     *)
(* what is replicated for them agree at all times, and everything bound,   *)
(* or bound to, exists.                                                    *)
THEOREM Bindings_Invariant == Spec => []BindingInv
<1>1. Init => BindingInv
    BY BindingInit
<1>2. BindingInv /\ [Next]_vars => BindingInv'
    BY BindingNext
<1> QED BY <1>1, <1>2, PTL DEF Spec

(* The relations replicated for the bindings are always those of the rows: *)
(* one per subject of a binding, whatever the sources that bind it.        *)
THEOREM ReplicationFollowsRows == Spec => []RelationsMatchRows
<1>1. BindingInv => RelationsMatchRows
    BY DEF BindingInv
<1> QED BY <1>1, Bindings_Invariant, PTL

(* A cross-account request gives access only while it is approved.         *)
THEOREM NoAccessWithoutApproval == Spec => []AccessOnlyWhileApproved
<1>1. BindingInv => AccessOnlyWhileApproved
    BY SMTT(30), SMTT(40) DEF BindingInv
<1> QED BY <1>1, Bindings_Invariant, PTL

(* An approved request's user has its roles in the relations, whichever    *)
(* other requests and API bindings share or shared them.                   *)
THEOREM ApprovalGivesAccess == Spec => []ApprovedHasAccess
<1>1. BindingInv => ApprovedHasAccess
  <2> SUFFICES ASSUME BindingInv, NEW c \in Cars, car[c].status = "approved",
                      NEW r \in car[c].roles
               PROVE  \E res \in Builtin : <<<<r, res>>, "subject", CarUser[c]>> \in relations
    BY SMTT(30), SMTT(40) DEF ApprovedHasAccess
  <2>1. PICK res \in Builtin, p \in principals :
                 userId[p] = CarUser[c] /\ <<<<r, res>>, p, c>> \in entries
    BY SMTT(30), SMTT(40) DEF BindingInv, ApprovedEntries
  <2>2. PICK e \in entries : e[1] = <<r, res>> /\ e[2] = p
    BY <2>1, SMTT(30), SMTT(40)
  <2>3. e[1] \in bindings /\ p \in Principals
    BY <2>2, SMTT(30), SMTT(40) DEF BindingInv, NoDanglingRows, TypeOK
  <2>4. subject_tuple(e[1], p) = <<<<r, res>>, "subject", CarUser[c]>>
    BY <2>1, <2>2, <2>3, SMTT(30), SMTT(40) DEF subject_tuple, subject_id
  <2>5. HasRow(subject_tuple(e[1], p))
    BY <2>2, <2>3 DEF HasRow
  <2> QED BY <2>4, <2>5, RelationsByRow, SMTT(30), SMTT(40) DEF BindingInv
<1> QED BY <1>1, Bindings_Invariant, PTL
=============================================================================
