------------------------------ MODULE Membership ------------------------------
(***************************************************************************)
(* Users, service accounts and their group memberships of one tenant: the  *)
(* V1 and V2 group APIs (management/group), the identity middleware, the   *)
(* user part of the bootstrap service (management/tenant_service), the     *)
(* listener of user events (management/principal/cleaner.py) and the       *)
(* directory of users (BOP), which is external.  A database transaction is *)
(* one step: the writers lock the group, or are serializable, or meet the  *)
(* foreign keys of the membership rows.  Tuples are replicated in the      *)
(* order of the commits, removals of an event before its additions.        *)
(***************************************************************************)
EXTENDS Naturals, Sequences, FiniteSets, SequencesExt

CONSTANTS Groups, Users, Accounts,
          NamesOf,        \* NamesOf[u]: user names the directory may give user u
          Additions,      \* bodies of requests to add: [users, accounts]
          Removals,       \* parameters of requests to remove: [users, accounts]
          Requests,       \* requests to add that run at the same time
          Configs,        \* settings: [authoritative, updates]
          LateIds,        \* there may be principals without user id
          MaxEvents, BatchSize

VARIABLES directory,      \* BOP: name, status and role of each user
          topic,          \* user events, each with the user and the login name
          listener,       \* the consumer of the events
          adding,         \* requests to add principals
          members,        \* rows and replicated tuples
          config

memberVars == <<directory, topic, listener, adding, members, config>>

NoId == "no id"
Default == "default group"
Admins == "admin group"
AllNames == UNION {NamesOf[u] : u \in Users}
Idle == [step |-> "idle"]

\* The rows a principal is looked up by: user id and user name are unique
Owner(d, id) == {n \in DOMAIN d.principals : d.principals[n] = id}
GroupsOf(d, n) == {g \in Groups : <<g, n>> \in d.rows}
Live(d, g) == d.groups[g] = "live"
Failed(d) == [d EXCEPT !.ok = FALSE]

\* relationship_to_principal: there is no tuple for a principal without user id
MemberTuples(d, pairs) ==
    {<<r[1], d.principals[r[2]]>> : r \in {r \in pairs : d.principals[r[2]] # NoId}}

Replicated(d, add, remove) == [d EXCEPT !.tuples = (@ \ remove) \cup add]
WithPrincipal(d, n, id) ==
    [d EXCEPT !.principals = [x \in DOMAIN @ \cup {n} |-> IF x = n THEN id ELSE @[x]]]
WithoutPrincipal(d, n) ==
    [d EXCEPT !.principals = [x \in DOMAIN @ \ {n} |-> @[x]],
              !.rows = {r \in @ : r[2] # n}]


\* merge_obsolete_principal_into_survivor
Merge(d, survivor, obsolete, id) ==
    LET moved == GroupsOf(d, obsolete)
        joined == [d EXCEPT !.rows = @ \cup {<<g, survivor>> : g \in moved}]
        merged == WithPrincipal(WithoutPrincipal(joined, obsolete), survivor, id)
    IN Replicated(merged,
                  MemberTuples(merged, {<<g, survivor>> : g \in GroupsOf(merged, survivor)}),
                  {<<g, d.principals[obsolete]>> : g \in moved})

\* _ensure_principal_with_user_id_in_tenant
EnsurePrincipal(d, n, id, upsert) ==
    LET known == n \in DOMAIN d.principals
        obsolete == Owner(d, id) \ {n}
    IN CASE ~known /\ ~upsert -> d
         [] ~known /\ upsert /\ obsolete = {} -> WithPrincipal(d, n, id)
         [] ~known /\ upsert /\ obsolete # {} ->
              Merge(WithPrincipal(d, n, NoId), n, CHOOSE o \in obsolete : TRUE, id)
         [] known /\ d.principals[n] = id -> d
         [] known /\ d.principals[n] \notin {id, NoId} -> Failed(d)
         [] known /\ d.principals[n] = NoId /\ obsolete # {} ->
              Merge(d, n, CHOOSE o \in obsolete : TRUE, id)
         [] OTHER -> WithPrincipal(d, n, id)

\* _default_group_tuple_edits
DefaultEdits(d, u, admin) ==
    Replicated(d, {<<Default, u>>} \cup (IF admin THEN {<<Admins, u>>} ELSE {}),
                  IF admin THEN {} ELSE {<<Admins, u>>})

\* _disable_user_in_tenant: the default memberships go with the mapping of the
\* tenant, the others with the principal of that name
DisableUser(d, n, u) ==
    LET d1 == IF d.bootstrapped THEN Replicated(d, {}, {<<Default, u>>, <<Admins, u>>}) ELSE d
    IN IF n \notin DOMAIN d.principals THEN d1
       ELSE WithoutPrincipal(Replicated(d1, {}, {<<g, u>> : g \in GroupsOf(d, n)}), n)

\* update_user; a user is [name, id, active, admin]
UpdateUser(d, user, upsert) ==
    IF ~user.active THEN DisableUser(d, user.name, user.id)
    ELSE LET d1 == EnsurePrincipal([d EXCEPT !.bootstrapped = TRUE], user.name, user.id, upsert)
         IN IF d1.ok THEN DefaultEdits(d1, user.id, user.admin) ELSE Failed(d)

\* backfill_remote_principal
Backfill(d, user) ==
    IF user.name \in DOMAIN d.principals /\ d.principals[user.name] # NoId THEN d
    ELSE IF config.authoritative THEN UpdateUser(d, user, TRUE)
    ELSE IF user.name \in DOMAIN d.principals THEN d
    ELSE IF Owner(d, user.id) # {} THEN Failed(d)
    ELSE WithPrincipal(d, user.name, user.id)

BackfillAll(d, users) ==
    FoldLeft(LAMBDA acc, user : IF acc.ok THEN Backfill(acc, user) ELSE acc, d, SetToSeq(users))

\* The answer of BOP for user u
Answer(u) == [name |-> directory[u].name, id |-> u,
              active |-> directory[u].status = "active", admin |-> directory[u].admin]
Found(names) == {Answer(u) : u \in {u \in Users : directory[u].status = "active"
                                                    /\ directory[u].name \in names}}

\* Service accounts are principals named after their client id; IT may not
\* give a user id
AccountId(a) == IF LateIds THEN {a, NoId} ELSE {a}
EnsureAccount(d, a, id) ==
    IF a \notin DOMAIN d.principals \/ d.principals[a] = NoId THEN WithPrincipal(d, a, id) ELSE d
EnsureAccounts(d, ids) ==
    FoldLeft(LAMBDA acc, a : EnsureAccount(acc, a, ids[a]), d, SetToSeq(DOMAIN ids))

Joined(d, g, names) ==
    LET d1 == [d EXCEPT !.rows = @ \cup {<<g, n>> : n \in names}]
    IN Replicated(d1, MemberTuples(d1, {<<g, n>> : n \in names}), {})

\* A transaction that failed changes nothing
Store(d) == members' = IF d.ok THEN d ELSE members

(***************************** the directory ******************************)
\* External: a user is renamed, deactivated, removed, made administrator; an
\* event follows each change
DirectoryChange(u) ==
    /\ Len(topic) < MaxEvents
    /\ \/ \E n \in NamesOf[u] \ {directory[u].name} : directory' = [directory EXCEPT ![u].name = n]
       \/ \E s \in {"active", "inactive", "removed"} \ {directory[u].status} :
             directory' = [directory EXCEPT ![u].status = s]
       \/ directory' = [directory EXCEPT ![u].admin = ~@]
    /\ topic' = Append(topic, [user |-> u, name |-> directory'[u].name])
    /\ UNCHANGED <<listener, adding, members, config>>

(***************************** the middleware *****************************)
\* IdentityHeaderMiddleware.get_tenant: the tenant is created by the first
\* request of an active user, later requests only backfill the principal
Request(u) ==
    /\ directory[u].status = "active"
    /\ LET d1 == IF members.bootstrapped THEN members ELSE UpdateUser(members, Answer(u), TRUE)
       IN Store(IF d1.ok THEN Backfill(d1, Answer(u)) ELSE d1)
    /\ UNCHANGED <<directory, topic, listener, adding, config>>

(******************************* the groups *******************************)
CreateGroup(g) ==
    /\ members.groups[g] = "new" /\ members.bootstrapped
    /\ members' = [members EXCEPT !.groups[g] = "live"]
    /\ UNCHANGED <<directory, topic, listener, adding, config>>

\* destroy of either API
DestroyGroup(g) ==
    /\ Live(members, g)
    /\ members' = [Replicated(members, {}, MemberTuples(members, {r \in members.rows : r[1] = g}))
                     EXCEPT !.groups[g] = "gone", !.rows = {r \in @ : r[1] # g}]
    /\ UNCHANGED <<directory, topic, listener, adding, config>>

\* V1: _add_principal_into_group asks IT and BOP before the transaction; user
\* names BOP does not know are dropped unless it knows none
CheckV1(r, g, a) ==
    /\ adding[r] = Idle /\ Live(members, g)
    /\ a.users = {} \/ Found(a.users) # {}
    /\ \E ids \in [a.accounts -> Accounts \cup {NoId}] :
         /\ \A x \in a.accounts : ids[x] \in AccountId(x)
         /\ adding' = [adding EXCEPT ![r] = [step |-> "write", group |-> g,
                                             found |-> Found(a.users), ids |-> ids]]
    /\ UNCHANGED <<directory, topic, listener, members, config>>

\* V1: _write_group_principals, on the locked group
WriteV1(r) ==
    /\ adding[r].step = "write"
    /\ LET q == adding[r]
           d == BackfillAll(EnsureAccounts(members, q.ids), q.found)
       IN Store(IF Live(members, q.group) /\ d.ok
                THEN Joined(d, q.group, DOMAIN q.ids \cup {x.name : x \in q.found})
                ELSE members)
    /\ adding' = [adding EXCEPT ![r] = Idle]
    /\ UNCHANGED <<directory, topic, listener, config>>

\* V2: _validate_and_backfill_service_accounts, in its own transaction
AccountsV2(r, g, a) ==
    /\ adding[r] = Idle /\ Live(members, g)
    /\ \E ids \in [a.accounts -> Accounts \cup {NoId}] :
         /\ \A x \in a.accounts : ids[x] \in AccountId(x)
         /\ members' = EnsureAccounts(members, ids)
    /\ adding' = [adding EXCEPT ![r] = [step |-> "users", group |-> g, asked |-> a]]
    /\ UNCHANGED <<directory, topic, listener, config>>

\* V2: _validate_and_backfill_users, one transaction per user; a user name BOP
\* does not know, or a failed backfill, ends the request
UsersV2(r) ==
    /\ adding[r].step = "users"
    /\ LET q == adding[r]
           found == Found(q.asked.users)
           missing == q.asked.users \ {x.name : x \in found}
           d == BackfillAll(members, found)
       IN \/ /\ missing = {} /\ d.ok
             /\ members' = d
             /\ adding' = [adding EXCEPT ![r].step = "join"]
          \/ /\ missing # {} \/ ~d.ok
             /\ members' = IF missing = {} THEN [d EXCEPT !.ok = TRUE] ELSE members
             /\ adding' = [adding EXCEPT ![r] = Idle]
    /\ UNCHANGED <<directory, topic, listener, config>>

\* V2: _perform_add_principals, add_principals: all principals must still exist
JoinV2(r) ==
    /\ adding[r].step = "join"
    /\ LET q == adding[r]
           names == q.asked.users \cup q.asked.accounts
           fresh == {n \in names : <<q.group, n>> \notin members.rows}
       IN members' = IF Live(members, q.group) /\ names \subseteq DOMAIN members.principals
                     THEN Joined(members, q.group, fresh) ELSE members
    /\ adding' = [adding EXCEPT ![r] = Idle]
    /\ UNCHANGED <<directory, topic, listener, config>>

Expelled(d, g, names) ==
    [Replicated(d, {}, MemberTuples(d, {<<g, n>> : n \in names}))
       EXCEPT !.rows = @ \ {<<g, n>> : n \in names}]

MembersOf(d, g) == {n \in DOMAIN d.principals : <<g, n>> \in d.rows}

\* V1: _remove_principal_from_group; an unknown service account ends the
\* request with a rollback, an unknown user with a commit
RemoveV1(g, x) ==
    /\ Live(members, g)
    /\ x.accounts \subseteq MembersOf(members, g)
    /\ members' = IF x.users \subseteq MembersOf(members, g)
                  THEN Expelled(members, g, x.users \cup x.accounts)
                  ELSE [members EXCEPT !.rows = @ \ {<<g, n>> : n \in x.accounts}]
    /\ UNCHANGED <<directory, topic, listener, adding, config>>

\* V2: remove_principals and remove_principal
RemoveV2(g, x) ==
    /\ Live(members, g)
    /\ x.users \cup x.accounts \subseteq MembersOf(members, g)
    /\ members' = Expelled(members, g, x.users \cup x.accounts)
    /\ UNCHANGED <<directory, topic, listener, adding, config>>

(***************************** the listener *******************************)
\* process_principal_events_from_kafka holds the consumer lock; one call to BOP
\* answers for the whole batch (a failed call ends the cycle)
FetchBatch ==
    /\ listener.step = "idle" /\ listener.committed < Len(topic)
    /\ \E k \in 1..BatchSize :
         /\ listener.committed + k <= Len(topic)
         /\ listener' = [listener EXCEPT !.step = "work", !.last = listener.committed + k,
                                         !.next = listener.committed + 1,
                                         !.answers = [u \in Users |-> Answer(u)],
                                         !.known = {u \in Users : directory[u].status # "removed"}]
    /\ UNCHANGED <<directory, topic, adding, members, config>>

\* retrieve_user_info_kafka: the login name of the message when BOP knows no such user
EventUser(e) ==
    IF e.user \in listener.known THEN listener.answers[e.user]
    ELSE [name |-> e.name, id |-> e.user, active |-> FALSE, admin |-> FALSE]

\* process_kafka_message; a failed update ends the cycle without commit
ProcessMessage ==
    /\ listener.step = "work"
    /\ LET user == EventUser(topic[listener.next])
           d == IF ~user.active \/ config.updates THEN UpdateUser(members, user, FALSE) ELSE members
       IN /\ Store(d)
          /\ listener' = [listener EXCEPT !.step = IF d.ok THEN "commit" ELSE "idle"]
    /\ UNCHANGED <<directory, topic, adding, config>>

\* _commit_kafka_message
CommitMessage ==
    /\ listener.step = "commit"
    /\ listener' = [listener EXCEPT !.committed = listener.next, !.next = @ + 1,
                                    !.step = IF listener.next = listener.last THEN "idle" ELSE "work"]
    /\ UNCHANGED <<directory, topic, adding, members, config>>

\* The worker stops, or the commit fails: the batch is delivered again
EndCycle ==
    /\ listener.step # "idle"
    /\ listener' = [listener EXCEPT !.step = "idle"]
    /\ UNCHANGED <<directory, topic, adding, members, config>>

(************************* internal operations ****************************)
\* import_bulk_users: user ids are filled in, default memberships replicated
ImportUsers(S) ==
    LET users == {Answer(u) : u \in {u \in S : directory[u].status = "active"}}
        Fill(d, x) == IF x.name \notin DOMAIN d.principals THEN d
                      ELSE IF Owner(d, x.id) \ {x.name} # {} THEN Failed(d)
                      ELSE WithPrincipal(d, x.name, x.id)
        filled == FoldLeft(Fill, [members EXCEPT !.bootstrapped = @ \/ users # {}], SetToSeq(users))
    IN /\ users # {}
       /\ Store(IF filled.ok
                THEN FoldLeft(LAMBDA d, x : DefaultEdits(d, x.id, x.admin), filled, SetToSeq(users))
                ELSE filled)
       /\ UNCHANGED <<directory, topic, listener, adding, config>>

\* principal_removal (internal/views.py): principals BOP does not answer for
RemovePrincipal(n) ==
    /\ n \in DOMAIN members.principals
    /\ n \in Accounts \/ Found({n}) = {}
    /\ members' = IF members.principals[n] = NoId THEN WithoutPrincipal(members, n)
                  ELSE DisableUser(members, n, members.principals[n])
    /\ UNCHANGED <<directory, topic, listener, adding, config>>

(***************************** specification ******************************)
MemberInit ==
    /\ directory \in [Users -> [name : AllNames, status : {"active"}, admin : {FALSE}]]
    /\ \A u \in Users : directory[u].name = CHOOSE n \in NamesOf[u] : TRUE
    /\ topic = <<>>
    /\ listener = [step |-> "idle", committed |-> 0, next |-> 1, last |-> 0,
                   answers |-> [u \in Users |-> Answer(u)], known |-> Users]
    /\ adding = [r \in Requests |-> Idle]
    /\ config \in Configs
    /\ members \in [principals : {<<>>} \cup (IF LateIds
                                               THEN {[n \in {m} |-> NoId] : m \in AllNames} ELSE {}),
                    rows : {{}}, tuples : {{}}, groups : {[g \in Groups |-> "new"]},
                    bootstrapped : {FALSE}, ok : {TRUE}]

MemberNext ==
    \/ \E u \in Users : DirectoryChange(u) \/ Request(u)
    \/ \E g \in Groups :
         \/ CreateGroup(g) \/ DestroyGroup(g)
         \/ \E r \in Requests, a \in Additions : CheckV1(r, g, a) \/ AccountsV2(r, g, a)
         \/ \E x \in Removals : RemoveV1(g, x) \/ RemoveV2(g, x)
    \/ \E r \in Requests : WriteV1(r) \/ UsersV2(r) \/ JoinV2(r)
    \/ FetchBatch \/ ProcessMessage \/ CommitMessage \/ EndCycle
    \/ \E S \in SUBSET Users : ImportUsers(S)
    \/ \E n \in AllNames \cup Accounts : RemovePrincipal(n)

MemberSpec == MemberInit /\ [][MemberNext]_memberVars


(* A deactivated or removed user whose events are all handled is in neither*)
(* default group, whatever requests that checked the user earlier do later *)
(* (the comment of backfill_remote_principal accepts a leftover principal  *)
(* "with no default permissions").                                         *)
DisabledHasNoDefault ==
    ~config.authoritative /\ listener.committed = Len(topic) =>
        \A u \in Users : directory[u].status # "active" =>
            members.tuples \cap {<<Default, u>>, <<Admins, u>>} = {}
=============================================================================
