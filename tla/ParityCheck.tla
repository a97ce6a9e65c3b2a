---------------------------- MODULE ParityCheck ----------------------------
(***************************************************************************)
(* The check that compares the rows of RBAC with the relations in Kessel   *)
(* (run_kessel_parity_checks_in_worker in management/tasks.py), while      *)
(* requests keep changing rows, relations follow them through the outbox,  *)
(* and Kessel may lack relations it should have.                           *)
(*                                                                         *)
(* Nothing is locked: the tenants, their mappings and built-in workspaces  *)
(* are read once, everything else of a tenant when its turn comes, and the *)
(* relations are asked for one by one.  A row stands for the relation that *)
(* is expected for it.                                                     *)
(***************************************************************************)
EXTENDS Naturals, Sequences, SequencesExt, FiniteSets

CONSTANTS
    Orgs,          \* the organizations that have a tenant
    Contents,      \* Contents[o]: what the rows of o may be; see Content
    InitialRows,   \* the rows initially
    Asks,          \* the requests and settings of the check; see Ask
    MaxWrites,     \* transactions that change rows
    MaxLost,       \* relations that Kessel loses
    MaxErrors      \* calls that fail

VARIABLES
    rows,          \* rows[o]: the rows of organization o, those of "public" among them
    kessel,        \* the relations in Kessel, as <<organization, kind, relation>>
    outbox,        \* changes that are not replicated yet
    check,         \* how far the check is
    steady,        \* steady[o]: rows and relations have agreed since it started
    missing,       \* relations that have been expected and absent since it started
    budget         \* what may still happen

parityVars == <<rows, kessel, outbox, check, steady, missing, budget>>

(* The checks of a tenant, in this order; "seeded" is checked first, once. *)
Kinds == <<"workspace", "role", "bootstrap", "group">>

(* bootstrap is empty without a tenant mapping, and lacks the access of    *)
(* users while the tenant has a custom default group.                      *)
Named == {"hierarchy", "user", "admin"}

Content == [workspace : SUBSET STRING, role : SUBSET STRING, group : SUBSET STRING,
            bootstrap : {{}, Named, Named \ {"user"}}, seeded : SUBSET STRING]

Ask == [scheduled : BOOLEAN, enabled : BOOLEAN, org_ids : Seq(STRING)]

Expected(o, content) == UNION {{o} \X {k} \X content[k] : k \in DOMAIN content}

ParityInit ==
    /\ rows \in InitialRows
    /\ kessel = UNION {Expected(o, rows[o]) : o \in Orgs}
    /\ outbox = <<>>
    /\ \E ask \in Asks :
          check = [pc |-> "idle", ask |-> ask, org_ids |-> <<>>, fetched |-> rows, org |-> "public",
                   kind |-> 0, todo |-> {}, ok |-> TRUE, passed |-> TRUE,
                   report |-> [o \in Orgs \union {"unknown"} |-> "none"]]
    /\ steady = [o \in Orgs |-> TRUE]
    /\ missing = {}
    /\ budget = [writes |-> MaxWrites, lost |-> MaxLost, errors |-> MaxErrors]

(***************************************************************************)
(* What goes on meanwhile                                                  *)
(***************************************************************************)

(* A transaction changes rows of an organization and puts the change of    *)
(* relations into the outbox.                                              *)
Write(o) ==
    /\ budget.writes > 0
    /\ \E content \in Contents[o] :
          /\ content # rows[o]
          /\ content.bootstrap = {} => rows[o].bootstrap = {}
          /\ rows' = [rows EXCEPT ![o] = content]
          /\ outbox' = Append(outbox, [remove |-> Expected(o, rows[o]) \ Expected(o, content),
                                       add |-> Expected(o, content) \ Expected(o, rows[o])])
    /\ budget' = [budget EXCEPT !.writes = @ - 1]
    /\ UNCHANGED <<kessel, check>>

Replicate ==
    /\ outbox # <<>>
    /\ kessel' = (kessel \ Head(outbox).remove) \union Head(outbox).add
    /\ outbox' = Tail(outbox)
    /\ UNCHANGED <<rows, check, budget>>

Lose ==
    /\ budget.lost > 0
    /\ \E t \in kessel : kessel' = kessel \ {t}
    /\ budget' = [budget EXCEPT !.lost = @ - 1]
    /\ UNCHANGED <<rows, outbox, check>>

(***************************************************************************)
(* The check                                                               *)
(***************************************************************************)
DistinctOrgIds(org_ids) ==
    FoldLeft(LAMBDA seen, o : IF o = "" \/ o \in ToSet(seen) THEN seen ELSE Append(seen, o),
             <<>>, org_ids)

(* The endpoint that asks for a check on demand refuses empty names.       *)
kessel_parity_check(ask) == ask.org_ids # <<>> /\ "" \notin ToSet(ask.org_ids)

(* What is asked for, once the rows have been read.  Of a role that is the *)
(* relations of its permissions, not the one of its owner.                 *)
generate_seeded_role_hierarchy_tuples == rows["public"].seeded

workspace_pairs(o) == rows[o].workspace

permission_tuples(o) == rows[o].role

build_named_tuples(fetched) == IF fetched.bootstrap = {} THEN {} ELSE Named

relationships(o) == rows[o].group

ToCheck(kind, o) ==
    CASE kind = "workspace" -> workspace_pairs(o)
      [] kind = "role"      -> permission_tuples(o)
      [] kind = "bootstrap" -> build_named_tuples(check.fetched[o])
      [] kind = "group"     -> relationships(o)

(* A tenant without mapping or without any workspace below its root fails; *)
(* there need not be roles and groups.                                     *)
PassesEmpty(kind) == kind \in {"role", "group"}

check_inventory_core(o, kind, t) == <<o, kind, t>> \in kessel

(* A scheduled run needs the setting; one on demand does not.              *)
Admitted(ask) == IF ask.scheduled THEN ask.enabled ELSE kessel_parity_check(ask)

Start ==
    LET org_ids == DistinctOrgIds(check.ask.org_ids) IN
    /\ check.pc = "idle"
    /\ check' = IF ~Admitted(check.ask) \/ org_ids = <<>>
                THEN [check EXCEPT !.pc = "skipped"]
                ELSE [check EXCEPT !.pc = "seeded", !.org_ids = org_ids,
                                   !.todo = generate_seeded_role_hierarchy_tuples]
    /\ UNCHANGED <<rows, kessel, outbox, budget>>

check_seeded_role_hierarchy ==
    /\ check.pc = "seeded"
    /\ \E t \in check.todo :
          check' = [check EXCEPT !.todo = @ \ {t},
                                 !.ok = @ /\ check_inventory_core("public", "seeded", t)]
    /\ UNCHANGED <<rows, kessel, outbox, budget>>

(* An error is noted for the role, and the check goes on.                  *)
SeededRoleError ==
    /\ check.pc = "seeded" /\ budget.errors > 0
    /\ \E t \in check.todo : check' = [check EXCEPT !.todo = @ \ {t}, !.ok = FALSE]
    /\ budget' = [budget EXCEPT !.errors = @ - 1]
    /\ UNCHANGED <<rows, kessel, outbox>>

Fetch ==
    /\ check.pc = "seeded" /\ check.todo = {}
    /\ check' = [check EXCEPT !.pc = "next", !.fetched = rows,
                              !.report["public"] = IF check.ok THEN "passed" ELSE "failed"]
    /\ UNCHANGED <<rows, kessel, outbox, budget>>

NextTenant ==
    /\ check.pc = "next" /\ check.org_ids # <<>>
    /\ check' = IF Head(check.org_ids) \notin Orgs
                THEN [check EXCEPT !.org_ids = Tail(@), !.report["unknown"] = "not found"]
                ELSE [check EXCEPT !.pc = "read", !.org = Head(check.org_ids), !.kind = 1,
                                   !.passed = TRUE, !.org_ids = Tail(@)]
    /\ UNCHANGED <<rows, kessel, outbox, budget>>

Finish ==
    /\ check.pc = "next" /\ check.org_ids = <<>>
    /\ check' = [check EXCEPT !.pc = "done"]
    /\ UNCHANGED <<rows, kessel, outbox, budget>>

Read ==
    LET kind == Kinds[check.kind]  todo == ToCheck(kind, check.org) IN
    /\ check.pc = "read"
    /\ check' = [check EXCEPT !.pc = "check", !.todo = todo,
                              !.ok = todo # {} \/ PassesEmpty(kind)]
    /\ UNCHANGED <<rows, kessel, outbox, budget>>

CheckRelation ==
    /\ check.pc = "check"
    /\ \E t \in check.todo :
          check' = [check EXCEPT !.todo = @ \ {t},
                                 !.ok = @ /\ check_inventory_core(check.org, Kinds[check.kind], t)]
    /\ UNCHANGED <<rows, kessel, outbox, budget>>

(* Any error fails the tenant, whose other checks are left out.            *)
TenantError ==
    /\ check.pc = "check" /\ check.todo # {} /\ budget.errors > 0
    /\ check' = [check EXCEPT !.pc = "next", !.todo = {}, !.report[check.org] = "error"]
    /\ budget' = [budget EXCEPT !.errors = @ - 1]
    /\ UNCHANGED <<rows, kessel, outbox>>

(* Mutation of Verdict: the last check alone decides.                      *)
VerdictOfLastCheck ==
    /\ check.pc = "check" /\ check.todo = {}
    /\ check' = IF check.kind < Len(Kinds)
                THEN [check EXCEPT !.pc = "read", !.kind = @ + 1]
                ELSE [check EXCEPT !.pc = "next", !.report[check.org] =
                                       IF check.ok THEN "passed" ELSE "failed"]
    /\ UNCHANGED <<rows, kessel, outbox, budget>>

(* A tenant passes when all of its checks do.                              *)
Verdict ==
    /\ check.pc = "check" /\ check.todo = {}
    /\ check' = IF check.kind < Len(Kinds)
                THEN [check EXCEPT !.pc = "read", !.kind = @ + 1, !.passed = @ /\ check.ok]
                ELSE [check EXCEPT !.pc = "next", !.report[check.org] =
                                       IF check.passed /\ check.ok THEN "passed" ELSE "failed"]
    /\ UNCHANGED <<rows, kessel, outbox, budget>>

(***************************************************************************)
(* Steps, with what the properties remember of the run                     *)
(***************************************************************************)
InSync(o) == outbox = <<>> /\ {t \in kessel : t[1] = o} = Expected(o, rows[o])

Absent == UNION {Expected(o, rows[o]) : o \in Orgs} \ kessel

ParityNext ==
    /\ \/ \E o \in Orgs : Write(o)
       \/ Replicate \/ Lose
       \/ Start \/ check_seeded_role_hierarchy \/ SeededRoleError \/ Fetch
       \/ NextTenant \/ Read \/ CheckRelation \/ TenantError \/ Verdict \/ Finish
    /\ steady' = [o \in Orgs |-> (check.pc = "idle" \/ steady[o]) /\ InSync(o)']
    /\ missing' = IF check.pc = "idle" THEN Absent' ELSE missing \intersect Absent'

(***************************************************************************)
(* Properties                                                              *)
(***************************************************************************)

(* The check raises no false alarm over a tenant whose rows and relations  *)
(* agreed all along, although its rows are read at different moments: it   *)
(* fails such a tenant only when it is not bootstrapped or has a custom    *)
(* default group, and seeded roles only after an error.                    *)
NoFalseAlarm ==
    \A o \in Orgs : check.pc # "idle" /\ steady[o] =>
        CASE check.report[o] = "failed" ->
                IF o = "public" THEN budget.errors < MaxErrors ELSE rows[o].bootstrap # Named
          [] check.report[o] = "passed" -> o = "public" \/ rows[o].bootstrap = Named
          [] OTHER -> TRUE

(* A relation that Kessel lacked throughout the check is noticed: the      *)
(* tenant does not pass.                                                   *)
LossNoticed ==
    check.pc # "idle" => \A t \in missing : check.report[t[1]] # "passed"

(* Each organization asked for is reported once the check ends, with any   *)
(* unknown one.                                                            *)
AllReported ==
    check.pc = "done" =>
        LET asked == ToSet(check.ask.org_ids) \ {""} IN
        /\ {o \in Orgs \ {"public"} : check.report[o] # "none"} = asked \intersect Orgs
        /\ check.report["unknown"] = "not found" <=> asked \ Orgs # {}

ParityReported == NoFalseAlarm /\ LossNoticed /\ AllReported
============================================================================
