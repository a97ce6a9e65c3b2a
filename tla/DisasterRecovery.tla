--------------------------- MODULE DisasterRecovery ---------------------------
(***************************************************************************)
(* Recovery after the database is restored from a backup while Kessel and  *)
(* HBI keep what they were told since: reconcile of                        *)
(* management/disaster_recovery for the relations, and                     *)
(* generate_corrective_workspace_events of management/workspace for the    *)
(* workspace events.  Both read a window of the topics that starts no later*)
(* than the backup, and write corrective events one by one.  A resource    *)
(* stands for a workspace, group, role or role binding.                    *)
(***************************************************************************)
EXTENDS Naturals, Sequences, FiniteSets, SequencesExt

CONSTANTS Resources, Subjects, WorkspaceNames, MaxEvents,
          Live        \* requests are served during the recovery

VARIABLES database,    \* [names, links]: existing resources, and tuples of the rows
          kessel,      \* tuples in Kessel
          hbi,         \* names of the workspaces HBI knows
          history,     \* events published: [op, resource, name, add, remove]
          backup,      \* [data, from]: the backup and the start of the window
          phase,       \* serving, restored, recovering, recovered
          plan,        \* corrective tuples to write, and workspaces to correct
          crashes      \* interruptions and failed writes so far

recoveryVars == <<database, kessel, hbi, history, backup, phase, plan, crashes>>

NoPlan == [adds |-> {}, removes |-> {}, workspaces |-> {}, errors |-> FALSE]
Known(r) == r \in DOMAIN database.names
Name(f, r, n) == [x \in DOMAIN f \cup {r} |-> IF x = r THEN n ELSE f[x]]
Forget(f, r) == [x \in DOMAIN f \ {r} |-> f[x]]
Tuples(r) == {t \in database.links : t[1] = r}

(************************* the service, abstracted ************************)
\* A change of the service with its events
Publish(names, links, op, r, n, add, remove) ==
    /\ phase = "serving" \/ (Live /\ phase \in {"recovering", "recovered"})
    /\ Len(history) < MaxEvents
    /\ database' = [names |-> names, links |-> links]
    /\ kessel' = (kessel \ remove) \cup add
    /\ hbi' = CASE op = "create" -> IF r \in DOMAIN hbi THEN hbi ELSE Name(hbi, r, n)
                [] op = "update" -> IF r \in DOMAIN hbi THEN Name(hbi, r, n) ELSE hbi
                [] op = "delete" -> Forget(hbi, r)
                [] OTHER -> hbi
    /\ history' = Append(history, [op |-> op, resource |-> r, add |-> add, remove |-> remove])
    /\ UNCHANGED <<backup, phase, plan, crashes>>

Create(r, n) ==
    /\ ~Known(r) /\ \A i \in 1..Len(history) : history[i].resource # r   \* a new uuid
    /\ LET t == {<<r, "parent">>}
       IN Publish(Name(database.names, r, n), database.links \cup t, "create", r, n, t, {})

Rename(r, n) ==
    /\ Known(r) /\ database.names[r] # n
    /\ Publish(Name(database.names, r, n), database.links, "update", r, n, {}, {})

Link(r, s) ==
    /\ Known(r) /\ <<r, s>> \notin database.links
    /\ Publish(database.names, database.links \cup {<<r, s>>}, "none", r, "", {<<r, s>>}, {})

Unlink(r, s) ==
    /\ <<r, s>> \in database.links
    /\ Publish(database.names, database.links \ {<<r, s>>}, "none", r, "", {}, {<<r, s>>})

Delete(r) ==
    /\ Known(r)
    /\ Publish(Forget(database.names, r), database.links \ Tuples(r), "delete", r, "", {}, Tuples(r))

\* External: a backup is taken, and restored after a failure
TakeBackup ==
    /\ phase = "serving" /\ backup.taken = FALSE
    /\ \E from \in 1..Len(history) + 1 : backup' = [taken |-> TRUE, data |-> database, from |-> from]
    /\ UNCHANGED <<database, kessel, hbi, history, phase, plan, crashes>>

Restore ==
    /\ phase = "serving" /\ backup.taken
    /\ database' = backup.data
    /\ phase' = "restored"
    /\ UNCHANGED <<kessel, hbi, history, backup, plan, crashes>>

(***************************** the recovery *******************************)
\* read_events_in_window and read_events_by_timestamp
Window == SubSeq(history, backup.from, Len(history))
Events == {Window[i] : i \in 1..Len(Window)}


\* generate_corrective_actions on the existence of the resource of a tuple
CorrectiveAdds == UNION {{t \in e.remove : Known(t[1])} : e \in Events}
CorrectiveRemoves == UNION {{t \in e.add : ~Known(t[1])} : e \in Events}

\* parse_workspace_kafka_events: the latest event of each workspace
LatestOp(r) ==
    LET ops == SelectSeq(Window, LAMBDA e : e.resource = r /\ e.op # "none")
    IN IF ops = <<>> THEN "none" ELSE Last(ops).op

\* reconcile and generate_corrective_workspace_events look the resources up once
StartRecovery ==
    /\ phase = "restored"
    /\ phase' = "recovering"
    /\ plan' = [adds |-> CorrectiveAdds, removes |-> CorrectiveRemoves,
                errors |-> FALSE,
                workspaces |-> {[id |-> r, op |-> LatestOp(r), name |-> IF Known(r) THEN database.names[r] ELSE ""] :
                                  r \in {r \in Resources : LatestOp(r) # "none"}}]
    /\ UNCHANGED <<database, kessel, hbi, history, backup, crashes>>

\* write_corrective_events: the additions first
WriteAdd(t) ==
    /\ phase = "recovering" /\ t \in plan.adds
    /\ kessel' = kessel \cup {t}
    /\ plan' = [plan EXCEPT !.adds = @ \ {t}]
    /\ UNCHANGED <<database, hbi, history, backup, phase, crashes>>

WriteRemove(t) ==
    /\ phase = "recovering" /\ plan.adds = {} /\ t \in plan.removes
    /\ kessel' = kessel \ {t}
    /\ plan' = [plan EXCEPT !.removes = @ \ {t}]
    /\ UNCHANGED <<database, hbi, history, backup, phase, crashes>>

\* The truth table of dr_recovery.py, and what HBI makes of the event
Corrected(w) ==
    IF w.name = "" THEN (IF w.op = "delete" THEN hbi ELSE Forget(hbi, w.id))
    ELSE CASE w.op = "create" -> hbi
           [] w.op = "delete" -> IF w.id \in DOMAIN hbi THEN hbi ELSE Name(hbi, w.id, w.name)
           [] w.op = "update" -> IF w.id \in DOMAIN hbi THEN Name(hbi, w.id, w.name) ELSE hbi

WriteWorkspace(w) ==
    /\ phase = "recovering" /\ w \in plan.workspaces
    /\ hbi' = Corrected(w)
    /\ plan' = [plan EXCEPT !.workspaces = @ \ {w}]
    /\ UNCHANGED <<database, kessel, history, backup, phase, crashes>>

\* The task is interrupted and run again for the same window
CrashRecovery ==
    /\ phase = "recovering" /\ crashes = 0
    /\ crashes' = 1 /\ phase' = "restored" /\ plan' = NoPlan
    /\ UNCHANGED <<database, kessel, hbi, history, backup>>

\* One event cannot be written: it is counted, and the next one follows
FailWrite ==
    /\ phase = "recovering" /\ crashes = 0 /\ crashes' = 1
    /\ \/ \E t \in plan.adds : plan' = [plan EXCEPT !.errors = TRUE, !.adds = @ \ {t}]
       \/ \E t \in plan.removes :
            plan.adds = {} /\ plan' = [plan EXCEPT !.errors = TRUE, !.removes = @ \ {t}]
       \/ \E w \in plan.workspaces : plan' = [plan EXCEPT !.errors = TRUE, !.workspaces = @ \ {w}]
    /\ UNCHANGED <<database, kessel, hbi, history, backup, phase>>

\* A task that reports errors is run again
FinishRecovery ==
    /\ phase = "recovering" /\ [plan EXCEPT !.errors = FALSE] = NoPlan
    /\ phase' = IF plan.errors THEN "restored" ELSE "recovered"
    /\ plan' = NoPlan
    /\ UNCHANGED <<database, kessel, hbi, history, backup, crashes>>

(***************************** specification ******************************)
RecoveryInit ==
    /\ database = [names |-> <<>>, links |-> {}]
    /\ kessel = {} /\ hbi = <<>> /\ history = <<>>
    /\ backup = [taken |-> FALSE, data |-> [names |-> <<>>, links |-> {}], from |-> 1]
    /\ phase = "serving" /\ plan = NoPlan /\ crashes = 0

RecoveryNext ==
    \/ \E r \in Resources :
         \/ \E n \in WorkspaceNames : Create(r, n) \/ Rename(r, n)
         \/ \E s \in Subjects : Link(r, s) \/ Unlink(r, s)
         \/ Delete(r)
    \/ TakeBackup \/ Restore \/ StartRecovery
    \/ \E t \in plan.adds : WriteAdd(t)
    \/ \E t \in plan.removes : WriteRemove(t)
    \/ \E w \in plan.workspaces : WriteWorkspace(w)
    \/ CrashRecovery \/ FailWrite \/ FinishRecovery

RecoverySpec == RecoveryInit /\ [][RecoveryNext]_recoveryVars


(* After the recovery HBI knows the restored workspaces by their restored  *)
(* names and no others (the truth table of dr_recovery.py).                *)
MirrorRecovered == phase = "recovered" => hbi = database.names
=============================================================================
