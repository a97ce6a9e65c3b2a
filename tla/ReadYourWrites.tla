---------------------------- MODULE ReadYourWrites ----------------------------
(***************************************************************************)
(* Requests and migration jobs that wait until the replication consumer has*)
(* applied their message: the consumer stores Kessel's consistency token on*)
(* the tenant row and sends a PostgreSQL NOTIFY, the writer LISTENs on the *)
(* channel after its commit (internal/pg_notify_wait.py,                   *)
(* internal/migration_coordination.py, core/kafka_consumer.py).            *)
(***************************************************************************)
EXTENDS Naturals, Sequences, FiniteSets

CONSTANTS Creators,        \* requests that create a workspace
          Jobs,            \* migration jobs
          Casts,           \* the writers that run at the same time
          Batches,         \* batches of each job
          MaxRedeliveries

VARIABLES outbox,          \* messages in the order of their commits
          relay,           \* the consumer: position, step, applied prefix
          freshness,       \* tenant row: the prefix its consistency token covers
          skipped,         \* messages whose token was not stored
          sessions,        \* notifications pending on sessions that LISTEN
          waiting,         \* the writers
          looked           \* prefixes the lookups after a creation have seen

waitVars == <<outbox, relay, freshness, skipped, sessions, waiting, looked>>

Waiters == Creators \cup Jobs
Channel(w) == IF w \in Creators THEN "read_your_writes" ELSE "migrate_binding_scope"
Message(w, n) == [writer |-> w, token |-> n, channel |-> Channel(w)]
PositionOf(w, n) == CHOOSE i \in 1..Len(outbox) : outbox[i] = Message(w, n)
Applied(w, n) == \E i \in 1..relay.applied : outbox[i] = Message(w, n)

(******************************** writers *********************************)
\* WorkspaceService.create and replicate_with_notify: the message is committed,
\* the wait follows on commit.  Each batch of a job has a token of its own
Enqueue(w) ==
    /\ waiting[w].step = "ready"
    /\ waiting[w].sent < (IF w \in Creators THEN 1 ELSE Batches)
    /\ outbox' = Append(outbox, Message(w, waiting[w].sent + 1))
    /\ waiting' = [waiting EXCEPT ![w] = [step |-> "listen", sent |-> waiting[w].sent + 1]]
    /\ UNCHANGED <<relay, freshness, skipped, sessions, looked>>

Listen(w) ==
    /\ waiting[w].step = "listen"
    /\ sessions' = [sessions EXCEPT ![w] = [on |-> TRUE, pending |-> {}]]
    /\ waiting' = [waiting EXCEPT ![w].step = "clear"]
    /\ UNCHANGED <<outbox, relay, freshness, skipped, looked>>

\* poll and notifies.clear(): drops what arrived since LISTEN as well
ClearStale(w) ==
    /\ waiting[w].step = "clear"
    /\ sessions' = [sessions EXCEPT ![w].pending = {}]
    /\ waiting' = [waiting EXCEPT ![w].step = "wait"]
    /\ UNCHANGED <<outbox, relay, freshness, skipped, looked>>

Matches(w, n) == n.channel = Channel(w) /\ n = Message(w, waiting[w].sent)

Off == [on |-> FALSE, pending |-> {}]

\* A readable connection: other payloads are dropped, the awaited one ends the
\* wait; the session stops to LISTEN
Receive(w) ==
    /\ waiting[w].step = "wait" /\ sessions[w].pending # {}
    /\ IF \E n \in sessions[w].pending : Matches(w, n)
       THEN /\ sessions' = [sessions EXCEPT ![w] = Off]
            /\ waiting' = [waiting EXCEPT ![w].step = IF w \in Creators THEN "done" ELSE "ready"]
       ELSE /\ sessions' = [sessions EXCEPT ![w].pending = {}]
            /\ UNCHANGED waiting
    /\ UNCHANGED <<outbox, relay, freshness, skipped, looked>>

AfterTimeout(w) == "failed"

\* The deadline has passed: TimeoutError ends the request or the job
Expire(w) ==
    /\ waiting[w].step = "wait"
    /\ sessions' = [sessions EXCEPT ![w] = Off]
    /\ waiting' = [waiting EXCEPT ![w].step = AfterTimeout(w)]
    /\ UNCHANGED <<outbox, relay, freshness, skipped, looked>>

\* The client of a creation lists workspaces with the token of the tenant row:
\* Kessel answers from a snapshot that is at least as fresh
Lookup(w) ==
    /\ w \in Creators /\ waiting[w].step = "done"
    /\ \E seen \in freshness..relay.applied : looked' = [looked EXCEPT ![w] = seen]
    /\ waiting' = [waiting EXCEPT ![w].step = "listed"]
    /\ UNCHANGED <<outbox, relay, freshness, skipped, sessions>>

(******************************* consumer *********************************)
Max2(a, b) == IF a > b THEN a ELSE b

\* write_relationships; a redelivered message is applied again
Apply ==
    /\ relay.step = "apply" /\ relay.position < Len(outbox)
    /\ relay' = [relay EXCEPT !.step = "token", !.applied = Max2(@, relay.position + 1)]
    /\ UNCHANGED <<outbox, freshness, skipped, sessions, waiting, looked>>

\* mutant: the token of the last message but one
TokenBefore == relay.position

\* The token Kessel returned covers all it has applied
Token == relay.applied

\* _save_consistency_token_best_effort: a lock time-out or an error skips it
SaveToken ==
    /\ relay.step = "token"
    /\ \/ freshness' = Token /\ UNCHANGED skipped
       \/ skipped' = skipped \cup {relay.position + 1} /\ UNCHANGED freshness
    /\ relay' = [relay EXCEPT !.step = "notify"]
    /\ UNCHANGED <<outbox, sessions, waiting, looked>>

\* _send_pg_notify_best_effort, to the sessions that LISTEN on the channel; an
\* error is only logged
Notify(sent) ==
    /\ relay.step = "notify"
    /\ LET n == outbox[relay.position + 1]
       IN sessions' = [w \in Waiters |->
            IF sent /\ sessions[w].on /\ Channel(w) = n.channel
            THEN [sessions[w] EXCEPT !.pending = @ \cup {n}] ELSE sessions[w]]
    /\ relay' = [relay EXCEPT !.step = "apply", !.position = @ + 1]
    /\ UNCHANGED <<outbox, freshness, skipped, waiting, looked>>

\* The consumer restarts from an earlier offset
Redeliver ==
    /\ relay.redelivered < MaxRedeliveries
    /\ \E p \in 0..relay.position :
         relay' = [relay EXCEPT !.step = "apply", !.position = p, !.redelivered = @ + 1]
    /\ UNCHANGED <<outbox, freshness, skipped, sessions, waiting, looked>>

(***************************** specification ******************************)
WaitInit ==
    /\ outbox = <<>>
    /\ relay = [step |-> "apply", position |-> 0, applied |-> 0, redelivered |-> 0]
    /\ freshness = 0
    /\ skipped = {}
    /\ sessions = [w \in Waiters |-> Off]
    /\ \E cast \in Casts :
         waiting = [w \in Waiters |-> [step |-> IF w \in cast THEN "ready" ELSE "absent", sent |-> 0]]
    /\ looked = [w \in Creators |-> 0]

WaitNext ==
    \/ \E w \in Waiters : Enqueue(w) \/ Listen(w) \/ ClearStale(w) \/ Receive(w) \/ Expire(w) \/ Lookup(w)
    \/ Apply \/ SaveToken \/ Redeliver
    \/ \E sent \in BOOLEAN : Notify(sent)

WaitSpec == WaitInit /\ [][WaitNext]_waitVars

(******************************* properties *******************************)
(* A wait ends with success only after Kessel has applied the message it   *)
(* was for, and a job sends no batch before the ones before it are applied,*)
(* although channels are shared, notifications are lost and messages are   *)
(* applied again (wait_for_pg_notify, NotifyCoordinatedReplicator).        *)
SuccessMeansApplied ==
    /\ \A w \in Creators : waiting[w].step \in {"done", "listed"} => Applied(w, 1)
    /\ \A w \in Jobs : \A n \in 1..waiting[w].sent :
         n < waiting[w].sent \/ waiting[w].step = "ready" => Applied(w, n)

(* A client whose creation has returned finds the workspace in the next    *)
(* listing, unless the consumer could not store the token of that message: *)
(* the token is stored before the notification (process of                 *)
(* core/kafka_consumer.py, lookup of workspace/utils/access.py).           *)
CreatedIsListed ==
    \A w \in Creators : waiting[w].step = "listed" =>
        looked[w] >= PositionOf(w, 1) \/ PositionOf(w, 1) \in skipped
=============================================================================
