---------------------------- MODULE KafkaConsumer ----------------------------
(***************************************************************************)
(* The replication consumer (core/kafka_consumer.py), the Kafka consumer   *)
(* group it is a member of and the Kessel store it writes to.              *)
(*                                                                         *)
(* Each member of Consumers is a pod: a main thread running the message    *)
(* loop (pc), and a worker thread running the rebalance callbacks (cb).    *)
(* The message with index i has Kafka offset i - 1, so "offset + 1", the   *)
(* value commits carry, is i: committed = n says the first n messages are  *)
(* consumed, and 0 in stored and copy says "nothing".                      *)
(***************************************************************************)
EXTENDS RelationsLog, FiniteSets

CONSTANTS
    Consumers,           \* consumer processes of the group
    NoConsumer,          \* "no process" for owner and holder
    CommitModulo,        \* CommitConfig.commit_modulo
    CommitOnRebalance,   \* CommitConfig.commit_on_rebalance
    CommitOnShutdown,    \* CommitConfig.commit_on_shutdown
    MaxRetries,          \* RetryConfig.operation_max_retries, -1 = infinite
    Env,                 \* what the consumer group may do, see EnvKinds
    MaxLog,              \* bound: messages ever produced
    MaxLock,             \* bound: fencing tokens issued before an assignment
    MaxFaults            \* bound: faults and rebalances

(* What the group may do beyond the calm case.                             *)
(*   "async":  a rebalance callback runs while the main thread is in the   *)
(*             middle of a message (otherwise only while it polls);        *)
(*   "return": the partition comes back to a process that has lost it;     *)
(*   "late":   the partition leaves a process whose lock acquisition is    *)
(*             still under way, and that acquisition succeeds afterwards;  *)
(*   "quiet":  a partition is assigned without the assigned callback.      *)
EnvKinds == {"async", "return", "late", "quiet"}

(* The partition neither returns to a process that lost it nor leaves one  *)
(* that is acquiring its lock.                                             *)
Calm == "return" \notin Env /\ "late" \notin Env

ASSUME ConsumerAssumption ==
    /\ NoConsumer \notin Consumers
    /\ CommitModulo \in Int
    /\ CommitOnRebalance \in BOOLEAN
    /\ CommitOnShutdown \in BOOLEAN
    /\ MaxRetries \in Int /\ MaxRetries >= -1
    /\ Env \subseteq EnvKinds
    /\ MaxLog \in Nat
    /\ MaxLock \in Nat
    /\ MaxFaults \in Nat

VARIABLES
    log,          \* the topic: messages in commit order
    committed,    \* the group's committed offset
    owner,        \* the member the broker has assigned the partition to
    store,        \* Kessel: the tuples that exist
    lock,         \* Kessel: the newest fencing token issued, 0 = none
    pc,           \* main thread: where it is in _run_message_loop
    assigned,     \* consumer.assignment() holds the partition
    pos,          \* messages handed out by the iterator (Kafka position)
    cur,          \* message being processed
    atk,          \* fencing token captured by the current attempt
    dels,         \* deletes the current attempt has still to send
    retries,      \* failed attempts of the current message
    first,        \* last_committed_offsets is empty
    paused,       \* is_paused_for_retry
    cb,           \* worker thread: the rebalance callback under way
    tok,          \* lock_token, 0 = None
    pend,         \* token acquired by the callback and not yet stored
    lockFailed,   \* lock_acquisition_failed
    stored,       \* stored_offsets: offset + 1 of the partition, 0 = absent
    copy,         \* per thread: offsets_to_commit
    cstep,        \* per thread: progress of OffsetManager.commit
    had,          \* this process has lost the partition before
    holder,       \* history: the process that acquired token `lock'
    done,         \* history: prefix of the log this process has applied
    applied,      \* history: messages some process has handled completely
    budget        \* bound: faults left

kafkaVars  == <<log, committed, owner, assigned, had>>
kesselVars == <<store, lock, holder>>
mainVars   == <<pc, pos, cur, atk, dels, retries, first, paused, done, applied>>
tokenVars  == <<cb, tok, pend, lockFailed>>
commitVars == <<stored, copy, cstep>>
vars == <<kafkaVars, kesselVars, mainVars, tokenVars, commitVars, budget>>

Threads == {"main", "callback"}

(* "poll": waiting for the iterator; "ensure": acquiring the lock for the  *)
(* first message; "attempt": about to (re)try; "write": token captured,    *)
(* RPCs under way; "store": processed; "commit": batch commit; "closing":  *)
(* in the finally block of start_consuming or in stop_consuming; "closed": *)
(* about to close the Kafka client; "down": no process.                    *)
MainStates == {"poll", "ensure", "attempt", "write", "store", "commit",
               "closing", "closed", "down"}

CallbackStates == {"idle", "commit", "release", "acquire", "store"}

Running(c) == pc[c] \notin {"closing", "closed", "down"}

Init ==
    /\ log = <<>> /\ committed = 0 /\ owner = NoConsumer
    /\ store = {} /\ lock = 0 /\ holder = NoConsumer
    /\ pc = [c \in Consumers |-> "poll"]
    /\ assigned = [c \in Consumers |-> FALSE]
    /\ pos = [c \in Consumers |-> 0]
    /\ cur = [c \in Consumers |-> 0]
    /\ atk = [c \in Consumers |-> 0]
    /\ dels = [c \in Consumers |-> {}]
    /\ retries = [c \in Consumers |-> 0]
    /\ first = [c \in Consumers |-> TRUE]
    /\ paused = [c \in Consumers |-> FALSE]
    /\ cb = [c \in Consumers |-> "idle"]
    /\ tok = [c \in Consumers |-> 0]
    /\ pend = [c \in Consumers |-> 0]
    /\ lockFailed = [c \in Consumers |-> FALSE]
    /\ stored = [c \in Consumers |-> 0]
    /\ copy = [c \in Consumers |-> [th \in Threads |-> 0]]
    /\ cstep = [c \in Consumers |-> [th \in Threads |-> "idle"]]
    /\ had = [c \in Consumers |-> FALSE]
    /\ done = [c \in Consumers |-> 0]
    /\ applied = {}
    /\ budget = MaxFaults

(* A fault or a rebalance uses up one unit of the bound.                   *)
Spend == budget > 0 /\ budget' = budget - 1

-----------------------------------------------------------------------------
(* The topic.                                                              *)

(* A transaction that wrote an outbox row commits, and Debezium publishes  *)
(* the row.                                                                *)
Produce ==
    /\ Len(log) < MaxLog
    /\ \E m \in Messages : log' = Append(log, m)
    /\ UNCHANGED <<committed, owner, assigned, had>>
    /\ UNCHANGED <<kesselVars, mainVars, tokenVars, commitVars, budget>>

-----------------------------------------------------------------------------
(* The message loop, main thread.                                          *)

(* Where a fetched message goes: a tombstone straight to the offset store, *)
(* an unparsable or invalid message out of the loop, the rest to the first *)
(* processing attempt.                                                     *)
Dispatch(m) ==
    IF m.kind = "tombstone" THEN "store"
    ELSE IF m.kind = "invalid" THEN "closing" ELSE "attempt"

(* What becomes of the history variables when c has handled message i.     *)
HandledBy(c, i) == done' = [done EXCEPT ![c] = i] /\ applied' = applied \cup {i}

EnterMessage(c, i) ==
    /\ first' = [first EXCEPT ![c] = FALSE]
    /\ pc' = [pc EXCEPT ![c] = Dispatch(log[i])]
    /\ retries' = [retries EXCEPT ![c] = 0]
    /\ IF log[i].kind = "tombstone" THEN HandledBy(c, i)
                                    ELSE UNCHANGED <<done, applied>>

(* The iterator yields the next message of the partition.  A lock that     *)
(* could not be acquired during the rebalance stops the consumer; the      *)
(* first message of the process goes through the lock check.               *)
Fetch(c) ==
    LET i == pos[c] + 1 IN
    /\ pc[c] = "poll" /\ assigned[c] /\ cb[c] = "idle" /\ i <= Len(log)
    /\ pos' = [pos EXCEPT ![c] = i]
    /\ cur' = [cur EXCEPT ![c] = i]
    /\ \/ /\ lockFailed[c]
          /\ pc' = [pc EXCEPT ![c] = "closing"]
          /\ UNCHANGED <<first, retries, done, applied>>
       \/ /\ ~lockFailed[c] /\ first[c] /\ tok[c] = 0
          /\ pc' = [pc EXCEPT ![c] = "ensure"]
          /\ UNCHANGED <<first, retries, done, applied>>
       \/ /\ ~lockFailed[c] /\ ~(first[c] /\ tok[c] = 0)
          /\ EnterMessage(c, i)
    /\ UNCHANGED <<atk, dels, paused>>
    /\ UNCHANGED <<kafkaVars, kesselVars, tokenVars, commitVars, budget>>

(* Kessel issues a new token for the lock; every older one is dead.        *)
IssueToken(h) == lock' = lock + 1 /\ holder' = h

(* _ensure_lock_token_on_assignment acquires a token for the first         *)
(* message of a process that the assigned callback gave none.              *)
EnsureLock(c) ==
    /\ pc[c] = "ensure"
    /\ IssueToken(c)
    /\ tok' = [tok EXCEPT ![c] = lock']
    /\ lockFailed' = [lockFailed EXCEPT ![c] = FALSE]
    /\ EnterMessage(c, cur[c])
    /\ UNCHANGED <<store, pos, cur, atk, dels, paused, cb, pend>>
    /\ UNCHANGED <<kafkaVars, commitVars, budget>>

(* ... and stops the consumer when every acquisition attempt failed; the   *)
(* last one may have reached Kessel all the same.                          *)
EnsureLockFails(c) ==
    /\ pc[c] = "ensure" /\ Spend
    /\ IssueToken(NoConsumer) \/ UNCHANGED <<lock, holder>>
    /\ pc' = [pc EXCEPT ![c] = "closing"]
    /\ UNCHANGED <<store, pos, cur, atk, dels, retries, first, paused, done, applied>>
    /\ UNCHANGED <<kafkaVars, tokenVars, commitVars>>

(* Mutant of BeginAttempt: the attempt asks for the newest token instead   *)
(* of using the one the process was given.                                 *)
BeginAttemptNewest(c) ==
    /\ pc[c] = "attempt" /\ tok[c] # 0
    /\ pc' = [pc EXCEPT ![c] = "write"]
    /\ atk' = [atk EXCEPT ![c] = lock]
    /\ dels' = [dels EXCEPT ![c] = log[cur[c]].remove]
    /\ UNCHANGED <<pos, cur, retries, first, paused, done, applied>>
    /\ UNCHANGED <<kafkaVars, kesselVars, tokenVars, commitVars, budget>>

(* An attempt reads the token the process holds now; the deletes are sent  *)
(* one RPC per tuple, then one RPC upserts the adds.                       *)
BeginAttempt(c) ==
    /\ pc[c] = "attempt" /\ tok[c] # 0
    /\ pc' = [pc EXCEPT ![c] = "write"]
    /\ atk' = [atk EXCEPT ![c] = tok[c]]
    /\ dels' = [dels EXCEPT ![c] = log[cur[c]].remove]
    /\ UNCHANGED <<pos, cur, retries, first, paused, done, applied>>
    /\ UNCHANGED <<kafkaVars, kesselVars, tokenVars, commitVars, budget>>

(* Mutant of Accepted: the call carries no fencing check.                  *)
AcceptedUnfenced(c) == atk[c] <= lock

(* Kessel accepts a call that carries the newest token.                    *)
Accepted(c) == atk[c] = lock

SendDelete(c) ==
    /\ pc[c] = "write" /\ Accepted(c)
    /\ \E t \in dels[c] :
          /\ store' = store \ {t}
          /\ dels' = [dels EXCEPT ![c] = @ \ {t}]
    /\ UNCHANGED <<lock, holder, pc, pos, cur, atk, retries, first, paused, done, applied>>
    /\ UNCHANGED <<kafkaVars, tokenVars, commitVars, budget>>

(* Mutant of SendAdd: the write does not wait for the deletes.             *)
SendAddEarly(c) ==
    /\ pc[c] = "write" /\ Accepted(c)
    /\ store' = store \cup log[cur[c]].add
    /\ pc' = [pc EXCEPT ![c] = "store"]
    /\ HandledBy(c, cur[c])
    /\ UNCHANGED <<lock, holder, pos, cur, atk, dels, retries, first, paused>>
    /\ UNCHANGED <<kafkaVars, tokenVars, commitVars, budget>>

(* The write ends the attempt: saving the consistency token and the        *)
(* notifications that follow are best effort and never fail it.            *)
SendAdd(c) ==
    /\ pc[c] = "write" /\ dels[c] = {} /\ Accepted(c)
    /\ store' = store \cup log[cur[c]].add
    /\ pc' = [pc EXCEPT ![c] = "store"]
    /\ HandledBy(c, cur[c])
    /\ UNCHANGED <<lock, holder, pos, cur, atk, dels, retries, first, paused>>
    /\ UNCHANGED <<kafkaVars, tokenVars, commitVars, budget>>

(* RetryHelper: any failure is retried until the limit; past the limit the *)
(* consumer stops, and marks itself so that it commits nothing on the way. *)
exceeded_max_retries(attempt) == 0 <= MaxRetries /\ MaxRetries <= attempt

(* Mutant of AttemptFails: past the limit the message is skipped.          *)
AttemptFailsSkips(c) ==
    /\ IF exceeded_max_retries(retries[c])
         THEN pc' = [pc EXCEPT ![c] = "store"] /\ UNCHANGED retries
         ELSE /\ pc' = [pc EXCEPT ![c] = "attempt"]
              /\ retries' = [retries EXCEPT ![c] = IF MaxRetries < 0 THEN 0 ELSE @ + 1]
    /\ UNCHANGED <<pos, cur, atk, dels, first, done, applied, paused, lock, holder>>
    /\ UNCHANGED <<kafkaVars, tokenVars, commitVars>>

AttemptFails(c) ==
    /\ IF exceeded_max_retries(retries[c])
         THEN /\ pc' = [pc EXCEPT ![c] = "closing"]
              /\ paused' = [paused EXCEPT ![c] = TRUE]
              /\ UNCHANGED retries
         ELSE /\ pc' = [pc EXCEPT ![c] = "attempt"]
              /\ retries' = [retries EXCEPT ![c] = IF MaxRetries < 0 THEN 0 ELSE @ + 1]
              /\ UNCHANGED paused
    /\ UNCHANGED <<pos, cur, atk, dels, first, done, applied, lock, holder>>
    /\ UNCHANGED <<kafkaVars, tokenVars, commitVars>>

(* No token to write under: "Lock token not available".                    *)
NoToken(c) ==
    /\ pc[c] = "attempt" /\ tok[c] = 0
    /\ AttemptFails(c) /\ UNCHANGED <<store, budget>>

(* Kessel answers FAILED_PRECONDITION; this too is retried.                *)
Fenced(c) ==
    /\ pc[c] = "write" /\ ~Accepted(c)
    /\ AttemptFails(c) /\ UNCHANGED <<store, budget>>

(* The call fails, or its answer is lost after the write took effect.      *)
RpcFails(c) ==
    /\ pc[c] = "write" /\ Spend
    /\ \/ UNCHANGED store
       \/ dels[c] = {} /\ Accepted(c) /\ store' = store \cup log[cur[c]].add
    /\ AttemptFails(c)

-----------------------------------------------------------------------------
(* Offsets.                                                                *)

should_commit(offset) == CommitModulo > 0 /\ (offset + 1) % CommitModulo = 0

(* OffsetManager.store, after a message or a tombstone has been handled.   *)
StoreOffset(c) ==
    /\ pc[c] = "store"
    /\ stored' = [stored EXCEPT ![c] = cur[c]]
    /\ pc' = [pc EXCEPT ![c] = IF should_commit(cur[c] - 1) THEN "commit" ELSE "poll"]
    /\ UNCHANGED <<copy, cstep, pos, cur, atk, dels, retries, first, paused, done, applied>>
    /\ UNCHANGED <<kafkaVars, kesselVars, tokenVars, budget>>

(* A thread is inside OffsetManager.commit: the main thread for a batch    *)
(* commit or on the way out, the worker for a revocation.                  *)
Committing(c, th) ==
    IF th = "main"
      THEN pc[c] = "commit" \/ (pc[c] = "closing" /\ CommitOnShutdown /\ ~paused[c])
      ELSE cb[c] = "commit"

(* What the thread goes on with when commit returns.                       *)
CommitReturns(c, th) ==
    IF th = "main"
      THEN /\ pc' = [pc EXCEPT ![c] = IF @ = "commit" THEN "poll" ELSE "closed"]
           /\ UNCHANGED cb
      ELSE cb' = [cb EXCEPT ![c] = "release"] /\ UNCHANGED pc

(* Everything but pc, cb and the commit's own variables.                   *)
CommitFrame ==
    /\ UNCHANGED <<log, owner, assigned, had, tok, pend, lockFailed>>
    /\ UNCHANGED <<pos, cur, atk, dels, retries, first, paused, done, applied>>
    /\ UNCHANGED kesselVars

(* stored_offsets is copied under the mutex; with nothing stored commit    *)
(* returns at once.                                                        *)
CommitCopy(c, th) ==
    /\ Committing(c, th) /\ cstep[c][th] = "idle"
    /\ IF stored[c] = 0
         THEN CommitReturns(c, th) /\ UNCHANGED <<copy, cstep>>
         ELSE /\ copy' = [copy EXCEPT ![c][th] = stored[c]]
              /\ cstep' = [cstep EXCEPT ![c][th] = "copied"]
              /\ UNCHANGED <<pc, cb>>
    /\ UNCHANGED <<stored, committed, budget>> /\ CommitFrame

(* A partition the client no longer has is filtered out; commit returns    *)
(* and leaves stored_offsets as it is.                                     *)
CommitUnassigned(c, th) ==
    /\ Committing(c, th) /\ cstep[c][th] = "copied" /\ ~assigned[c]
    /\ copy' = [copy EXCEPT ![c][th] = 0]
    /\ cstep' = [cstep EXCEPT ![c][th] = "idle"]
    /\ CommitReturns(c, th)
    /\ UNCHANGED <<stored, committed, budget>> /\ CommitFrame

(* The broker takes the offset of the member that owns the partition ...   *)
CommitSend(c, th) ==
    /\ Committing(c, th) /\ cstep[c][th] = "copied" /\ assigned[c] /\ owner = c
    /\ committed' = copy[c][th]
    /\ cstep' = [cstep EXCEPT ![c][th] = "ok"]
    /\ UNCHANGED <<stored, copy, pc, cb, budget>> /\ CommitFrame

(* ... and refuses any other member.                                       *)
CommitRefused(c, th) ==
    /\ Committing(c, th) /\ cstep[c][th] = "copied" /\ assigned[c] /\ owner # c
    /\ cstep' = [cstep EXCEPT ![c][th] = "failed"]
    /\ UNCHANGED <<committed, stored, copy, pc, cb, budget>> /\ CommitFrame

(* The commit fails, or its answer is lost.                                *)
CommitSendFails(c, th) ==
    /\ Committing(c, th) /\ cstep[c][th] = "copied" /\ assigned[c] /\ owner = c
    /\ Spend
    /\ committed' \in {committed, copy[c][th]}
    /\ cstep' = [cstep EXCEPT ![c][th] = "failed"]
    /\ UNCHANGED <<stored, copy, pc, cb>> /\ CommitFrame

(* Success clears all of stored_offsets; failure puts the copy back unless *)
(* a newer offset was stored meanwhile.                                    *)
CommitFinish(c, th) ==
    /\ cstep[c][th] \in {"ok", "failed"}
    /\ stored' = [stored EXCEPT ![c] =
                    IF cstep[c][th] = "ok" THEN 0
                    ELSE IF @ <= copy[c][th] THEN copy[c][th] ELSE @]
    /\ copy' = [copy EXCEPT ![c][th] = 0]
    /\ cstep' = [cstep EXCEPT ![c][th] = "idle"]
    /\ CommitReturns(c, th)
    /\ UNCHANGED <<committed, budget>> /\ CommitFrame

-----------------------------------------------------------------------------
(* Rebalances.                                                             *)

(* The callbacks interleave with a message only under "async".             *)
CallbackMayRun(c) == cb[c] = "idle" /\ (pc[c] = "poll" \/ "async" \in Env)

(* No lock acquisition of c is under way or still to come.                 *)
Settled(c) ==
    /\ cb[c] \notin {"acquire", "store"} /\ pc[c] # "ensure"
    /\ tok[c] # 0 \/ lockFailed[c]

MayLeave(c) == Settled(c) \/ "late" \in Env

(* A rebalance is bounded; that an evicted member is told so is not.       *)
SpendIfOwner(c) == IF owner = c THEN Spend ELSE UNCHANGED budget

(* on_partitions_revoked starts: the offsets are committed first.          *)
Revoke(c) ==
    /\ assigned[c] /\ Running(c) /\ CallbackMayRun(c) /\ MayLeave(c)
    /\ CommitOnRebalance /\ SpendIfOwner(c)
    /\ cb' = [cb EXCEPT ![c] = "commit"]
    /\ UNCHANGED <<tok, pend, lockFailed>>
    /\ UNCHANGED <<kafkaVars, kesselVars, mainVars, commitVars>>

LosePartition(c) ==
    /\ assigned' = [assigned EXCEPT ![c] = FALSE]
    /\ had' = [had EXCEPT ![c] = TRUE]
    /\ owner' = IF owner = c THEN NoConsumer ELSE owner
    /\ UNCHANGED <<log, committed>>

(* Whatever the commit returned, the token is dropped and the partition    *)
(* goes back to the group.                                                 *)
Release(c) ==
    /\ cb[c] = "release"
    /\ cb' = [cb EXCEPT ![c] = "idle"]
    /\ tok' = [tok EXCEPT ![c] = 0]
    /\ LosePartition(c)
    /\ UNCHANGED <<pend, lockFailed>>
    /\ UNCHANGED <<kesselVars, mainVars, commitVars, budget>>

(* With commit_on_rebalance off, or while shutting down, the callback      *)
(* returns first thing and the token stays.                                *)
RevokeSkips(c) ==
    /\ assigned[c] /\ CallbackMayRun(c) /\ MayLeave(c) /\ SpendIfOwner(c)
    /\ ~CommitOnRebalance \/ pc[c] = "closing"
    /\ LosePartition(c)
    /\ UNCHANGED <<kesselVars, mainVars, tokenVars, commitVars>>

(* The broker takes the partition away from a member it believes dead      *)
(* (session timeout, max.poll.interval); the process does not know yet.    *)
Evict(c) ==
    /\ owner = c /\ MayLeave(c) /\ Spend
    /\ owner' = NoConsumer
    /\ UNCHANGED <<log, committed, assigned, had>>
    /\ UNCHANGED <<kesselVars, mainVars, tokenVars, commitVars>>

(* The group gives the free partition to a member.                         *)
Join(c) ==
    /\ owner = NoConsumer /\ ~assigned[c] /\ Running(c) /\ CallbackMayRun(c)
    /\ "return" \in Env \/ ~had[c]
    /\ lock < MaxLock
    /\ owner' = c
    /\ assigned' = [assigned EXCEPT ![c] = TRUE]
    /\ UNCHANGED <<log, committed, had>>

(* The position starts at the committed offset.                            *)
ResetPosition(c) ==
    /\ pos' = [pos EXCEPT ![c] = committed]
    /\ done' = [done EXCEPT ![c] = committed]
    /\ UNCHANGED <<pc, cur, atk, dels, retries, first, paused, applied>>

(* on_partitions_assigned starts: a worker acquires the lock.              *)
Assign(c) ==
    /\ Join(c)
    /\ cb' = [cb EXCEPT ![c] = "acquire"]
    /\ UNCHANGED <<tok, pend, lockFailed>>
    /\ UNCHANGED <<kesselVars, mainVars, commitVars, budget>>

AssignQuietly(c) ==
    /\ "quiet" \in Env /\ Join(c) /\ ResetPosition(c)
    /\ UNCHANGED <<kesselVars, tokenVars, commitVars, budget>>

AcquireLock(c) ==
    /\ cb[c] = "acquire"
    /\ IssueToken(c)
    /\ pend' = [pend EXCEPT ![c] = lock']
    /\ cb' = [cb EXCEPT ![c] = "store"]
    /\ UNCHANGED <<store, tok, lockFailed>>
    /\ UNCHANGED <<kafkaVars, mainVars, commitVars, budget>>

(* The coroutine resumes and stores the token under the mutex.             *)
StoreToken(c) ==
    /\ cb[c] = "store"
    /\ tok' = [tok EXCEPT ![c] = pend[c]]
    /\ pend' = [pend EXCEPT ![c] = 0]
    /\ lockFailed' = [lockFailed EXCEPT ![c] = FALSE]
    /\ cb' = [cb EXCEPT ![c] = "idle"]
    /\ ResetPosition(c)
    /\ UNCHANGED <<kafkaVars, kesselVars, commitVars, budget>>

(* Every acquisition attempt failed (the last may have reached Kessel).    *)
AcquireLockFails(c) ==
    /\ cb[c] = "acquire" /\ Spend
    /\ IssueToken(NoConsumer) \/ UNCHANGED <<lock, holder>>
    /\ tok' = [tok EXCEPT ![c] = 0]
    /\ lockFailed' = [lockFailed EXCEPT ![c] = TRUE]
    /\ cb' = [cb EXCEPT ![c] = "idle"]
    /\ ResetPosition(c)
    /\ UNCHANGED <<store, pend>>
    /\ UNCHANGED <<kafkaVars, commitVars>>

-----------------------------------------------------------------------------
(* The end of a process.                                                   *)

(* SIGTERM: the handler runs stop_consuming in the main thread, wherever   *)
(* that thread is.                                                         *)
Sigterm(c) ==
    /\ Running(c) /\ Spend
    /\ pc' = [pc EXCEPT ![c] = "closing"]
    /\ copy' = [copy EXCEPT ![c]["main"] = 0]
    /\ cstep' = [cstep EXCEPT ![c]["main"] = "idle"]
    /\ UNCHANGED <<stored, pos, cur, atk, dels, retries, first, paused, done, applied>>
    /\ UNCHANGED <<kafkaVars, kesselVars, tokenVars>>

(* Nothing is committed after the retry limit, or with the option off.     *)
SkipFinalCommit(c) ==
    /\ pc[c] = "closing" /\ (paused[c] \/ ~CommitOnShutdown)
    /\ pc' = [pc EXCEPT ![c] = "closed"]
    /\ UNCHANGED <<pos, cur, atk, dels, retries, first, paused, done, applied>>
    /\ UNCHANGED <<kafkaVars, kesselVars, tokenVars, commitVars, budget>>

(* The process is gone and with it all it kept in memory; the group takes  *)
(* the partition back.                                                     *)
Gone(c) ==
    /\ pc' = [pc EXCEPT ![c] = "down"]
    /\ assigned' = [assigned EXCEPT ![c] = FALSE]
    /\ had' = [had EXCEPT ![c] = FALSE]
    /\ owner' = IF owner = c THEN NoConsumer ELSE owner
    /\ holder' = IF holder = c THEN NoConsumer ELSE holder
    /\ pos' = [pos EXCEPT ![c] = 0]
    /\ cur' = [cur EXCEPT ![c] = 0]
    /\ atk' = [atk EXCEPT ![c] = 0]
    /\ dels' = [dels EXCEPT ![c] = {}]
    /\ retries' = [retries EXCEPT ![c] = 0]
    /\ first' = [first EXCEPT ![c] = TRUE]
    /\ paused' = [paused EXCEPT ![c] = FALSE]
    /\ cb' = [cb EXCEPT ![c] = "idle"]
    /\ tok' = [tok EXCEPT ![c] = 0]
    /\ pend' = [pend EXCEPT ![c] = 0]
    /\ lockFailed' = [lockFailed EXCEPT ![c] = FALSE]
    /\ stored' = [stored EXCEPT ![c] = 0]
    /\ copy' = [copy EXCEPT ![c] = [th \in Threads |-> 0]]
    /\ cstep' = [cstep EXCEPT ![c] = [th \in Threads |-> "idle"]]
    /\ done' = [done EXCEPT ![c] = 0]
    /\ UNCHANGED <<log, committed, store, lock, applied>>

Close(c) == pc[c] = "closed" /\ Gone(c) /\ UNCHANGED budget

Crash(c) == pc[c] # "down" /\ Gone(c) /\ Spend

(* Kubernetes starts the pod again.                                        *)
Restart(c) ==
    /\ pc[c] = "down"
    /\ pc' = [pc EXCEPT ![c] = "poll"]
    /\ UNCHANGED <<pos, cur, atk, dels, retries, first, paused, done, applied>>
    /\ UNCHANGED <<kafkaVars, kesselVars, tokenVars, commitVars, budget>>

-----------------------------------------------------------------------------

(* Steps of the process itself and of the services it calls.               *)
Step(c) ==
    \/ Fetch(c) \/ EnsureLock(c) \/ BeginAttempt(c) \/ SendDelete(c) \/ SendAdd(c)
    \/ NoToken(c) \/ Fenced(c) \/ StoreOffset(c)
    \/ \E th \in Threads : \/ CommitCopy(c, th) \/ CommitUnassigned(c, th)
                           \/ CommitSend(c, th) \/ CommitRefused(c, th)
                           \/ CommitFinish(c, th)
    \/ Release(c) \/ AcquireLock(c) \/ StoreToken(c)
    \/ SkipFinalCommit(c) \/ Close(c) \/ Restart(c)

(* Failures of those services and of the process.                          *)
Fault(c) ==
    \/ EnsureLockFails(c) \/ RpcFails(c) \/ AcquireLockFails(c)
    \/ \E th \in Threads : CommitSendFails(c, th)
    \/ Evict(c) \/ Sigterm(c) \/ Crash(c)

(* What the consumer group decides.                                        *)
Rebalance(c) == Revoke(c) \/ RevokeSkips(c) \/ Assign(c) \/ AssignQuietly(c)

Next == Produce \/ \E c \in Consumers : Step(c) \/ Fault(c) \/ Rebalance(c)

Spec == Init /\ [][Next]_vars

(* Threads and services keep running, Kubernetes restarts the pod, and the *)
(* group assigns a free partition and tells an evicted member.             *)
Fairness ==
    \A c \in Consumers :
        /\ WF_vars(Step(c))
        /\ WF_vars(Assign(c))
        /\ WF_vars(owner # c /\ (Revoke(c) \/ RevokeSkips(c)))

FairSpec == Spec /\ Fairness

-----------------------------------------------------------------------------
(* Properties.                                                             *)

KafkaType ==
    /\ log \in Seq(Messages) /\ committed \in Nat
    /\ owner \in Consumers \cup {NoConsumer}
    /\ assigned \in [Consumers -> BOOLEAN] /\ had \in [Consumers -> BOOLEAN]

KesselType ==
    /\ store \subseteq Tuples /\ lock \in Nat
    /\ holder \in Consumers \cup {NoConsumer}

MainType ==
    /\ pc \in [Consumers -> MainStates]
    /\ pos \in [Consumers -> Nat] /\ cur \in [Consumers -> Nat]
    /\ atk \in [Consumers -> Nat] /\ dels \in [Consumers -> SUBSET Tuples]
    /\ retries \in [Consumers -> Nat]
    /\ first \in [Consumers -> BOOLEAN] /\ paused \in [Consumers -> BOOLEAN]
    /\ done \in [Consumers -> Nat] /\ applied \subseteq Nat

TokenType ==
    /\ cb \in [Consumers -> CallbackStates]
    /\ tok \in [Consumers -> Nat] /\ pend \in [Consumers -> Nat]
    /\ lockFailed \in [Consumers -> BOOLEAN]

CommitType ==
    /\ stored \in [Consumers -> Nat]
    /\ copy \in [Consumers -> [Threads -> Nat]]
    /\ cstep \in [Consumers -> [Threads -> {"idle", "copied", "ok", "failed"}]]

TypeOK ==
    /\ KafkaType /\ KesselType /\ MainType /\ TokenType /\ CommitType
    /\ budget \in 0..MaxFaults

(* No message is lost: every message below the committed offset, which no  *)
(* restart will deliver again, has been handled completely, whatever the   *)
(* batching of commits, the two committing threads, the failed commits and *)
(* the crashes in between.                                                 *)
AtLeastOnce == \A i \in 1..committed : i \in applied

(* The store converges: once the whole topic is committed, so that nothing *)
(* will be delivered again, Kessel holds exactly the tuples the messages   *)
(* describe in order, whatever redeliveries, half-applied attempts and     *)
(* fenced writers there were on the way.                                   *)
Converged == committed = Len(log) => store = Replay(log, Len(log))

(* Fencing: two processes never both have calls under way that Kessel      *)
(* accepts.                                                                *)
OneWriter ==
    \A c, d \in Consumers :
        pc[c] = "write" /\ pc[d] = "write" /\ Accepted(c) /\ Accepted(d) => c = d

(* The consumers implement the abstract pipeline: messages are first       *)
(* handled in the order of the topic and the committed offset follows      *)
(* them, through every crash, redelivery and rebalance.                    *)
Pipeline == INSTANCE ReplicationPipeline WITH handled <- applied

ImplementsPipeline == Pipeline!PipelineSpec

(* Every message is eventually handled, although consumers crash, stop     *)
(* after too many retries, or are fenced and evicted, as long as the log   *)
(* has no message that stops every consumer.                               *)
EveryMessageHandled ==
    \A i \in 1..MaxLog : (i <= Len(log)) ~> (i \in applied)

-----------------------------------------------------------------------------
(* Inductive invariants.                                                   *)

(* The message being processed is a message of the topic.                  *)
CursorInv ==
    \A c \in Consumers :
        pc[c] \in {"ensure", "attempt", "write"} => cur[c] \in 1..Len(log)

TypeInv == TypeOK /\ CursorInv

(* Tokens: none is newer than the one Kessel issued last, and only the     *)
(* process that acquired that one holds, carries or awaits it.             *)
TokenInv ==
    \A c \in Consumers :
        /\ tok[c] <= lock /\ (tok[c] = lock /\ lock # 0 => holder = c)
        /\ atk[c] <= lock /\ (atk[c] = lock /\ lock # 0 => holder = c)
        /\ pend[c] <= lock /\ (pend[c] = lock /\ lock # 0 => holder = c)
        /\ pc[c] = "write" => atk[c] # 0

(* The first n messages are all in S.                                      *)
Handled(S, n) == 1..n \subseteq S

(* Offsets are stored and committed, by either thread, for handled         *)
(* messages only.                                                          *)
OffsetsInv ==
    /\ Handled(applied, committed)
    /\ \A c \in Consumers :
        /\ Handled(applied, stored[c])
        /\ \A th \in Threads : Handled(applied, copy[c][th])

(* Delivery is in order: all but the message being processed is handled.   *)
Delivered(c) ==
    /\ pc[c] \in {"poll", "commit", "down"} => Handled(applied, pos[c])
    /\ pc[c] = "store" => Handled(applied, pos[c]) /\ Handled(applied, cur[c])
    /\ pc[c] \in {"ensure", "attempt", "write"} =>
          Handled(applied, cur[c] - 1) /\ Handled(applied \cup {cur[c]}, pos[c])

DeliveryInv == \A c \in Consumers : Delivered(c)

NoOffsets(c) == stored[c] = 0 /\ \A th \in Threads : copy[c][th] = 0

Acquiring(c) == cb[c] \in {"acquire", "store"}

(* A process that has not had the partition yet carries nothing over.      *)
Unused(c) ==
    /\ tok[c] = 0 /\ NoOffsets(c) /\ first[c] /\ holder # c /\ cb[c] = "idle"
    /\ pc[c] \in {"poll", "closing", "closed", "down"}

(* Who owns the partition has the newest token, or is on the way to it and *)
(* has nothing to commit.                                                  *)
OwnerPart(c) ==
    /\ owner = c => assigned[c]
    /\ assigned[c] /\ owner # c => tok[c] # 0 \/ lockFailed[c]
    /\ \A th \in Threads : cstep[c][th] # "idle" => copy[c][th] # 0
    /\ pc[c] = "down" => ~had[c] /\ ~assigned[c]
    /\ ~had[c] /\ ~assigned[c] => Unused(c)
    /\ Acquiring(c) => owner = c /\ tok[c] = 0
    /\ cb[c] = "store" => pend[c] = lock /\ lock # 0 /\ holder = c
    /\ pc[c] = "ensure" => owner = c /\ tok[c] = 0 /\ ~lockFailed[c] /\ cb[c] = "idle"
    /\ owner = c /\ tok[c] # 0 => tok[c] = lock
    /\ owner = c /\ tok[c] = 0 =>
          /\ NoOffsets(c)
          /\ pc[c] \in {"poll", "ensure", "closing", "closed"}
          /\ first[c] \/ lockFailed[c]
          /\ cb[c] # "store" => holder # c
          /\ ~Acquiring(c) /\ ~lockFailed[c] => done[c] = committed

OwnerInv == \A c \in Consumers : OwnerPart(c)

(* Each process walks the log without gaps from where it started.          *)
PositionPart(c) ==
    /\ done[c] <= Len(log)
    /\ stored[c] <= done[c] /\ \A th \in Threads : copy[c][th] <= done[c]
    /\ pc[c] \in {"poll", "commit", "down"} => pos[c] = done[c]
    /\ pc[c] = "store" => pos[c] = done[c] /\ cur[c] = done[c]
    /\ pc[c] \in {"ensure", "attempt", "write"} =>
          pos[c] = cur[c] /\ cur[c] = done[c] + 1 /\ cur[c] <= Len(log)

PositionInv == \A c \in Consumers : PositionPart(c)

(* The prefix of the log that the writer with the newest token has         *)
(* applied; without such a writer, the prefix the next one will not get.   *)
Floor ==
    IF holder = NoConsumer \/ cb[holder] = "store" THEN committed ELSE done[holder]

(* Every tuple of S is as some prefix of L from n on leaves it, or is gone *)
(* because of a delete after n, which will be delivered again.             *)
Explained(L, S, n) ==
    \A t \in Tuples :
        \/ \E i \in n..Len(L) : t \in S <=> Present(L, i, t)
        \/ t \notin S /\ \E j \in (n + 1)..Len(L) : t \in L[j].remove

StoreInv == committed <= Floor /\ Floor <= Len(log) /\ Explained(log, store, Floor)

(* The deletes the accepted attempt has sent have taken effect.            *)
AttemptPart(c) ==
    pc[c] = "write" /\ Accepted(c) =>
        /\ dels[c] \subseteq log[cur[c]].remove
        /\ \A t \in log[cur[c]].remove \ dels[c] : t \notin store

AttemptInv == \A c \in Consumers : AttemptPart(c)

(* Why the store converges: the conjunction is inductive in a calm group.  *)
ConvergenceInv ==
    TypeInv /\ TokenInv /\ OwnerInv /\ PositionInv /\ StoreInv /\ AttemptInv
=============================================================================
