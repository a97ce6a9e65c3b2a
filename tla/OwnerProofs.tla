---------------------------- MODULE OwnerProofs ------------------------------
(***************************************************************************)
(* Who owns the partition has the newest token or nothing to commit.       *)
(*                                                                         *)
(* An action of one process leaves the memory of the others alone          *)
(* (Locality), and hands shared state over one process at a time (Alone).  *)
(* The invariant is then one lemma on the acting process (OwnerSelf), with *)
(* one step per action, and one on the others (OwnerOther).                *)
(***************************************************************************)
EXTENDS ConsumerTypeProofs

ProcessStep(c) == Step(c) \/ Fault(c) \/ Rebalance(c)

(* A step leaves the process d alone.                                      *)
SameProcess(d) ==
    /\ pc'[d] = pc[d] /\ assigned'[d] = assigned[d] /\ had'[d] = had[d]
    /\ pos'[d] = pos[d] /\ cur'[d] = cur[d] /\ atk'[d] = atk[d] /\ dels'[d] = dels[d]
    /\ first'[d] = first[d] /\ done'[d] = done[d]
    /\ cb'[d] = cb[d] /\ tok'[d] = tok[d] /\ pend'[d] = pend[d]
    /\ lockFailed'[d] = lockFailed[d]
    /\ stored'[d] = stored[d] /\ copy'[d] = copy[d] /\ cstep'[d] = cstep[d]

(* What a step of c does to the state all processes share: only the owner  *)
(* moves the committed offset or obtains a token.                          *)
Alone(c) ==
    /\ \A d \in Consumers \ {c} : (owner' = d <=> owner = d) /\ (holder' = d => holder = d)
    /\ owner # c => lock' = lock /\ committed' = committed
    /\ owner # c => \A d \in Consumers \ {c} : holder' = d <=> holder = d

(* A step of one process does not touch the memory of another.             *)
LEMMA Locality ==
    ASSUME TypeInv, NEW c \in Consumers, ProcessStep(c)
    PROVE  \A d \in Consumers \ {c} : SameProcess(d)
<1> USE DEF TypeInv, TypeOK, KafkaType, KesselType, MainType, TokenType, CommitType, SameProcess
<1>1. CASE Fetch(c)
  <2>1. \A d \in Consumers \ {c} : pos'[d] = pos[d] /\ cur'[d] = cur[d]
    BY <1>1 DEF Fetch
  <2>2. \A d \in Consumers \ {c} : /\ pc'[d] = pc[d] /\ first'[d] = first[d]
                                  /\ done'[d] = done[d]
    BY <1>1, ZenonT(30) DEF Fetch, EnterMessage, HandledBy
  <2> QED BY <1>1, <2>1, <2>2 DEF Fetch, kafkaVars, kesselVars, mainVars, tokenVars, commitVars
<1>2. CASE EnsureLock(c)
  BY <1>2, ZenonT(30) DEF EnsureLock, EnterMessage, HandledBy, kafkaVars, kesselVars,
     mainVars, tokenVars, commitVars
<1>3. CASE EnsureLockFails(c)
  BY <1>3 DEF EnsureLockFails, kafkaVars, kesselVars, mainVars, tokenVars,
     commitVars
<1>4. CASE BeginAttempt(c)
  BY <1>4 DEF BeginAttempt, kafkaVars, kesselVars, mainVars, tokenVars,
     commitVars
<1>5. CASE SendDelete(c)
  BY <1>5 DEF SendDelete, kafkaVars, kesselVars, mainVars, tokenVars,
     commitVars
<1>6. CASE SendAdd(c)
  BY <1>6 DEF SendAdd, HandledBy, kafkaVars, kesselVars, mainVars, tokenVars,
     commitVars
<1>7. CASE NoToken(c)
  BY <1>7, SMTT(30), SMTT(40) DEF NoToken, AttemptFails, kafkaVars, kesselVars, mainVars,
     tokenVars, commitVars
<1>8. CASE Fenced(c)
  BY <1>8, ZenonT(30) DEF Fenced, AttemptFails, kafkaVars, kesselVars, mainVars,
     tokenVars, commitVars
<1>9. CASE RpcFails(c)
  BY <1>9, ZenonT(30) DEF RpcFails, AttemptFails, kafkaVars, kesselVars, mainVars,
     tokenVars, commitVars
<1>10. CASE StoreOffset(c)
  BY <1>10 DEF StoreOffset, kafkaVars, kesselVars, mainVars, tokenVars,
     commitVars
<1>11. CASE Revoke(c)
  BY <1>11 DEF Revoke, kafkaVars, kesselVars, mainVars, tokenVars, commitVars
<1>12. CASE Release(c)
  BY <1>12 DEF Release, LosePartition, kafkaVars, kesselVars, mainVars,
     tokenVars, commitVars
<1>13. CASE RevokeSkips(c)
  BY <1>13 DEF RevokeSkips, LosePartition, kafkaVars, kesselVars, mainVars,
     tokenVars, commitVars
<1>14. CASE Evict(c)
  BY <1>14 DEF Evict, kafkaVars, kesselVars, mainVars, tokenVars, commitVars
<1>15. CASE Assign(c)
  BY <1>15 DEF Assign, Join, kafkaVars, kesselVars, mainVars, tokenVars,
     commitVars
<1>16. CASE AssignQuietly(c)
  BY <1>16 DEF AssignQuietly, Join, ResetPosition, kafkaVars, kesselVars,
     mainVars, tokenVars, commitVars
<1>17. CASE AcquireLock(c)
  BY <1>17 DEF AcquireLock, kafkaVars, kesselVars, mainVars, tokenVars,
     commitVars
<1>18. CASE StoreToken(c)
  BY <1>18 DEF StoreToken, ResetPosition, kafkaVars, kesselVars, mainVars,
     tokenVars, commitVars
<1>19. CASE AcquireLockFails(c)
  BY <1>19 DEF AcquireLockFails, ResetPosition, kafkaVars, kesselVars,
     mainVars, tokenVars, commitVars
<1>20. CASE Sigterm(c)
  BY <1>20 DEF Sigterm, kafkaVars, kesselVars, mainVars, tokenVars, commitVars
<1>21. CASE SkipFinalCommit(c)
  BY <1>21 DEF SkipFinalCommit, kafkaVars, kesselVars, mainVars, tokenVars,
     commitVars
<1>22. CASE Close(c)
  BY <1>22 DEF Close, Gone, kafkaVars, kesselVars, mainVars, tokenVars,
     commitVars
<1>23. CASE Crash(c)
  BY <1>23 DEF Crash, Gone, kafkaVars, kesselVars, mainVars, tokenVars,
     commitVars
<1>24. CASE Restart(c)
  BY <1>24 DEF Restart, kafkaVars, kesselVars, mainVars, tokenVars, commitVars
<1>25. ASSUME NEW th \in Threads, CommitCopy(c, th) PROVE \A d \in Consumers \ {c} : SameProcess(d)
  BY <1>25, ZenonT(30) DEF CommitCopy, CommitFrame, CommitReturns, kafkaVars, kesselVars,
     mainVars, tokenVars, commitVars
<1>26. ASSUME NEW th \in Threads, CommitUnassigned(c, th) PROVE \A d \in Consumers \ {c} : SameProcess(d)
  BY <1>26, ZenonT(30) DEF CommitUnassigned, CommitFrame, CommitReturns, kafkaVars,
     kesselVars, mainVars, tokenVars, commitVars
<1>27. ASSUME NEW th \in Threads, CommitSend(c, th) PROVE \A d \in Consumers \ {c} : SameProcess(d)
  BY <1>27 DEF CommitSend, CommitFrame, kafkaVars, kesselVars, mainVars,
     tokenVars, commitVars
<1>28. ASSUME NEW th \in Threads, CommitRefused(c, th) PROVE \A d \in Consumers \ {c} : SameProcess(d)
  BY <1>28 DEF CommitRefused, CommitFrame, kafkaVars, kesselVars, mainVars,
     tokenVars, commitVars
<1>29. ASSUME NEW th \in Threads, CommitSendFails(c, th) PROVE \A d \in Consumers \ {c} : SameProcess(d)
  BY <1>29 DEF CommitSendFails, CommitFrame, kafkaVars, kesselVars, mainVars,
     tokenVars, commitVars
<1>30. ASSUME NEW th \in Threads, CommitFinish(c, th) PROVE \A d \in Consumers \ {c} : SameProcess(d)
  BY <1>30, ZenonT(30) DEF CommitFinish, CommitFrame, CommitReturns, kafkaVars,
     kesselVars, mainVars, tokenVars, commitVars
<1> HIDE DEF TypeInv, TypeOK, KafkaType, KesselType, MainType, TokenType, CommitType, SameProcess
<1> QED BY <1>1, <1>2, <1>3, <1>4, <1>5, <1>6, <1>7, <1>8, <1>9, <1>10, <1>11,
    <1>12, <1>13, <1>14, <1>15, <1>16, <1>17, <1>18, <1>19, <1>20, <1>21,
    <1>22, <1>23, <1>24, <1>25, <1>26, <1>27, <1>28, <1>29, <1>30, ZenonT(30) DEF
    ProcessStep, Step, Fault, Rebalance

(* Shared state changes hands one process at a time.                       *)
LEMMA SharedState ==
    ASSUME TypeInv, OwnerInv, NEW c \in Consumers, ProcessStep(c)
    PROVE  Alone(c)
<1>o. OwnerPart(c)
    BY SMTT(30), SMTT(40) DEF OwnerInv
<1> USE <1>o DEF Alone, OwnerPart, Acquiring
<1>1. CASE Fetch(c)
  BY <1>1, ConsumerAssumption DEF Fetch, kafkaVars, kesselVars, mainVars,
     tokenVars, commitVars
<1>2. CASE EnsureLock(c)
  BY <1>2, ConsumerAssumption, SMTT(30), SMTT(40) DEF EnsureLock, IssueToken, kafkaVars,
     kesselVars, mainVars, tokenVars, commitVars
<1>3. CASE EnsureLockFails(c)
  BY <1>3, ConsumerAssumption DEF EnsureLockFails, IssueToken, kafkaVars,
     kesselVars, mainVars, tokenVars, commitVars
<1>4. CASE BeginAttempt(c)
  BY <1>4, ConsumerAssumption, SMTT(30), SMTT(40) DEF BeginAttempt, kafkaVars, kesselVars,
     mainVars, tokenVars, commitVars
<1>5. CASE SendDelete(c)
  BY <1>5, ConsumerAssumption, SMTT(30) DEF SendDelete, kafkaVars, kesselVars, mainVars,
     tokenVars, commitVars
<1>6. CASE SendAdd(c)
  BY <1>6, ConsumerAssumption, SMTT(30), SMTT(40) DEF SendAdd, kafkaVars, kesselVars, mainVars,
     tokenVars, commitVars
<1>7. CASE NoToken(c)
  BY <1>7, ConsumerAssumption DEF NoToken, AttemptFails, kafkaVars,
     kesselVars, mainVars, tokenVars, commitVars
<1>8. CASE Fenced(c)
  BY <1>8, ConsumerAssumption, SMTT(30), SMTT(40)
     DEF Fenced, AttemptFails, kafkaVars, kesselVars,
     mainVars, tokenVars, commitVars
<1>9. CASE RpcFails(c)
  BY <1>9, ConsumerAssumption, SMTT(30), SMTT(40) DEF RpcFails, AttemptFails, kafkaVars,
     kesselVars, mainVars, tokenVars, commitVars
<1>10. CASE StoreOffset(c)
  BY <1>10, ConsumerAssumption, SMTT(30), SMTT(40) DEF StoreOffset, kafkaVars, kesselVars,
     mainVars, tokenVars, commitVars
<1>11. CASE Revoke(c)
  BY <1>11, ConsumerAssumption, SMTT(30), SMTT(40) DEF Revoke, kafkaVars, kesselVars, mainVars,
     tokenVars, commitVars
<1>12. CASE Release(c)
  BY <1>12, ConsumerAssumption, SMTT(30), SMTT(40) DEF Release, LosePartition, kafkaVars,
     kesselVars, mainVars, tokenVars, commitVars
<1>13. CASE RevokeSkips(c)
  BY <1>13, ConsumerAssumption, SMTT(30), SMTT(40) DEF RevokeSkips, LosePartition, kafkaVars,
     kesselVars, mainVars, tokenVars, commitVars
<1>14. CASE Evict(c)
  BY <1>14, ConsumerAssumption, SMTT(30), SMTT(40) DEF Evict, kafkaVars, kesselVars, mainVars,
     tokenVars, commitVars
<1>15. CASE Assign(c)
  BY <1>15, ConsumerAssumption, SMTT(30), SMTT(40) DEF Assign, Join, kafkaVars, kesselVars,
     mainVars, tokenVars, commitVars
<1>16. CASE AssignQuietly(c)
  BY <1>16, ConsumerAssumption, SMTT(30), SMTT(40)
     DEF AssignQuietly, Join, kafkaVars, kesselVars,
     mainVars, tokenVars, commitVars
<1>17. CASE AcquireLock(c)
  BY <1>17, ConsumerAssumption DEF AcquireLock, IssueToken, kafkaVars,
     kesselVars, mainVars, tokenVars, commitVars
<1>18. CASE StoreToken(c)
  BY <1>18, ConsumerAssumption DEF StoreToken, kafkaVars, kesselVars,
     mainVars, tokenVars, commitVars
<1>19. CASE AcquireLockFails(c)
  BY <1>19, ConsumerAssumption DEF AcquireLockFails, IssueToken, kafkaVars,
     kesselVars, mainVars, tokenVars, commitVars
<1>20. CASE Sigterm(c)
  BY <1>20, ConsumerAssumption, SMTT(30), SMTT(40) DEF Sigterm, kafkaVars, kesselVars, mainVars,
     tokenVars, commitVars
<1>21. CASE SkipFinalCommit(c)
  BY <1>21, ConsumerAssumption DEF SkipFinalCommit, kafkaVars, kesselVars,
     mainVars, tokenVars, commitVars
<1>22. CASE Close(c)
  BY <1>22, ConsumerAssumption DEF Close, Gone, kafkaVars, kesselVars,
     mainVars, tokenVars, commitVars
<1>23. CASE Crash(c)
  BY <1>23, ConsumerAssumption, SMTT(30), SMTT(40) DEF Crash, Gone, kafkaVars, kesselVars,
     mainVars, tokenVars, commitVars
<1>24. CASE Restart(c)
  BY <1>24, ConsumerAssumption, SMTT(30) DEF Restart, kafkaVars, kesselVars, mainVars,
     tokenVars, commitVars
<1>25. ASSUME NEW th \in Threads, CommitCopy(c, th) PROVE Alone(c)
  BY <1>25, ConsumerAssumption, SMTT(30), SMTT(40) DEF CommitCopy, CommitFrame, CommitReturns,
     kafkaVars, kesselVars, mainVars, tokenVars, commitVars
<1>26. ASSUME NEW th \in Threads, CommitUnassigned(c, th) PROVE Alone(c)
  BY <1>26, ConsumerAssumption, SMTT(30), SMTT(40) DEF CommitUnassigned, CommitFrame,
     CommitReturns, kafkaVars, kesselVars, mainVars, tokenVars, commitVars
<1>27. ASSUME NEW th \in Threads, CommitSend(c, th) PROVE Alone(c)
  BY <1>27, ConsumerAssumption, SMTT(30), SMTT(40) DEF CommitSend, CommitFrame, kafkaVars,
     kesselVars, mainVars, tokenVars, commitVars
<1>28. ASSUME NEW th \in Threads, CommitRefused(c, th) PROVE Alone(c)
  BY <1>28, ConsumerAssumption, SMTT(30), SMTT(40) DEF CommitRefused, CommitFrame, kafkaVars,
     kesselVars, mainVars, tokenVars, commitVars
<1>29. ASSUME NEW th \in Threads, CommitSendFails(c, th) PROVE Alone(c)
  BY <1>29, ConsumerAssumption, SMTT(30), SMTT(40) DEF CommitSendFails, CommitFrame, kafkaVars,
     kesselVars, mainVars, tokenVars, commitVars
<1>30. ASSUME NEW th \in Threads, CommitFinish(c, th) PROVE Alone(c)
  BY <1>30, ConsumerAssumption, SMTT(30), SMTT(40) DEF CommitFinish, CommitFrame, CommitReturns,
     kafkaVars, kesselVars, mainVars, tokenVars, commitVars
<1> HIDE <1>o DEF Alone, OwnerPart, Acquiring
<1> QED BY <1>1, <1>2, <1>3, <1>4, <1>5, <1>6, <1>7, <1>8, <1>9, <1>10, <1>11,
    <1>12, <1>13, <1>14, <1>15, <1>16, <1>17, <1>18, <1>19, <1>20, <1>21,
    <1>22, <1>23, <1>24, <1>25, <1>26, <1>27, <1>28, <1>29, <1>30, ZenonT(30) DEF
    ProcessStep, Step, Fault, Rebalance

(* Steps of other processes leave an owner's claim alone.                  *)
LEMMA OwnerOther ==
    ASSUME TypeInv, OwnerInv, NEW c \in Consumers, Alone(c),
           NEW d \in Consumers \ {c}, SameProcess(d)
    PROVE  OwnerPart(d)'
<1>1. OwnerPart(d)
    BY SMTT(30) DEF OwnerInv
<1>2. NoOffsets(d)' <=> NoOffsets(d)
    BY ZenonT(30) DEF NoOffsets, SameProcess
<1>3. Unused(d) => Unused(d)'
    BY <1>2, ZenonT(30) DEF Unused, SameProcess, Alone
<1>4. owner = d => lock' = lock /\ committed' = committed /\ (holder' = d <=> holder = d)
    BY ZenonT(30) DEF Alone
<1>5. Acquiring(d)' <=> Acquiring(d)
    BY ZenonT(30) DEF Acquiring, SameProcess
<1>6. (owner' = d <=> owner = d) /\ (holder' = d => holder = d)
    BY SMTT(30), SMTT(40) DEF Alone
<1>7. cb[d] = "store" => owner = d
    BY <1>1 DEF OwnerPart, Acquiring
<1> QED
    BY <1>1, <1>2, <1>3, <1>4, <1>5, <1>6, <1>7 DEF OwnerPart, SameProcess

(* A step of a process keeps its own claim in order.                       *)
LEMMA OwnerSelf ==
    ASSUME Calm, TypeInv, TokenInv, OwnerInv, NEW c \in Consumers, ProcessStep(c)
    PROVE  OwnerPart(c)'
<1>m. MainType
    BY DEF TypeInv, TypeOK
<1>t. /\ pc \in [Consumers -> MainStates] /\ done \in [Consumers -> Nat]
      /\ first \in [Consumers -> BOOLEAN]
      /\ cb \in [Consumers -> CallbackStates] /\ tok \in [Consumers -> Nat]
      /\ pend \in [Consumers -> Nat] /\ lockFailed \in [Consumers -> BOOLEAN]
      /\ stored \in [Consumers -> Nat] /\ copy \in [Consumers -> [Threads -> Nat]]
      /\ cstep \in [Consumers -> [Threads -> {"idle", "copied", "ok", "failed"}]]
      /\ assigned \in [Consumers -> BOOLEAN] /\ had \in [Consumers -> BOOLEAN]
      /\ committed \in Nat /\ lock \in Nat
    BY ZenonT(30) DEF TypeInv, TypeOK, KafkaType, KesselType, MainType, TokenType, CommitType
<1>o. OwnerPart(c)
    BY SMTT(30), SMTT(40) DEF OwnerInv
<1> USE <1>t, <1>o
<1>1. CASE Fetch(c)
  <2>1. /\ pc[c] = "poll" /\ assigned[c] /\ cb[c] = "idle"
        /\ \/ /\ lockFailed[c] /\ pc'[c] = "closing" /\ first'[c] = first[c]
              /\ done'[c] = done[c]
           \/ /\ ~lockFailed[c] /\ first[c] /\ tok[c] = 0 /\ pc'[c] = "ensure"
              /\ first'[c] = first[c] /\ done'[c] = done[c]
           \/ ~lockFailed[c] /\ ~(first[c] /\ tok[c] = 0) /\ pc'[c] # "ensure" /\ pc'[c] # "down"
        /\ UNCHANGED <<owner, committed, assigned, had, lock, holder>>
        /\ UNCHANGED <<cb, tok, pend, lockFailed, stored, copy, cstep>>
    BY <1>1, ConsumerAssumption, SMTT(30), SMTT(40)
       DEF Fetch, EnterMessage, Dispatch, kafkaVars,
       kesselVars, mainVars, tokenVars, commitVars
  <2>2. NoOffsets(c)' <=> NoOffsets(c)
    BY <2>1, SMTT(30), SMTT(40) DEF NoOffsets
  <2> HIDE <1>t
  <2> QED BY <2>1, <2>2, ConsumerAssumption, SMTT(30), SMTT(40) DEF OwnerPart, Acquiring, Unused
<1>2. CASE EnsureLock(c)
  BY <1>2, ConsumerAssumption, SMTT(30) DEF EnsureLock, EnterMessage, Dispatch,
     HandledBy, IssueToken, OwnerPart, NoOffsets, Acquiring, Unused, Calm,
     TokenInv, Threads, kafkaVars, kesselVars, mainVars, tokenVars, commitVars
<1>3. CASE EnsureLockFails(c)
  <2>1. /\ pc[c] = "ensure" /\ pc'[c] = "closing"
        /\ holder' \in {holder, NoConsumer} /\ UNCHANGED <<owner, committed, assigned, had>>
        /\ UNCHANGED <<first, done, cb, tok, pend, lockFailed, stored, copy, cstep>>
    BY <1>3, ConsumerAssumption DEF EnsureLockFails, IssueToken, kafkaVars,
       kesselVars, mainVars, tokenVars, commitVars
  <2>2. NoOffsets(c)' <=> NoOffsets(c)
    BY <2>1, SMTT(30) DEF NoOffsets
  <2> HIDE <1>t
  <2> QED BY <2>1, <2>2, ConsumerAssumption, ZenonT(30) DEF OwnerPart, Acquiring, Unused
<1>4. CASE BeginAttempt(c)
  BY <1>4, ConsumerAssumption, ZenonT(30) DEF BeginAttempt, OwnerPart, NoOffsets,
     Acquiring, Unused, Calm, TokenInv, Threads, kafkaVars, kesselVars,
     mainVars, tokenVars, commitVars
<1>5. CASE SendDelete(c)
  BY <1>5, ConsumerAssumption, ZenonT(30) DEF SendDelete, OwnerPart, NoOffsets, Acquiring,
     Unused, Calm, TokenInv, Threads, kafkaVars, kesselVars, mainVars,
     tokenVars, commitVars
<1>6. CASE SendAdd(c)
  BY <1>6, ConsumerAssumption, ZenonT(30) DEF SendAdd, HandledBy, OwnerPart, NoOffsets,
     Acquiring, Unused, Calm, TokenInv, Threads, kafkaVars, kesselVars,
     mainVars, tokenVars, commitVars
<1>7. CASE NoToken(c)
  <2>1. /\ pc[c] = "attempt" /\ pc'[c] \in {"attempt", "closing"}
        /\ UNCHANGED <<owner, committed, assigned, had, lock, holder>>
        /\ UNCHANGED <<first, done, cb, tok, pend, lockFailed, stored, copy, cstep>>
    BY <1>7, ConsumerAssumption, <1>m, AttemptFailsEffect, ZenonT(30) DEF NoToken, kafkaVars,
       tokenVars, commitVars
  <2>2. NoOffsets(c)' <=> NoOffsets(c)
    BY <2>1, SMTT(30) DEF NoOffsets
  <2> HIDE <1>t
  <2> QED BY <2>1, <2>2, ConsumerAssumption, ZenonT(30) DEF OwnerPart, Acquiring, Unused
<1>8. CASE Fenced(c)
  <2>1. /\ pc[c] = "write" /\ pc'[c] \in {"attempt", "closing"}
        /\ UNCHANGED <<owner, committed, assigned, had, lock, holder>>
        /\ UNCHANGED <<first, done, cb, tok, pend, lockFailed, stored, copy, cstep>>
    BY <1>8, ConsumerAssumption, <1>m, AttemptFailsEffect, ZenonT(30) DEF Fenced, kafkaVars,
       tokenVars, commitVars
  <2>2. NoOffsets(c)' <=> NoOffsets(c)
    BY <2>1, SMTT(30), SMTT(40) DEF NoOffsets
  <2> HIDE <1>t
  <2> QED BY <2>1, <2>2, ConsumerAssumption, ZenonT(30) DEF OwnerPart, Acquiring, Unused
<1>9. CASE RpcFails(c)
  <2>1. /\ pc[c] = "write" /\ pc'[c] \in {"attempt", "closing"}
        /\ UNCHANGED <<owner, committed, assigned, had, lock, holder>>
        /\ UNCHANGED <<first, done, cb, tok, pend, lockFailed, stored, copy, cstep>>
    BY <1>9, ConsumerAssumption, <1>m, AttemptFailsEffect, SMTT(30) DEF RpcFails, kafkaVars,
       tokenVars, commitVars
  <2>2. NoOffsets(c)' <=> NoOffsets(c)
    BY <2>1 DEF NoOffsets
  <2> HIDE <1>t
  <2> QED BY <2>1, <2>2, ConsumerAssumption, SMTT(30), SMTT(40) DEF OwnerPart, Acquiring, Unused
<1>10. CASE StoreOffset(c)
  BY <1>10, ConsumerAssumption, ZenonT(30) DEF StoreOffset, OwnerPart, NoOffsets,
     Acquiring, Unused, Calm, TokenInv, Threads, kafkaVars, kesselVars,
     mainVars, tokenVars, commitVars
<1>11. CASE Revoke(c)
  BY <1>11, ConsumerAssumption, ZenonT(30) DEF Revoke, Spend, SpendIfOwner,
     CallbackMayRun, MayLeave, Settled, OwnerPart, NoOffsets, Acquiring,
     Unused, Calm, TokenInv, Threads, kafkaVars, kesselVars, mainVars,
     tokenVars, commitVars
<1>12. CASE Release(c)
  BY <1>12, ConsumerAssumption, SMTT(30), SMTT(40) DEF Release, LosePartition, OwnerPart,
     NoOffsets, Acquiring, Unused, Calm, TokenInv, Threads, kafkaVars,
     kesselVars, mainVars, tokenVars, commitVars
<1>13. CASE RevokeSkips(c)
  BY <1>13, ConsumerAssumption, SMTT(30) DEF RevokeSkips, Spend, SpendIfOwner,
     LosePartition, CallbackMayRun, MayLeave, Settled, OwnerPart, NoOffsets,
     Acquiring, Unused, Calm, TokenInv, Threads, kafkaVars, kesselVars,
     mainVars, tokenVars, commitVars
<1>14. CASE Evict(c)
  BY <1>14, ConsumerAssumption, ZenonT(30) DEF Evict, Spend, MayLeave, Settled, OwnerPart,
     NoOffsets, Acquiring, Unused, Calm, TokenInv, Threads, kafkaVars,
     kesselVars, mainVars, tokenVars, commitVars
<1>15. CASE Assign(c)
  BY <1>15, ConsumerAssumption, SMTT(30), SMTT(40) DEF Assign, Join, CallbackMayRun, Running,
     OwnerPart, NoOffsets, Acquiring, Unused, Calm, TokenInv, Threads,
     kafkaVars, kesselVars, mainVars, tokenVars, commitVars
<1>16. CASE AssignQuietly(c)
  BY <1>16, ConsumerAssumption, SMTT(30), SMTT(40) DEF AssignQuietly, Join, ResetPosition,
     CallbackMayRun, Running, OwnerPart, NoOffsets, Acquiring, Unused, Calm,
     TokenInv, Threads, kafkaVars, kesselVars, mainVars, tokenVars, commitVars
<1>17. CASE AcquireLock(c)
  BY <1>17, ConsumerAssumption, SMTT(30), SMTT(40) DEF AcquireLock, IssueToken, OwnerPart,
     NoOffsets, Acquiring, Unused, Calm, TokenInv, Threads, kafkaVars,
     kesselVars, mainVars, tokenVars, commitVars
<1>18. CASE StoreToken(c)
  BY <1>18, ConsumerAssumption, SMTT(30) DEF StoreToken, ResetPosition, OwnerPart,
     NoOffsets, Acquiring, Unused, Calm, TokenInv, Threads, kafkaVars,
     kesselVars, mainVars, tokenVars, commitVars
<1>19. CASE AcquireLockFails(c)
  <2>1. /\ cb[c] = "acquire" /\ cb'[c] = "idle" /\ tok'[c] = 0 /\ lockFailed'[c] = TRUE
        /\ holder' \in {holder, NoConsumer}
        /\ UNCHANGED <<owner, committed, assigned, had, pc, first, pend, stored, copy, cstep>>
    BY <1>19, ConsumerAssumption, SMTT(30) DEF AcquireLockFails, IssueToken,
       ResetPosition, kafkaVars, commitVars
  <2>2. NoOffsets(c)' <=> NoOffsets(c)
    BY <2>1, ZenonT(30) DEF NoOffsets
  <2> HIDE <1>t
  <2> QED BY <2>1, <2>2, ConsumerAssumption, ZenonT(30) DEF OwnerPart, Acquiring, Unused
<1>20. CASE Sigterm(c)
  <2>1. /\ pc[c] \notin {"closing", "closed", "down"} /\ pc'[c] = "closing"
        /\ stored' = stored
        /\ copy'[c] = [copy[c] EXCEPT !["main"] = 0]
        /\ cstep'[c] = [cstep[c] EXCEPT !["main"] = "idle"]
        /\ UNCHANGED <<owner, committed, assigned, had, lock, holder>>
        /\ UNCHANGED <<first, done, cb, tok, pend, lockFailed>>
    BY <1>20 DEF Sigterm, Running, kafkaVars, kesselVars, tokenVars
  <2>2. copy[c] \in [Threads -> Nat] /\ cstep[c] \in [Threads -> {"idle", "copied", "ok", "failed"}]
    BY ZenonT(30)
  <2>3. NoOffsets(c) => NoOffsets(c)'
    BY <2>1, <2>2 DEF NoOffsets, Threads
  <2>4. \A th \in Threads : cstep'[c][th] # "idle" => copy'[c][th] # 0
    <3>1. \A x \in Threads : cstep[c][x] # "idle" => copy[c][x] # 0
      BY SMTT(30) DEF OwnerPart
    <3> HIDE <1>t
    <3> QED BY <2>1, <2>2, <3>1, ZenonT(30) DEF Threads
  <2> HIDE <1>t
  <2> QED BY <2>1, <2>3, <2>4, ZenonT(30) DEF OwnerPart, Acquiring, Unused
<1>21. CASE SkipFinalCommit(c)
  <2>1. /\ pc[c] = "closing" /\ pc'[c] = "closed"
        /\ UNCHANGED <<owner, committed, assigned, had, lock, holder>>
        /\ UNCHANGED <<first, done, cb, tok, pend, lockFailed, stored, copy, cstep>>
    BY <1>21, ConsumerAssumption DEF SkipFinalCommit, kafkaVars, kesselVars,
       mainVars, tokenVars, commitVars
  <2>2. NoOffsets(c)' <=> NoOffsets(c)
    BY <2>1, SMTT(30), SMTT(40) DEF NoOffsets
  <2> HIDE <1>t
  <2> QED BY <2>1, <2>2, ConsumerAssumption, ZenonT(30) DEF OwnerPart, Acquiring, Unused
<1>22. CASE Close(c)
  BY <1>22, ConsumerAssumption, SMTT(30) DEF Close, Gone, OwnerPart, NoOffsets,
     Acquiring, Unused, Calm, TokenInv, Threads, kafkaVars, kesselVars,
     mainVars, tokenVars, commitVars
<1>23. CASE Crash(c)
  BY <1>23, ConsumerAssumption, ZenonT(30) DEF Crash, Gone, Spend, OwnerPart, NoOffsets,
     Acquiring, Unused, Calm, TokenInv, Threads, kafkaVars, kesselVars,
     mainVars, tokenVars, commitVars
<1>24. CASE Restart(c)
  BY <1>24, ConsumerAssumption DEF Restart, OwnerPart, NoOffsets, Acquiring,
     Unused, Calm, TokenInv, Threads, kafkaVars, kesselVars, mainVars,
     tokenVars, commitVars
<1>25. ASSUME NEW th \in Threads, CommitCopy(c, th) PROVE OwnerPart(c)'
  <2>1. /\ stored' = stored /\ committed' = committed
        /\ UNCHANGED <<owner, assigned, had, lock, holder, first, done, tok, pend, lockFailed>>
    BY <1>25, SMTT(30), SMTT(40) DEF CommitCopy, CommitFrame, kesselVars
  <2>2. CASE stored[c] = 0
    <3>1. /\ copy' = copy /\ cstep' = cstep
          /\ \/ pc'[c] = pc[c] /\ cb[c] = "commit" /\ cb'[c] = "release"
             \/ pc[c] = "commit" /\ pc'[c] = "poll" /\ cb' = cb
             \/ pc[c] = "closing" /\ pc'[c] = "closed" /\ cb' = cb
      BY <1>25, <2>2, SMTT(30) DEF CommitCopy, CommitReturns, Committing
    <3>2. NoOffsets(c)' <=> NoOffsets(c)
      BY <2>1, <3>1, SMTT(30), SMTT(40) DEF NoOffsets
    <3> HIDE <1>t
    <3> QED BY <2>1, <3>1, <3>2, SMTT(30), SMTT(40) DEF OwnerPart, Acquiring, Unused
  <2>3. CASE stored[c] # 0
    <3>1. /\ pc' = pc /\ cb' = cb
          /\ copy' = [copy EXCEPT ![c] = [copy[c] EXCEPT ![th] = stored[c]]]
          /\ cstep' = [cstep EXCEPT ![c] = [cstep[c] EXCEPT ![th] = "copied"]]
      BY <1>25, <2>3 DEF CommitCopy
    <3>2. ~NoOffsets(c)
      BY <2>3 DEF NoOffsets
    <3>3. copy[c] \in [Threads -> Nat] /\ cstep[c] \in [Threads -> {"idle", "copied", "ok", "failed"}]
      BY ZenonT(30)
    <3>4. \A x \in Threads : cstep'[c][x] # "idle" => copy'[c][x] # 0
      BY <2>3, <3>1, <3>3, SMTT(30), SMTT(40) DEF OwnerPart
    <3> HIDE <1>t
    <3> QED BY <2>1, <3>1, <3>2, <3>4, SMTT(30), SMTT(40) DEF OwnerPart, Acquiring, Unused
  <2> QED BY <2>2, <2>3, SMTT(30), SMTT(40)
<1>26. ASSUME NEW th \in Threads, CommitUnassigned(c, th) PROVE OwnerPart(c)'
  <2>1. /\ pc'[c] = pc[c] \/ pc'[c] \in {"poll", "closed"}
        /\ cb'[c] \in {cb[c], "release"}
        /\ copy' = [copy EXCEPT ![c] = [copy[c] EXCEPT ![th] = 0]]
        /\ cstep' = [cstep EXCEPT ![c] = [cstep[c] EXCEPT ![th] = "idle"]]
        /\ UNCHANGED <<owner, assigned, had, lock, holder, first, done, tok, pend, lockFailed>>
    BY <1>26, SMTT(30) DEF CommitUnassigned, CommitFrame, CommitReturns, kesselVars
  <2>2. copy[c] \in [Threads -> Nat] /\ cstep[c] \in [Threads -> {"idle", "copied", "ok", "failed"}]
    BY ZenonT(30)
  <2>3. cstep[c][th] # "idle"
    BY <1>26, SMTT(30), SMTT(40) DEF CommitUnassigned
  <2>4. copy[c][th] # 0 /\ ~NoOffsets(c)
    BY <2>3, SMTT(30) DEF OwnerPart, NoOffsets
  <2>5. \A x \in Threads : cstep'[c][x] # "idle" => copy'[c][x] # 0
    BY <2>1, <2>2, <2>4, ZenonT(30) DEF OwnerPart
  <2> HIDE <1>t
  <2> QED BY <2>1, <2>4, <2>5, SMTT(30), SMTT(40) DEF OwnerPart, Acquiring, Unused
<1>27. ASSUME NEW th \in Threads, CommitSend(c, th) PROVE OwnerPart(c)'
  <2>1. /\ pc' = pc /\ cb' = cb /\ copy' = copy
        /\ cstep' = [cstep EXCEPT ![c] = [cstep[c] EXCEPT ![th] = "ok"]]
        /\ UNCHANGED <<owner, assigned, had, lock, holder, first, done, tok, pend, lockFailed>>
    BY <1>27, SMTT(30), SMTT(40) DEF CommitSend, CommitFrame, kesselVars
  <2>2. copy[c] \in [Threads -> Nat] /\ cstep[c] \in [Threads -> {"idle", "copied", "ok", "failed"}]
    BY ZenonT(30)
  <2>3. cstep[c][th] # "idle"
    BY <1>27, SMTT(30), SMTT(40) DEF CommitSend
  <2>4. copy[c][th] # 0 /\ ~NoOffsets(c)
    BY <2>3 DEF OwnerPart, NoOffsets
  <2>5. \A x \in Threads : cstep'[c][x] # "idle" => copy'[c][x] # 0
    BY <2>1, <2>2, <2>4, SMTT(30), SMTT(40) DEF OwnerPart
  <2> HIDE <1>t
  <2> QED BY <2>1, <2>4, <2>5, SMTT(30), SMTT(40) DEF OwnerPart, Acquiring, Unused
<1>28. ASSUME NEW th \in Threads, CommitRefused(c, th) PROVE OwnerPart(c)'
  <2>1. /\ pc' = pc /\ cb' = cb /\ copy' = copy
        /\ cstep' = [cstep EXCEPT ![c] = [cstep[c] EXCEPT ![th] = "failed"]]
        /\ UNCHANGED <<owner, assigned, had, lock, holder, first, done, tok, pend, lockFailed>>
    BY <1>28, SMTT(30), SMTT(40) DEF CommitRefused, CommitFrame, kesselVars
  <2>2. copy[c] \in [Threads -> Nat] /\ cstep[c] \in [Threads -> {"idle", "copied", "ok", "failed"}]
    BY ZenonT(30)
  <2>3. cstep[c][th] # "idle"
    BY <1>28, SMTT(30), SMTT(40) DEF CommitRefused
  <2>4. copy[c][th] # 0 /\ ~NoOffsets(c)
    BY <2>3 DEF OwnerPart, NoOffsets
  <2>5. \A x \in Threads : cstep'[c][x] # "idle" => copy'[c][x] # 0
    BY <2>1, <2>2, <2>4, SMTT(30), SMTT(40) DEF OwnerPart
  <2> HIDE <1>t
  <2> QED BY <2>1, <2>4, <2>5, SMTT(30), SMTT(40) DEF OwnerPart, Acquiring, Unused
<1>29. ASSUME NEW th \in Threads, CommitSendFails(c, th) PROVE OwnerPart(c)'
  <2>1. /\ pc' = pc /\ cb' = cb /\ copy' = copy
        /\ cstep' = [cstep EXCEPT ![c] = [cstep[c] EXCEPT ![th] = "failed"]]
        /\ UNCHANGED <<owner, assigned, had, lock, holder, first, done, tok, pend, lockFailed>>
    BY <1>29, SMTT(30), SMTT(40) DEF CommitSendFails, CommitFrame, kesselVars
  <2>2. copy[c] \in [Threads -> Nat] /\ cstep[c] \in [Threads -> {"idle", "copied", "ok", "failed"}]
    BY ZenonT(30)
  <2>3. cstep[c][th] # "idle"
    BY <1>29, SMTT(30), SMTT(40) DEF CommitSendFails
  <2>4. copy[c][th] # 0 /\ ~NoOffsets(c)
    BY <2>3 DEF OwnerPart, NoOffsets
  <2>5. \A x \in Threads : cstep'[c][x] # "idle" => copy'[c][x] # 0
    BY <2>1, <2>2, <2>4 DEF OwnerPart
  <2> HIDE <1>t
  <2> QED BY <2>1, <2>4, <2>5 DEF OwnerPart, Acquiring, Unused
<1>30. ASSUME NEW th \in Threads, CommitFinish(c, th) PROVE OwnerPart(c)'
  <2>1. /\ pc'[c] = pc[c] \/ pc'[c] \in {"poll", "closed"}
        /\ cb'[c] \in {cb[c], "release"}
        /\ copy' = [copy EXCEPT ![c] = [copy[c] EXCEPT ![th] = 0]]
        /\ cstep' = [cstep EXCEPT ![c] = [cstep[c] EXCEPT ![th] = "idle"]]
        /\ UNCHANGED <<owner, assigned, had, lock, holder, first, done, tok, pend, lockFailed>>
    BY <1>30, SMTT(30), SMTT(40) DEF CommitFinish, CommitFrame, CommitReturns, kesselVars
  <2>2. copy[c] \in [Threads -> Nat] /\ cstep[c] \in [Threads -> {"idle", "copied", "ok", "failed"}]
    BY ZenonT(30)
  <2>3. cstep[c][th] # "idle"
    BY <1>30, SMTT(30), SMTT(40) DEF CommitFinish
  <2>4. copy[c][th] # 0 /\ ~NoOffsets(c)
    BY <2>3 DEF OwnerPart, NoOffsets
  <2>5. \A x \in Threads : cstep'[c][x] # "idle" => copy'[c][x] # 0
    BY <2>1, <2>2, <2>4, ZenonT(30) DEF OwnerPart
  <2> HIDE <1>t
  <2> QED BY <2>1, <2>4, <2>5 DEF OwnerPart, Acquiring, Unused
<1> HIDE <1>t
<1> QED BY <1>1, <1>2, <1>3, <1>4, <1>5, <1>6, <1>7, <1>8, <1>9, <1>10, <1>11,
    <1>12, <1>13, <1>14, <1>15, <1>16, <1>17, <1>18, <1>19, <1>20, <1>21,
    <1>22, <1>23, <1>24, <1>25, <1>26, <1>27, <1>28, <1>29, <1>30, ZenonT(30) DEF
    ProcessStep, Step, Fault, Rebalance
=============================================================================
