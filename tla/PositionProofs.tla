--------------------------- MODULE PositionProofs ----------------------------
(***************************************************************************)
(* Each process walks the log without gaps, and only the process with an   *)
(* accepted attempt changes the store: the invariants PositionInv and      *)
(* AttemptInv, each as one lemma on the acting process and one on the      *)
(* others.                                                                 *)
(***************************************************************************)
EXTENDS OwnerProofs

(* The floor is a position.                                                *)
LEMMA FloorType == TypeInv => Floor \in Nat
BY DEF TypeInv, TypeOK, KafkaType, KesselType, MainType, Floor

(* The committed offset lies within the topic.                             *)
LEMMA CommittedBound ==
    ASSUME TypeInv, StoreInv PROVE committed \in Nat /\ committed <= Len(log)
<1>1. Floor \in Nat
    BY FloorType
<1>2. committed \in Nat /\ Len(log) \in Nat
    BY DEF TypeInv, TypeOK, KafkaType
<1> QED BY <1>1, <1>2 DEF StoreInv

(* ... nor its position.                                                   *)
LEMMA PositionOther ==
    ASSUME PositionInv, NEW d \in Consumers, SameProcess(d), log' = log
    PROVE  PositionPart(d)'
BY DEF PositionInv, PositionPart, SameProcess

(* A step of a process keeps its position in the log in order.             *)
LEMMA PositionSelf ==
    ASSUME Calm, TypeInv, OwnerInv, PositionInv, StoreInv, NEW c \in Consumers, ProcessStep(c)
    PROVE  PositionPart(c)'
<1>0. committed \in Nat /\ committed <= Len(log)
    BY CommittedBound
<1>m. MainType
    BY DEF TypeInv, TypeOK
<1>t. /\ pc \in [Consumers -> MainStates] /\ pos \in [Consumers -> Nat]
      /\ cur \in [Consumers -> Nat] /\ done \in [Consumers -> Nat]
      /\ stored \in [Consumers -> Nat] /\ copy \in [Consumers -> [Threads -> Nat]]
    BY DEF TypeInv, TypeOK, MainType, CommitType
<1>p. PositionPart(c) /\ OwnerPart(c)
    BY DEF PositionInv, OwnerInv
<1> USE <1>t, <1>p
<1>1. CASE Fetch(c)
  <2> DEFINE i == pos[c] + 1
  <2>1. /\ pc[c] = "poll" /\ i <= Len(log) /\ pos'[c] = i /\ cur'[c] = i
        /\ UNCHANGED <<stored, copy, log>>
        /\ \/ pc'[c] \in {"closing", "ensure", "attempt"} /\ done' = done
           \/ pc'[c] = "store" /\ done'[c] = i
           \/ pc'[c] = "closing" /\ done'[c] = i
    BY <1>1 DEF Fetch, EnterMessage, HandledBy, Dispatch, kafkaVars, commitVars
  <2>2. PositionPart(c) /\ done[c] \in Nat /\ pos[c] \in Nat /\ stored[c] \in Nat
        /\ copy[c] \in [Threads -> Nat]
    OBVIOUS
  <2> HIDE <1>t
  <2> QED BY <2>1, <2>2 DEF PositionPart
<1>2. CASE EnsureLock(c)
  <2>1. /\ pc[c] = "ensure" /\ UNCHANGED <<pos, cur, stored, copy, log>>
        /\ \/ pc'[c] \in {"closing", "attempt"} /\ done' = done
           \/ pc'[c] = "store" /\ done'[c] = cur[c]
    BY <1>2 DEF EnsureLock, EnterMessage, HandledBy, Dispatch, kafkaVars, commitVars
  <2>2. PositionPart(c) /\ done[c] \in Nat /\ stored[c] \in Nat
        /\ copy[c] \in [Threads -> Nat]
    OBVIOUS
  <2> HIDE <1>t
  <2> QED BY <2>1, <2>2 DEF PositionPart
<1>3. CASE EnsureLockFails(c)
  BY <1>3 DEF EnsureLockFails, IssueToken, Spend, PositionPart, kafkaVars,
     mainVars, commitVars, Threads
<1>4. CASE BeginAttempt(c)
  BY <1>4 DEF BeginAttempt, PositionPart, kafkaVars, mainVars, commitVars,
     Threads
<1>5. CASE SendDelete(c)
  BY <1>5 DEF SendDelete, PositionPart, kafkaVars, mainVars, commitVars,
     Threads
<1>6. CASE SendAdd(c)
  <2>1. /\ pc[c] = "write" /\ pc'[c] = "store" /\ done'[c] = cur[c]
        /\ UNCHANGED <<pos, cur, stored, copy, log>>
    BY <1>6 DEF SendAdd, HandledBy, kafkaVars, commitVars
  <2>2. /\ PositionPart(c) /\ done[c] \in Nat /\ stored[c] \in Nat
        /\ copy[c] \in [Threads -> Nat]
    OBVIOUS
  <2> HIDE <1>t
  <2> QED BY <2>1, <2>2, SMTT(30), SMTT(40) DEF PositionPart
<1>7. CASE NoToken(c)
  <2>1. /\ pc[c] \in {"attempt", "write"} /\ pc'[c] \in {"attempt", "closing"}
        /\ UNCHANGED <<pos, cur, done, stored, copy, log>>
    BY <1>7, <1>m, AttemptFailsEffect, ZenonT(30) DEF NoToken, kafkaVars, commitVars
  <2> HIDE <1>t
  <2> QED BY <2>1 DEF PositionPart
<1>8. CASE Fenced(c)
  <2>1. /\ pc[c] \in {"attempt", "write"} /\ pc'[c] \in {"attempt", "closing"}
        /\ UNCHANGED <<pos, cur, done, stored, copy, log>>
    BY <1>8, <1>m, AttemptFailsEffect, ZenonT(30) DEF Fenced, kafkaVars, commitVars
  <2> HIDE <1>t
  <2> QED BY <2>1 DEF PositionPart
<1>9. CASE RpcFails(c)
  <2>1. /\ pc[c] \in {"attempt", "write"} /\ pc'[c] \in {"attempt", "closing"}
        /\ UNCHANGED <<pos, cur, done, stored, copy, log>>
    BY <1>9, <1>m, AttemptFailsEffect, ZenonT(30) DEF RpcFails, kafkaVars, commitVars
  <2> HIDE <1>t
  <2> QED BY <2>1 DEF PositionPart
<1>10. CASE StoreOffset(c)
  BY <1>10 DEF StoreOffset, PositionPart, kafkaVars, mainVars, commitVars,
     Threads
<1>11. CASE Revoke(c)
  BY <1>11 DEF Revoke, Spend, SpendIfOwner, PositionPart, kafkaVars, mainVars,
     commitVars, Threads
<1>12. CASE Release(c)
  BY <1>12 DEF Release, LosePartition, PositionPart, kafkaVars, mainVars,
     commitVars, Threads
<1>13. CASE RevokeSkips(c)
  BY <1>13 DEF RevokeSkips, Spend, SpendIfOwner, LosePartition, PositionPart,
     kafkaVars, mainVars, commitVars, Threads
<1>14. CASE Evict(c)
  BY <1>14 DEF Evict, Spend, PositionPart, kafkaVars, mainVars, commitVars,
     Threads
<1>15. CASE Assign(c)
  BY <1>15 DEF Assign, Join, PositionPart, kafkaVars, mainVars, commitVars,
     Threads
<1>16. CASE AssignQuietly(c)
  <2>1. NoOffsets(c) /\ pc[c] \in {"poll", "closing", "closed"}
    BY <1>16 DEF AssignQuietly, Join, Running, Calm, OwnerPart, Unused
  <2>2. pos'[c] = committed /\ done'[c] = committed /\ UNCHANGED <<pc, cur, stored, copy, log>>
    BY <1>16 DEF AssignQuietly, Join, ResetPosition, kafkaVars, commitVars
  <2>3. committed \in Nat /\ committed <= Len(log)
    BY <1>0
  <2> HIDE <1>t
  <2> QED BY <2>1, <2>2, <2>3, SMTT(30), SMTT(40) DEF PositionPart, NoOffsets
<1>17. CASE AcquireLock(c)
  BY <1>17, SMTT(30), SMTT(40) DEF AcquireLock, IssueToken, PositionPart, kafkaVars, mainVars,
     commitVars, Threads
<1>18. CASE StoreToken(c)
  <2>1. NoOffsets(c) /\ pc[c] \in {"poll", "closing", "closed"}
    BY <1>18 DEF StoreToken, OwnerPart, Acquiring
  <2>2. pos'[c] = committed /\ done'[c] = committed /\ UNCHANGED <<pc, cur, stored, copy, log>>
    BY <1>18, SMTT(30), SMTT(40) DEF StoreToken, ResetPosition, kafkaVars, commitVars
  <2>3. committed \in Nat /\ committed <= Len(log)
    BY <1>0
  <2> HIDE <1>t
  <2> QED BY <2>1, <2>2, <2>3 DEF PositionPart, NoOffsets
<1>19. CASE AcquireLockFails(c)
  <2>1. NoOffsets(c) /\ pc[c] \in {"poll", "closing", "closed"}
    BY <1>19 DEF AcquireLockFails, OwnerPart, Acquiring
  <2>2. pos'[c] = committed /\ done'[c] = committed /\ UNCHANGED <<pc, cur, stored, copy, log>>
    BY <1>19, SMTT(30), SMTT(40) DEF AcquireLockFails, ResetPosition, kafkaVars, commitVars
  <2>3. committed \in Nat /\ committed <= Len(log)
    BY <1>0
  <2> HIDE <1>t
  <2> QED BY <2>1, <2>2, <2>3 DEF PositionPart, NoOffsets
<1>20. CASE Sigterm(c)
  <2>1. /\ pc'[c] = "closing"
        /\ UNCHANGED <<pos, cur, done, log>> /\ stored' = stored
        /\ copy'[c] \in {copy[c], [copy[c] EXCEPT !["main"] = 0]}
    BY <1>20, SMTT(30), SMTT(40) DEF Sigterm, Spend, kafkaVars
  <2>2. /\ PositionPart(c) /\ done[c] \in Nat /\ stored[c] \in Nat
        /\ copy[c] \in [Threads -> Nat]
    OBVIOUS
  <2> HIDE <1>t
  <2>3. \A x \in Threads : copy'[c][x] <= done[c]
    BY <2>1, <2>2, SMTT(30) DEF PositionPart
  <2>4. stored'[c] <= done[c]
    BY <2>1, <2>2 DEF PositionPart
  <2> QED BY <2>1, <2>2, <2>3, <2>4 DEF PositionPart
<1>21. CASE SkipFinalCommit(c)
  BY <1>21 DEF SkipFinalCommit, PositionPart, kafkaVars, mainVars, commitVars,
     Threads
<1>22. CASE Close(c)
  BY <1>22, SMTT(30) DEF Close, Gone, PositionPart, kafkaVars, mainVars, commitVars,
     Threads
<1>23. CASE Crash(c)
  BY <1>23 DEF Crash, Gone, Spend, PositionPart, kafkaVars, mainVars,
     commitVars, Threads
<1>24. CASE Restart(c)
  BY <1>24, SMTT(30), SMTT(40)
     DEF Restart, PositionPart, kafkaVars, mainVars, commitVars, Threads
<1>25. ASSUME NEW th \in Threads, CommitCopy(c, th) PROVE PositionPart(c)'
  <2>1. /\ pc'[c] \in {pc[c], "closed"} \/ (pc[c] = "commit" /\ pc'[c] = "poll")
        /\ UNCHANGED <<pos, cur, done, log>> /\ stored' = stored
        /\ copy'[c] \in {copy[c], [copy[c] EXCEPT ![th] = stored[c]]}
    BY <1>25, SMTT(30) DEF CommitCopy, CommitFrame, CommitReturns, kafkaVars
  <2>2. /\ PositionPart(c) /\ done[c] \in Nat /\ stored[c] \in Nat
        /\ copy[c] \in [Threads -> Nat]
    BY SMTT(30), SMTT(40)
  <2> HIDE <1>t
  <2>3. \A x \in Threads : copy'[c][x] <= done[c]
    BY <2>1, <2>2 DEF PositionPart
  <2>4. stored'[c] <= done[c]
    BY <2>1, <2>2, SMTT(30), SMTT(40) DEF PositionPart
  <2> QED BY <2>1, <2>2, <2>3, <2>4 DEF PositionPart
<1>26. ASSUME NEW th \in Threads, CommitUnassigned(c, th) PROVE PositionPart(c)'
  <2>1. /\ pc'[c] \in {pc[c], "closed"} \/ (pc[c] = "commit" /\ pc'[c] = "poll")
        /\ UNCHANGED <<pos, cur, done, log>> /\ stored' = stored
        /\ copy'[c] \in {copy[c], [copy[c] EXCEPT ![th] = 0]}
    BY <1>26, SMTT(30), SMTT(40) DEF CommitUnassigned, CommitFrame, CommitReturns, kafkaVars
  <2>2. /\ PositionPart(c) /\ done[c] \in Nat /\ stored[c] \in Nat
        /\ copy[c] \in [Threads -> Nat]
    OBVIOUS
  <2> HIDE <1>t
  <2>3. \A x \in Threads : copy'[c][x] <= done[c]
    BY <2>1, <2>2 DEF PositionPart
  <2>4. stored'[c] <= done[c]
    BY <2>1, <2>2, SMTT(30), SMTT(40) DEF PositionPart
  <2> QED BY <2>1, <2>2, <2>3, <2>4 DEF PositionPart
<1>27. ASSUME NEW th \in Threads, CommitSend(c, th) PROVE PositionPart(c)'
  <2>1. UNCHANGED <<pc, pos, cur, done, stored, copy, log>>
    BY <1>27 DEF CommitSend, CommitFrame
  <2> HIDE <1>t
  <2> QED BY <2>1 DEF PositionPart
<1>28. ASSUME NEW th \in Threads, CommitRefused(c, th) PROVE PositionPart(c)'
  <2>1. UNCHANGED <<pc, pos, cur, done, stored, copy, log>>
    BY <1>28 DEF CommitRefused, CommitFrame
  <2> HIDE <1>t
  <2> QED BY <2>1 DEF PositionPart
<1>29. ASSUME NEW th \in Threads, CommitSendFails(c, th) PROVE PositionPart(c)'
  <2>1. UNCHANGED <<pc, pos, cur, done, stored, copy, log>>
    BY <1>29, SMTT(30), SMTT(40) DEF CommitSendFails, CommitFrame
  <2> HIDE <1>t
  <2> QED BY <2>1 DEF PositionPart
<1>30. ASSUME NEW th \in Threads, CommitFinish(c, th) PROVE PositionPart(c)'
  <2>1. /\ pc'[c] \in {pc[c], "closed"} \/ (pc[c] = "commit" /\ pc'[c] = "poll")
        /\ UNCHANGED <<pos, cur, done, log>> /\ stored'[c] \in {stored[c], 0, copy[c][th]}
        /\ copy'[c] \in {copy[c], [copy[c] EXCEPT ![th] = 0]}
    BY <1>30, SMTT(30), SMTT(40) DEF CommitFinish, CommitFrame, CommitReturns, kafkaVars
  <2>2. /\ PositionPart(c) /\ done[c] \in Nat /\ stored[c] \in Nat
        /\ copy[c] \in [Threads -> Nat]
    OBVIOUS
  <2> HIDE <1>t
  <2>3. \A x \in Threads : copy'[c][x] <= done[c]
    BY <2>1, <2>2, SMTT(30), SMTT(40) DEF PositionPart
  <2>4. stored'[c] <= done[c]
    BY <2>1, <2>2, SMTT(30) DEF PositionPart
  <2> QED BY <2>1, <2>2, <2>3, <2>4, SMTT(30), SMTT(40) DEF PositionPart
<1> HIDE <1>t
<1> QED BY <1>1, <1>2, <1>3, <1>4, <1>5, <1>6, <1>7, <1>8, <1>9, <1>10, <1>11,
    <1>12, <1>13, <1>14, <1>15, <1>16, <1>17, <1>18, <1>19, <1>20, <1>21,
    <1>22, <1>23, <1>24, <1>25, <1>26, <1>27, <1>28, <1>29, <1>30, ZenonT(30) DEF
    ProcessStep, Step, Fault, Rebalance

(* Only the process that writes under the newest token changes the store.  *)
LEMMA StoreWriter ==
    ASSUME NEW c \in Consumers, ProcessStep(c)
    PROVE  /\ lock' \in {lock, lock + 1} /\ log' = log
           /\ store' = store \/ (pc[c] = "write" /\ Accepted(c))
<1>1. CASE Fetch(c)
  BY <1>1, ZenonT(30) DEF Fetch, kafkaVars, kesselVars
<1>2. CASE EnsureLock(c)
  BY <1>2 DEF EnsureLock, IssueToken, kafkaVars, kesselVars
<1>3. CASE EnsureLockFails(c)
  BY <1>3, SMTT(30), SMTT(40) DEF EnsureLockFails, IssueToken, kafkaVars, kesselVars
<1>4. CASE BeginAttempt(c)
  BY <1>4 DEF BeginAttempt, kafkaVars, kesselVars
<1>5. CASE SendDelete(c)
  BY <1>5 DEF SendDelete, kafkaVars, kesselVars
<1>6. CASE SendAdd(c)
  BY <1>6 DEF SendAdd, kafkaVars, kesselVars
<1>7. CASE NoToken(c)
  BY <1>7 DEF NoToken, AttemptFails, kafkaVars, kesselVars
<1>8. CASE Fenced(c)
  BY <1>8 DEF Fenced, AttemptFails, kafkaVars, kesselVars
<1>9. CASE RpcFails(c)
  BY <1>9 DEF RpcFails, AttemptFails, kafkaVars, kesselVars
<1>10. CASE StoreOffset(c)
  BY <1>10, SMTT(30), SMTT(40) DEF StoreOffset, kafkaVars, kesselVars
<1>11. CASE Revoke(c)
  BY <1>11 DEF Revoke, kafkaVars, kesselVars
<1>12. CASE Release(c)
  BY <1>12 DEF Release, LosePartition, kafkaVars, kesselVars
<1>13. CASE RevokeSkips(c)
  BY <1>13 DEF RevokeSkips, LosePartition, kafkaVars, kesselVars
<1>14. CASE Evict(c)
  BY <1>14, SMTT(30) DEF Evict, kafkaVars, kesselVars
<1>15. CASE Assign(c)
  BY <1>15, SMTT(30), SMTT(40) DEF Assign, Join, kafkaVars, kesselVars
<1>16. CASE AssignQuietly(c)
  BY <1>16 DEF AssignQuietly, Join, kafkaVars, kesselVars
<1>17. CASE AcquireLock(c)
  BY <1>17 DEF AcquireLock, IssueToken, kafkaVars, kesselVars
<1>18. CASE StoreToken(c)
  BY <1>18 DEF StoreToken, kafkaVars, kesselVars
<1>19. CASE AcquireLockFails(c)
  BY <1>19 DEF AcquireLockFails, IssueToken, kafkaVars, kesselVars
<1>20. CASE Sigterm(c)
  BY <1>20 DEF Sigterm, kafkaVars, kesselVars
<1>21. CASE SkipFinalCommit(c)
  BY <1>21 DEF SkipFinalCommit, kafkaVars, kesselVars
<1>22. CASE Close(c)
  BY <1>22 DEF Close, Gone, kafkaVars, kesselVars
<1>23. CASE Crash(c)
  BY <1>23 DEF Crash, Gone, kafkaVars, kesselVars
<1>24. CASE Restart(c)
  BY <1>24 DEF Restart, kafkaVars, kesselVars
<1>25. ASSUME NEW th \in Threads, CommitCopy(c, th)
      PROVE  /\ lock' \in {lock, lock + 1} /\ log' = log
             /\ store' = store \/ (pc[c] = "write" /\ Accepted(c))
  BY <1>25 DEF CommitCopy, CommitFrame, kafkaVars, kesselVars
<1>26. ASSUME NEW th \in Threads, CommitUnassigned(c, th)
      PROVE  /\ lock' \in {lock, lock + 1} /\ log' = log
             /\ store' = store \/ (pc[c] = "write" /\ Accepted(c))
  BY <1>26 DEF CommitUnassigned, CommitFrame, kafkaVars, kesselVars
<1>27. ASSUME NEW th \in Threads, CommitSend(c, th)
      PROVE  /\ lock' \in {lock, lock + 1} /\ log' = log
             /\ store' = store \/ (pc[c] = "write" /\ Accepted(c))
  BY <1>27 DEF CommitSend, CommitFrame, kafkaVars, kesselVars
<1>28. ASSUME NEW th \in Threads, CommitRefused(c, th)
      PROVE  /\ lock' \in {lock, lock + 1} /\ log' = log
             /\ store' = store \/ (pc[c] = "write" /\ Accepted(c))
  BY <1>28 DEF CommitRefused, CommitFrame, kafkaVars, kesselVars
<1>29. ASSUME NEW th \in Threads, CommitSendFails(c, th)
      PROVE  /\ lock' \in {lock, lock + 1} /\ log' = log
             /\ store' = store \/ (pc[c] = "write" /\ Accepted(c))
  BY <1>29 DEF CommitSendFails, CommitFrame, kafkaVars, kesselVars
<1>30. ASSUME NEW th \in Threads, CommitFinish(c, th)
      PROVE  /\ lock' \in {lock, lock + 1} /\ log' = log
             /\ store' = store \/ (pc[c] = "write" /\ Accepted(c))
  BY <1>30 DEF CommitFinish, CommitFrame, kafkaVars, kesselVars
<1> QED BY <1>1, <1>2, <1>3, <1>4, <1>5, <1>6, <1>7, <1>8, <1>9, <1>10, <1>11,
    <1>12, <1>13, <1>14, <1>15, <1>16, <1>17, <1>18, <1>19, <1>20, <1>21,
    <1>22, <1>23, <1>24, <1>25, <1>26, <1>27, <1>28, <1>29, <1>30, ZenonT(30) DEF
    ProcessStep, Step, Fault, Rebalance

(* A process other than the writer has no accepted attempt to disturb.     *)
LEMMA AttemptOther ==
    ASSUME TypeInv, TokenInv, AttemptInv, NEW c \in Consumers, ProcessStep(c),
           NEW d \in Consumers \ {c}, SameProcess(d)
    PROVE  AttemptPart(d)'
<1>1. /\ lock' \in {lock, lock + 1} /\ log' = log
      /\ store' = store \/ (pc[c] = "write" /\ Accepted(c))
    BY StoreWriter, SMTT(30), SMTT(40)
<1>2. lock \in Nat /\ atk[d] \in Nat /\ atk[d] <= lock
    BY SMTT(30) DEF TypeInv, TypeOK, KesselType, MainType, TokenInv
<1> SUFFICES ASSUME pc[d] = "write", atk[d] = lock' PROVE AttemptPart(d)'
    BY ZenonT(30) DEF AttemptPart, Accepted, SameProcess
<1>3. lock' = lock /\ Accepted(d)
    BY <1>1, <1>2, SMTT(30), SMTT(40) DEF Accepted
<1>4. CASE store' = store
    BY <1>1, <1>3, <1>4 DEF AttemptInv, AttemptPart, SameProcess
<1>5. CASE pc[c] = "write" /\ Accepted(c)
    <2>1. holder = c /\ holder = d
        BY <1>2, <1>3, <1>5, SMTT(30) DEF TokenInv, Accepted
    <2> QED BY <2>1, SMTT(30), SMTT(40)
<1> QED BY <1>1, <1>4, <1>5

(* Deletes stay deleted until the attempt is over.                         *)
LEMMA AttemptSelf ==
    ASSUME TypeInv, TokenInv, AttemptInv, NEW c \in Consumers, ProcessStep(c)
    PROVE  AttemptPart(c)'
<1> DEFINE Types == /\ pc \in [Consumers -> MainStates] /\ dels \in [Consumers -> SUBSET Tuples]
                    /\ cur \in [Consumers -> Nat] /\ atk \in [Consumers -> Nat] /\ lock \in Nat
<1>a. Types /\ atk[c] <= lock
  BY DEF TypeInv, TypeOK, KesselType, MainType, TokenInv
<1>m. MainType
  BY DEF TypeInv, TypeOK
<1>b. AttemptPart(c)
  BY DEF AttemptInv
<1> USE <1>a, <1>b
<1>1. CASE Fetch(c)
  <2>1. pc'[c] # "write"
    BY <1>1, ZenonT(30) DEF Fetch, EnterMessage, Dispatch
  <2> QED BY <2>1, ZenonT(30) DEF AttemptPart
<1>2. CASE EnsureLock(c)
  <2>1. pc'[c] # "write"
    BY <1>2, SMTT(30), SMTT(40) DEF EnsureLock, EnterMessage, Dispatch
  <2> QED BY <2>1, ZenonT(30) DEF AttemptPart
<1>3. CASE EnsureLockFails(c)
  <2>1. pc'[c] # "write"
    BY <1>3, SMTT(30), SMTT(40) DEF EnsureLockFails
  <2> QED BY <2>1 DEF AttemptPart
<1>4. CASE BeginAttempt(c)
  BY <1>4, SMTT(30), SMTT(40) DEF BeginAttempt, AttemptPart, Accepted, kafkaVars, kesselVars
<1>5. CASE SendDelete(c)
  BY <1>5, SMTT(30), SMTT(40) DEF SendDelete, AttemptPart, Accepted, kafkaVars, kesselVars
<1>6. CASE SendAdd(c)
  <2>1. pc'[c] # "write"
    BY <1>6, SMTT(30), SMTT(40) DEF SendAdd
  <2> QED BY <2>1 DEF AttemptPart
<1>7. CASE NoToken(c)
  <2>1. pc'[c] # "write"
    BY <1>7, <1>m, AttemptFailsEffect DEF NoToken
  <2> QED BY <2>1 DEF AttemptPart
<1>8. CASE Fenced(c)
  <2>1. pc'[c] # "write"
    BY <1>8, <1>m, AttemptFailsEffect, SMTT(30), SMTT(40) DEF Fenced
  <2> QED BY <2>1 DEF AttemptPart
<1>9. CASE RpcFails(c)
  <2>1. pc'[c] # "write"
    BY <1>9, <1>m, AttemptFailsEffect DEF RpcFails
  <2> QED BY <2>1 DEF AttemptPart
<1>10. CASE StoreOffset(c)
  <2>1. pc'[c] # "write"
    BY <1>10, SMTT(30), SMTT(40) DEF StoreOffset
  <2> QED BY <2>1 DEF AttemptPart
<1>11. CASE Revoke(c)
  <2>1. UNCHANGED <<log, store, lock, pc, cur, atk, dels>>
    BY <1>11, SMTT(30), SMTT(40) DEF Revoke, kafkaVars, kesselVars, mainVars
  <2> QED BY <2>1, SMTT(30), SMTT(40) DEF AttemptPart, Accepted
<1>12. CASE Release(c)
  <2>1. UNCHANGED <<log, store, lock, pc, cur, atk, dels>>
    BY <1>12, SMTT(30), SMTT(40) DEF Release, LosePartition, kafkaVars, kesselVars, mainVars
  <2> QED BY <2>1 DEF AttemptPart, Accepted
<1>13. CASE RevokeSkips(c)
  <2>1. UNCHANGED <<log, store, lock, pc, cur, atk, dels>>
    BY <1>13 DEF RevokeSkips, LosePartition, kafkaVars, kesselVars, mainVars
  <2> QED BY <2>1 DEF AttemptPart, Accepted
<1>14. CASE Evict(c)
  <2>1. UNCHANGED <<log, store, lock, pc, cur, atk, dels>>
    BY <1>14, SMTT(30), SMTT(40) DEF Evict, kafkaVars, kesselVars, mainVars
  <2> QED BY <2>1 DEF AttemptPart, Accepted
<1>15. CASE Assign(c)
  <2>1. UNCHANGED <<log, store, lock, pc, cur, atk, dels>>
    BY <1>15, SMTT(30), SMTT(40) DEF Assign, Join, kafkaVars, kesselVars, mainVars
  <2> QED BY <2>1 DEF AttemptPart, Accepted
<1>16. CASE AssignQuietly(c)
  <2>1. UNCHANGED <<log, store, lock, pc, cur, atk, dels>>
    BY <1>16, SMTT(30) DEF AssignQuietly, Join, ResetPosition, kafkaVars, kesselVars,
       mainVars
  <2> QED BY <2>1 DEF AttemptPart, Accepted
<1>17. CASE AcquireLock(c)
  <2>1. /\ UNCHANGED <<log, store, pc, cur, atk, dels>>
        /\ lock' = lock \/ lock' = lock + 1
    BY <1>17 DEF AcquireLock, IssueToken, kafkaVars, mainVars
  <2>2. atk[c] \in Nat /\ lock \in Nat /\ atk[c] <= lock
    OBVIOUS
  <2>3. Accepted(c)' => Accepted(c)
    BY <2>1, <2>2, SMTT(30), SMTT(40) DEF Accepted
  <2> QED BY <2>1, <2>3, ZenonT(30) DEF AttemptPart
<1>18. CASE StoreToken(c)
  <2>1. UNCHANGED <<log, store, lock, pc, cur, atk, dels>>
    BY <1>18, SMTT(30), SMTT(40) DEF StoreToken, ResetPosition, kafkaVars, kesselVars, mainVars
  <2> QED BY <2>1 DEF AttemptPart, Accepted
<1>19. CASE AcquireLockFails(c)
  <2>1. /\ UNCHANGED <<log, store, pc, cur, atk, dels>>
        /\ lock' = lock \/ lock' = lock + 1
    BY <1>19, SMTT(30), SMTT(40) DEF AcquireLockFails, IssueToken, ResetPosition, kafkaVars,
       mainVars
  <2>2. atk[c] \in Nat /\ lock \in Nat /\ atk[c] <= lock
    OBVIOUS
  <2>3. Accepted(c)' => Accepted(c)
    BY <2>1, <2>2 DEF Accepted
  <2> QED BY <2>1, <2>3, SMTT(30), SMTT(40) DEF AttemptPart
<1>20. CASE Sigterm(c)
  <2>1. pc'[c] # "write"
    BY <1>20, SMTT(30) DEF Sigterm
  <2> QED BY <2>1 DEF AttemptPart
<1>21. CASE SkipFinalCommit(c)
  BY <1>21, ZenonT(30) DEF SkipFinalCommit, AttemptPart, Accepted, kafkaVars, kesselVars,
     mainVars
<1>22. CASE Close(c)
  <2>1. pc'[c] # "write"
    BY <1>22, SMTT(30), SMTT(40) DEF Close, Gone
  <2> QED BY <2>1 DEF AttemptPart
<1>23. CASE Crash(c)
  <2>1. pc'[c] # "write"
    BY <1>23 DEF Crash, Gone
  <2> QED BY <2>1 DEF AttemptPart
<1>24. CASE Restart(c)
  <2>1. pc'[c] # "write"
    BY <1>24, SMTT(30), SMTT(40) DEF Restart
  <2> QED BY <2>1 DEF AttemptPart
<1>25. ASSUME NEW th \in Threads, CommitCopy(c, th) PROVE AttemptPart(c)'
  <2>1. /\ UNCHANGED <<log, store, lock, cur, atk, dels>>
        /\ pc'[c] \in {pc[c], "poll", "closed"}
    BY <1>25, SMTT(30), SMTT(40) DEF CommitCopy, CommitFrame, CommitReturns, kesselVars
  <2> QED BY <2>1, SMTT(30), SMTT(40) DEF AttemptPart, Accepted
<1>26. ASSUME NEW th \in Threads, CommitUnassigned(c, th) PROVE AttemptPart(c)'
  <2>1. /\ UNCHANGED <<log, store, lock, cur, atk, dels>>
        /\ pc'[c] \in {pc[c], "poll", "closed"}
    BY <1>26, SMTT(30) DEF CommitUnassigned, CommitFrame, CommitReturns, kesselVars
  <2> QED BY <2>1 DEF AttemptPart, Accepted
<1>27. ASSUME NEW th \in Threads, CommitSend(c, th) PROVE AttemptPart(c)'
  <2>1. UNCHANGED <<log, store, lock, pc, cur, atk, dels>>
    BY <1>27, SMTT(30), SMTT(40) DEF CommitSend, CommitFrame, kafkaVars, kesselVars, mainVars
  <2> QED BY <2>1, ZenonT(30) DEF AttemptPart, Accepted
<1>28. ASSUME NEW th \in Threads, CommitRefused(c, th) PROVE AttemptPart(c)'
  <2>1. UNCHANGED <<log, store, lock, pc, cur, atk, dels>>
    BY <1>28, SMTT(30), SMTT(40) DEF CommitRefused, CommitFrame, kafkaVars, kesselVars, mainVars
  <2> QED BY <2>1, SMTT(30) DEF AttemptPart, Accepted
<1>29. ASSUME NEW th \in Threads, CommitSendFails(c, th) PROVE AttemptPart(c)'
  <2>1. UNCHANGED <<log, store, lock, pc, cur, atk, dels>>
    BY <1>29, SMTT(30), SMTT(40)
       DEF CommitSendFails, CommitFrame, kafkaVars, kesselVars, mainVars
  <2> QED BY <2>1 DEF AttemptPart, Accepted
<1>30. ASSUME NEW th \in Threads, CommitFinish(c, th) PROVE AttemptPart(c)'
  <2>1. /\ UNCHANGED <<log, store, lock, cur, atk, dels>>
        /\ pc'[c] \in {pc[c], "poll", "closed"}
    BY <1>30 DEF CommitFinish, CommitFrame, CommitReturns, kesselVars
  <2> QED BY <2>1 DEF AttemptPart, Accepted
<1> QED BY <1>1, <1>2, <1>3, <1>4, <1>5, <1>6, <1>7, <1>8, <1>9, <1>10, <1>11,
    <1>12, <1>13, <1>14, <1>15, <1>16, <1>17, <1>18, <1>19, <1>20, <1>21,
    <1>22, <1>23, <1>24, <1>25, <1>26, <1>27, <1>28, <1>29, <1>30, ZenonT(30) DEF
    ProcessStep, Step, Fault, Rebalance
=============================================================================
