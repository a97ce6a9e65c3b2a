------------------------ MODULE KafkaConsumerProofs --------------------------
(***************************************************************************)
(* Proofs about the replication consumer that hold whatever the consumer   *)
(* group does: types, at-least-once delivery and fencing.                  *)
(*                                                                         *)
(* TypeInv and TokenInv are inductive as they stand.  AtLeastOnce needs    *)
(* two invariants that support each other: OffsetsInv says that an offset  *)
(* on its way to the broker covers handled messages only, and DeliveryInv  *)
(* that a process hands messages out in order, so that finishing one       *)
(* finishes a prefix.                                                      *)
(***************************************************************************)
EXTENDS ConsumerTypeProofs

(* Kessel's newest token stays with the process that acquired it.          *)
LEMMA TokenStep == TypeInv /\ TokenInv /\ [Next]_vars => TokenInv'
<1> SUFFICES ASSUME TypeInv, TokenInv, [Next]_vars PROVE TokenInv'
    OBVIOUS
<1> /\ lock \in Nat /\ tok \in [Consumers -> Nat] /\ pend \in [Consumers -> Nat]
    /\ atk \in [Consumers -> Nat] /\ pc \in [Consumers -> MainStates]
    BY DEF TypeInv, TypeOK, KesselType, MainType, TokenType
<1>1. ASSUME NEW c \in Consumers, Fetch(c) PROVE TokenInv'
  BY <1>1 DEF Fetch, EnterMessage, Dispatch, IssueToken, TokenInv, kesselVars, tokenVars
<1>2. ASSUME NEW c \in Consumers, EnsureLock(c) PROVE TokenInv'
  BY <1>2 DEF EnsureLock, EnterMessage, Dispatch, IssueToken, TokenInv, kesselVars, tokenVars
<1>3. ASSUME NEW c \in Consumers, EnsureLockFails(c) PROVE TokenInv'
  BY <1>3 DEF EnsureLockFails, IssueToken, Spend, TokenInv, kesselVars,
     mainVars, tokenVars
<1>4. ASSUME NEW c \in Consumers, BeginAttempt(c) PROVE TokenInv'
  BY <1>4 DEF BeginAttempt, TokenInv, kesselVars, mainVars, tokenVars
<1>5. ASSUME NEW c \in Consumers, SendDelete(c) PROVE TokenInv'
  BY <1>5 DEF SendDelete, TokenInv, kesselVars, mainVars, tokenVars
<1>6. ASSUME NEW c \in Consumers, SendAdd(c) PROVE TokenInv'
  BY <1>6 DEF SendAdd, HandledBy, TokenInv, kesselVars, mainVars, tokenVars
<1>7. ASSUME NEW c \in Consumers, NoToken(c) PROVE TokenInv'
  BY <1>7 DEF NoToken, AttemptFails, TokenInv, tokenVars
<1>8. ASSUME NEW c \in Consumers, Fenced(c) PROVE TokenInv'
  BY <1>8 DEF Fenced, AttemptFails, TokenInv, tokenVars
<1>9. ASSUME NEW c \in Consumers, RpcFails(c) PROVE TokenInv'
  BY <1>9 DEF RpcFails, AttemptFails, TokenInv, tokenVars
<1>10. ASSUME NEW c \in Consumers, StoreOffset(c) PROVE TokenInv'
  BY <1>10 DEF StoreOffset, TokenInv, kesselVars, mainVars, tokenVars
<1>11. ASSUME NEW c \in Consumers, Revoke(c) PROVE TokenInv'
  BY <1>11 DEF Revoke, Spend, SpendIfOwner, TokenInv, kesselVars, mainVars,
     tokenVars
<1>12. ASSUME NEW c \in Consumers, Release(c) PROVE TokenInv'
  BY <1>12 DEF Release, LosePartition, TokenInv, kesselVars, mainVars,
     tokenVars
<1>13. ASSUME NEW c \in Consumers, RevokeSkips(c) PROVE TokenInv'
  BY <1>13 DEF RevokeSkips, Spend, SpendIfOwner, LosePartition, TokenInv,
     kesselVars, mainVars, tokenVars
<1>14. ASSUME NEW c \in Consumers, Evict(c) PROVE TokenInv'
  BY <1>14 DEF Evict, Spend, TokenInv, kesselVars, mainVars, tokenVars
<1>15. ASSUME NEW c \in Consumers, Assign(c) PROVE TokenInv'
  BY <1>15 DEF Assign, Join, TokenInv, kesselVars, mainVars, tokenVars
<1>16. ASSUME NEW c \in Consumers, AssignQuietly(c) PROVE TokenInv'
  BY <1>16 DEF AssignQuietly, Join, ResetPosition, TokenInv, kesselVars,
     mainVars, tokenVars
<1>17. ASSUME NEW c \in Consumers, AcquireLock(c) PROVE TokenInv'
  BY <1>17 DEF AcquireLock, IssueToken, TokenInv, kesselVars, mainVars,
     tokenVars
<1>18. ASSUME NEW c \in Consumers, StoreToken(c) PROVE TokenInv'
  BY <1>18 DEF StoreToken, ResetPosition, TokenInv, kesselVars, mainVars,
     tokenVars
<1>19. ASSUME NEW c \in Consumers, AcquireLockFails(c) PROVE TokenInv'
  BY <1>19 DEF AcquireLockFails, IssueToken, ResetPosition, TokenInv
<1>20. ASSUME NEW c \in Consumers, Sigterm(c) PROVE TokenInv'
  BY <1>20 DEF Sigterm, Spend, TokenInv, kesselVars, mainVars, tokenVars
<1>21. ASSUME NEW c \in Consumers, SkipFinalCommit(c) PROVE TokenInv'
  BY <1>21 DEF SkipFinalCommit, TokenInv, kesselVars, mainVars, tokenVars
<1>22. ASSUME NEW c \in Consumers, Close(c) PROVE TokenInv'
  BY <1>22 DEF Close, Gone, TokenInv
<1>23. ASSUME NEW c \in Consumers, Crash(c) PROVE TokenInv'
  BY <1>23 DEF Crash, Gone, TokenInv
<1>24. ASSUME NEW c \in Consumers, Restart(c) PROVE TokenInv'
  BY <1>24 DEF Restart, TokenInv, kesselVars, mainVars, tokenVars
<1>25. ASSUME NEW c \in Consumers, NEW th \in Threads, CommitCopy(c, th) PROVE TokenInv'
  BY <1>25 DEF CommitCopy, CommitFrame, CommitReturns, TokenInv, kesselVars,
     mainVars, tokenVars
<1>26. ASSUME NEW c \in Consumers, NEW th \in Threads, CommitUnassigned(c, th) PROVE TokenInv'
  BY <1>26 DEF CommitUnassigned, CommitFrame, CommitReturns, TokenInv,
     kesselVars, mainVars, tokenVars
<1>27. ASSUME NEW c \in Consumers, NEW th \in Threads, CommitSend(c, th) PROVE TokenInv'
  BY <1>27 DEF CommitSend, CommitFrame, TokenInv, kesselVars, mainVars,
     tokenVars
<1>28. ASSUME NEW c \in Consumers, NEW th \in Threads, CommitRefused(c, th) PROVE TokenInv'
  BY <1>28 DEF CommitRefused, CommitFrame, TokenInv, kesselVars, mainVars,
     tokenVars
<1>29. ASSUME NEW c \in Consumers, NEW th \in Threads, CommitSendFails(c, th) PROVE TokenInv'
  BY <1>29 DEF CommitSendFails, CommitFrame, Spend, TokenInv, kesselVars,
     mainVars, tokenVars
<1>30. ASSUME NEW c \in Consumers, NEW th \in Threads, CommitFinish(c, th) PROVE TokenInv'
  BY <1>30 DEF CommitFinish, CommitFrame, CommitReturns, TokenInv, kesselVars,
     mainVars, tokenVars
<1>31. ASSUME Produce PROVE TokenInv'
  BY <1>31 DEF Produce, TokenInv, kesselVars, mainVars, tokenVars
<1>32. CASE UNCHANGED vars
  BY <1>32 DEF TokenInv, vars, kesselVars, mainVars, tokenVars
<1> QED BY <1>1, <1>2, <1>3, <1>4, <1>5, <1>6, <1>7, <1>8, <1>9, <1>10, <1>11,
    <1>12, <1>13, <1>14, <1>15, <1>16, <1>17, <1>18, <1>19, <1>20, <1>21,
    <1>22, <1>23, <1>24, <1>25, <1>26, <1>27, <1>28, <1>29, <1>30, <1>31,
    <1>32, SMTT(30), SMTT(40) DEF Next, Step, Fault, Rebalance

(* Arithmetic used for positions.                                          *)
LEMMA PredSucc == \A n \in Nat : (n + 1) - 1 = n
OBVIOUS

(* Facts about prefixes of handled messages.                               *)
LEMMA HandledZero == \A S : Handled(S, 0)
BY DEF Handled

(* A prefix stays handled when more messages are.                          *)
LEMMA HandledMono ==
    ASSUME NEW S, NEW T, S \subseteq T, NEW n, Handled(S, n)
    PROVE  Handled(T, n)
BY DEF Handled

(* A handled prefix grows by the message handled after it.                 *)
LEMMA HandledNext ==
    ASSUME NEW S, NEW n \in Nat, Handled(S, n)
    PROVE  Handled(S \cup {n + 1}, n + 1)
BY DEF Handled

(* Handling the next message extends a handled prefix.                     *)
LEMMA HandledLast ==
    ASSUME NEW S, NEW n \in Nat, Handled(S, n - 1)
    PROVE  Handled(S \cup {n}, n)
BY DEF Handled

(* Handled messages stay handled, so other processes are not disturbed.    *)
LEMMA DeliveredOther ==
    ASSUME NEW d, Delivered(d), applied \subseteq applied',
           pc'[d] = pc[d], pos'[d] = pos[d], cur'[d] = cur[d]
    PROVE  Delivered(d)'
<1>1. applied \cup {cur[d]} \subseteq (applied \cup {cur[d]})'
    BY SMTT(30), SMTT(40)
<1> QED BY <1>1, HandledMono DEF Delivered

(* Offsets are stored and committed only for handled messages.             *)
LEMMA OffsetsStep == TypeInv /\ OffsetsInv /\ DeliveryInv /\ [Next]_vars => OffsetsInv'
<1> SUFFICES ASSUME TypeInv, OffsetsInv, DeliveryInv, [Next]_vars PROVE OffsetsInv'
    OBVIOUS
<1> /\ stored \in [Consumers -> Nat] /\ copy \in [Consumers -> [Threads -> Nat]]
    /\ pc \in [Consumers -> MainStates]
    BY SMTT(30), SMTT(40) DEF TypeInv, TypeOK, MainType, CommitType
<1> USE DEF OffsetsInv
<1>1. ASSUME NEW c \in Consumers, Fetch(c) PROVE OffsetsInv'
  <2>1. applied \subseteq applied'
    BY <1>1 DEF Fetch, EnterMessage, Dispatch, HandledBy, mainVars
  <2> QED
    BY <1>1, <2>1, HandledMono DEF Fetch, kafkaVars, commitVars
<1>2. ASSUME NEW c \in Consumers, EnsureLock(c) PROVE OffsetsInv'
  <2>1. applied \subseteq applied'
    BY <1>2 DEF EnsureLock, EnterMessage, Dispatch, HandledBy, IssueToken,
       mainVars
  <2> QED
    BY <1>2, <2>1, HandledMono DEF EnsureLock, kafkaVars, commitVars
<1>3. ASSUME NEW c \in Consumers, EnsureLockFails(c) PROVE OffsetsInv'
  BY <1>3, SMTT(30), SMTT(40) DEF EnsureLockFails, IssueToken, Spend, kafkaVars, mainVars,
     commitVars
<1>4. ASSUME NEW c \in Consumers, BeginAttempt(c) PROVE OffsetsInv'
  BY <1>4 DEF BeginAttempt, kafkaVars, mainVars, commitVars
<1>5. ASSUME NEW c \in Consumers, SendDelete(c) PROVE OffsetsInv'
  BY <1>5, SMTT(30), SMTT(40) DEF SendDelete, kafkaVars, mainVars, commitVars
<1>6. ASSUME NEW c \in Consumers, SendAdd(c) PROVE OffsetsInv'
  <2>1. applied \subseteq applied'
    BY <1>6 DEF SendAdd, HandledBy, mainVars
  <2> QED
    BY <1>6, <2>1, HandledMono, SMTT(30), SMTT(40) DEF SendAdd, kafkaVars, commitVars
<1>7. ASSUME NEW c \in Consumers, NoToken(c) PROVE OffsetsInv'
  BY <1>7 DEF NoToken, AttemptFails, kafkaVars, mainVars, commitVars
<1>8. ASSUME NEW c \in Consumers, Fenced(c) PROVE OffsetsInv'
  BY <1>8, SMTT(30), SMTT(40) DEF Fenced, AttemptFails, kafkaVars, mainVars, commitVars
<1>9. ASSUME NEW c \in Consumers, RpcFails(c) PROVE OffsetsInv'
  BY <1>9 DEF RpcFails, AttemptFails, Spend, kafkaVars, mainVars, commitVars
<1>10. ASSUME NEW c \in Consumers, StoreOffset(c) PROVE OffsetsInv'
  BY <1>10, ZenonT(30) DEF StoreOffset, DeliveryInv, Delivered, kafkaVars
<1>11. ASSUME NEW c \in Consumers, Revoke(c) PROVE OffsetsInv'
  BY <1>11 DEF Revoke, Spend, SpendIfOwner, kafkaVars, mainVars, commitVars
<1>12. ASSUME NEW c \in Consumers, Release(c) PROVE OffsetsInv'
  BY <1>12 DEF Release, LosePartition, kafkaVars, mainVars, commitVars
<1>13. ASSUME NEW c \in Consumers, RevokeSkips(c) PROVE OffsetsInv'
  BY <1>13 DEF RevokeSkips, Spend, SpendIfOwner, LosePartition, kafkaVars,
     mainVars, commitVars
<1>14. ASSUME NEW c \in Consumers, Evict(c) PROVE OffsetsInv'
  BY <1>14, SMTT(30), SMTT(40) DEF Evict, Spend, kafkaVars, mainVars, commitVars
<1>15. ASSUME NEW c \in Consumers, Assign(c) PROVE OffsetsInv'
  BY <1>15, SMTT(30), SMTT(40) DEF Assign, Join, kafkaVars, mainVars, commitVars
<1>16. ASSUME NEW c \in Consumers, AssignQuietly(c) PROVE OffsetsInv'
  BY <1>16 DEF AssignQuietly, Join, ResetPosition, kafkaVars, mainVars,
     commitVars
<1>17. ASSUME NEW c \in Consumers, AcquireLock(c) PROVE OffsetsInv'
  BY <1>17 DEF AcquireLock, IssueToken, kafkaVars, mainVars, commitVars
<1>18. ASSUME NEW c \in Consumers, StoreToken(c) PROVE OffsetsInv'
  BY <1>18 DEF StoreToken, ResetPosition, kafkaVars, mainVars, commitVars
<1>19. ASSUME NEW c \in Consumers, AcquireLockFails(c) PROVE OffsetsInv'
  BY <1>19 DEF AcquireLockFails, IssueToken, Spend, ResetPosition, kafkaVars,
     mainVars, commitVars
<1>20. ASSUME NEW c \in Consumers, Sigterm(c) PROVE OffsetsInv'
  BY <1>20, HandledZero DEF Sigterm, Spend, kafkaVars, mainVars, commitVars
<1>21. ASSUME NEW c \in Consumers, SkipFinalCommit(c) PROVE OffsetsInv'
  BY <1>21, SMTT(30), SMTT(40) DEF SkipFinalCommit, kafkaVars, mainVars, commitVars
<1>22. ASSUME NEW c \in Consumers, Close(c) PROVE OffsetsInv'
  BY <1>22, HandledZero, SMTT(30), SMTT(40) DEF Close, Gone, kafkaVars, mainVars, commitVars
<1>23. ASSUME NEW c \in Consumers, Crash(c) PROVE OffsetsInv'
  BY <1>23, HandledZero DEF Crash, Gone, Spend, kafkaVars, mainVars,
     commitVars
<1>24. ASSUME NEW c \in Consumers, Restart(c) PROVE OffsetsInv'
  BY <1>24, SMTT(30), SMTT(40) DEF Restart, kafkaVars, mainVars, commitVars
<1>25. ASSUME NEW c \in Consumers, NEW th \in Threads, CommitCopy(c, th) PROVE OffsetsInv'
  <2>1. CASE stored[c] = 0
    BY <1>25, <2>1 DEF CommitCopy, CommitFrame
  <2>2. CASE stored[c] # 0
    <3>1. /\ copy' = [copy EXCEPT ![c] = [copy[c] EXCEPT ![th] = stored[c]]]
          /\ stored' = stored /\ applied' = applied /\ committed' = committed
      BY <1>25, <2>2, SMTT(30), SMTT(40) DEF CommitCopy, CommitFrame
    <3> QED BY <3>1, SMTT(30), SMTT(40)
  <2> QED BY <2>1, <2>2, SMTT(30), SMTT(40)
<1>26. ASSUME NEW c \in Consumers, NEW th \in Threads, CommitUnassigned(c, th) PROVE OffsetsInv'
  BY <1>26, HandledZero, SMTT(30), SMTT(40) DEF CommitUnassigned, CommitFrame, CommitReturns,
     kafkaVars, mainVars, commitVars
<1>27. ASSUME NEW c \in Consumers, NEW th \in Threads, CommitSend(c, th) PROVE OffsetsInv'
  BY <1>27 DEF CommitSend, CommitFrame, kafkaVars, mainVars, commitVars
<1>28. ASSUME NEW c \in Consumers, NEW th \in Threads, CommitRefused(c, th) PROVE OffsetsInv'
  BY <1>28 DEF CommitRefused, CommitFrame, kafkaVars, mainVars, commitVars
<1>29. ASSUME NEW c \in Consumers, NEW th \in Threads, CommitSendFails(c, th) PROVE OffsetsInv'
  BY <1>29, SMTT(30), SMTT(40) DEF CommitSendFails, CommitFrame, Spend, kafkaVars, mainVars,
     commitVars
<1>30. ASSUME NEW c \in Consumers, NEW th \in Threads, CommitFinish(c, th) PROVE OffsetsInv'
  BY <1>30, HandledZero DEF CommitFinish, CommitFrame, CommitReturns,
     kafkaVars, mainVars, commitVars
<1>31. ASSUME Produce PROVE OffsetsInv'
  BY <1>31 DEF Produce, kafkaVars, mainVars, commitVars
<1>32. CASE UNCHANGED vars
  BY <1>32, SMTT(30), SMTT(40) DEF Delivered, vars, kafkaVars, mainVars, commitVars
<1> HIDE DEF OffsetsInv
<1> QED BY <1>1, <1>2, <1>3, <1>4, <1>5, <1>6, <1>7, <1>8, <1>9, <1>10, <1>11,
    <1>12, <1>13, <1>14, <1>15, <1>16, <1>17, <1>18, <1>19, <1>20, <1>21,
    <1>22, <1>23, <1>24, <1>25, <1>26, <1>27, <1>28, <1>29, <1>30, <1>31,
    <1>32, SMTT(30), SMTT(40) DEF Next, Step, Fault, Rebalance

(* Messages are delivered without gaps.                                    *)
LEMMA DeliveryStep == TypeInv /\ OffsetsInv /\ DeliveryInv /\ [Next]_vars => DeliveryInv'
<1> SUFFICES ASSUME TypeInv, OffsetsInv, DeliveryInv, [Next]_vars PROVE DeliveryInv'
    BY SMTT(30), SMTT(40)
<1> /\ pc \in [Consumers -> MainStates] /\ pos \in [Consumers -> Nat]
    /\ cur \in [Consumers -> Nat] /\ Handled(applied, committed)
    BY DEF TypeInv, TypeOK, MainType, OffsetsInv
<1> MainType
    BY DEF TypeInv, TypeOK
<1> USE DEF DeliveryInv
<1>1. ASSUME NEW c \in Consumers, Fetch(c) PROVE DeliveryInv'
  <2> DEFINE i == pos[c] + 1
  <2>1. /\ pc[c] = "poll" /\ pos' = [pos EXCEPT ![c] = i] /\ cur' = [cur EXCEPT ![c] = i]
        /\ Handled(applied, pos[c]) /\ pos[c] \in Nat
    BY <1>1, ZenonT(30) DEF Fetch, Delivered
  <2>2. Handled(applied \cup {i}, i)
    BY <2>1, HandledNext
  <2>3. i - 1 = pos[c]
    BY <2>1, PredSucc
  <2>4. CASE EnterMessage(c, i)
    <3>1. /\ applied' = IF log[i].kind = "tombstone" THEN applied \cup {i} ELSE applied
          /\ pc' = [pc EXCEPT ![c] = Dispatch(log[i])]
      BY <2>4 DEF EnterMessage, HandledBy
    <3> QED BY <2>1, <2>2, <2>3, <3>1, DeliveredOther, ZenonT(30) DEF Delivered, Dispatch
  <2>5. CASE ~EnterMessage(c, i)
    <3>1. applied' = applied /\ pc'[c] \in {"ensure", "closing"} /\ pc' = [pc EXCEPT ![c] = pc'[c]]
      BY <1>1, <2>5, SMTT(30) DEF Fetch
    <3> QED BY <2>1, <2>2, <2>3, <3>1, DeliveredOther, SMTT(30), SMTT(40) DEF Delivered
  <2> QED BY <2>4, <2>5
<1>2. ASSUME NEW c \in Consumers, EnsureLock(c) PROVE DeliveryInv'
  <2>1. /\ pc[c] = "ensure" /\ pos' = pos /\ cur' = cur
        /\ applied' = IF log[cur[c]].kind = "tombstone" THEN applied \cup {cur[c]} ELSE applied
        /\ pc' = [pc EXCEPT ![c] = Dispatch(log[cur[c]])]
    BY <1>2, SMTT(30), SMTT(40) DEF EnsureLock, EnterMessage, HandledBy
  <2>2. Handled(applied \cup {cur[c]}, cur[c])
    BY <2>1, HandledLast, SMTT(30), SMTT(40) DEF Delivered
  <2> QED BY <2>1, <2>2, DeliveredOther, ZenonT(30) DEF Delivered, Dispatch
<1>3. ASSUME NEW c \in Consumers, EnsureLockFails(c) PROVE DeliveryInv'
  BY <1>3 DEF EnsureLockFails, IssueToken, Spend, kafkaVars, mainVars,
     Delivered
<1>4. ASSUME NEW c \in Consumers, BeginAttempt(c) PROVE DeliveryInv'
  BY <1>4, ZenonT(30) DEF BeginAttempt, kafkaVars, mainVars, Delivered
<1>5. ASSUME NEW c \in Consumers, SendDelete(c) PROVE DeliveryInv'
  BY <1>5 DEF SendDelete, kafkaVars, mainVars, Delivered
<1>6. ASSUME NEW c \in Consumers, SendAdd(c) PROVE DeliveryInv'
  <2>1. /\ applied' = applied \cup {cur[c]} /\ pos' = pos /\ cur' = cur
        /\ pc[c] = "write" /\ pc' = [pc EXCEPT ![c] = "store"]
    BY <1>6, ZenonT(30) DEF SendAdd, HandledBy
  <2>2. Handled(applied', pos[c]) /\ Handled(applied', cur[c])
    BY <2>1, HandledLast, SMTT(30), SMTT(40) DEF Delivered
  <2> QED BY <2>1, <2>2, DeliveredOther, ZenonT(30) DEF Delivered
<1>7. ASSUME NEW c \in Consumers, NoToken(c) PROVE DeliveryInv'
  BY <1>7, AttemptFailsEffect, ZenonT(30) DEF NoToken, Delivered
<1>8. ASSUME NEW c \in Consumers, Fenced(c) PROVE DeliveryInv'
  BY <1>8, AttemptFailsEffect DEF Fenced, Delivered
<1>9. ASSUME NEW c \in Consumers, RpcFails(c) PROVE DeliveryInv'
  BY <1>9, AttemptFailsEffect, ZenonT(30) DEF RpcFails, Delivered
<1>10. ASSUME NEW c \in Consumers, StoreOffset(c) PROVE DeliveryInv'
  BY <1>10, SMTT(30), SMTT(40) DEF StoreOffset, kafkaVars, mainVars, Delivered
<1>11. ASSUME NEW c \in Consumers, Revoke(c) PROVE DeliveryInv'
  BY <1>11, SMTT(30), SMTT(40) DEF Revoke, Spend, SpendIfOwner, kafkaVars, mainVars, Delivered
<1>12. ASSUME NEW c \in Consumers, Release(c) PROVE DeliveryInv'
  BY <1>12, SMTT(30), SMTT(40) DEF Release, LosePartition, kafkaVars, mainVars, Delivered
<1>13. ASSUME NEW c \in Consumers, RevokeSkips(c) PROVE DeliveryInv'
  BY <1>13, SMTT(30), SMTT(40) DEF RevokeSkips, Spend, SpendIfOwner, LosePartition, kafkaVars,
     mainVars, Delivered
<1>14. ASSUME NEW c \in Consumers, Evict(c) PROVE DeliveryInv'
  BY <1>14, SMTT(30), SMTT(40) DEF Evict, Spend, kafkaVars, mainVars, Delivered
<1>15. ASSUME NEW c \in Consumers, Assign(c) PROVE DeliveryInv'
  BY <1>15, SMTT(30), SMTT(40) DEF Assign, Join, kafkaVars, mainVars, Delivered
<1>16. ASSUME NEW c \in Consumers, AssignQuietly(c) PROVE DeliveryInv'
  <2>1. applied' = applied /\ pc' = pc /\ cur' = cur /\ pos' = [pos EXCEPT ![c] = committed]
    BY <1>16 DEF AssignQuietly, ResetPosition
  <2>2. Handled(applied, committed) /\ Handled(applied \cup {cur[c]}, committed)
    BY HandledMono, SMTT(30), SMTT(40)
  <2> QED BY <2>1, <2>2, DeliveredOther DEF Delivered
<1>17. ASSUME NEW c \in Consumers, AcquireLock(c) PROVE DeliveryInv'
  BY <1>17, SMTT(30), SMTT(40) DEF AcquireLock, IssueToken, kafkaVars, mainVars, Delivered
<1>18. ASSUME NEW c \in Consumers, StoreToken(c) PROVE DeliveryInv'
  <2>1. applied' = applied /\ pc' = pc /\ cur' = cur /\ pos' = [pos EXCEPT ![c] = committed]
    BY <1>18, SMTT(30), SMTT(40) DEF StoreToken, ResetPosition
  <2>2. Handled(applied, committed) /\ Handled(applied \cup {cur[c]}, committed)
    BY HandledMono
  <2> QED BY <2>1, <2>2, DeliveredOther DEF Delivered
<1>19. ASSUME NEW c \in Consumers, AcquireLockFails(c) PROVE DeliveryInv'
  <2>1. applied' = applied /\ pc' = pc /\ cur' = cur /\ pos' = [pos EXCEPT ![c] = committed]
    BY <1>19, SMTT(30), SMTT(40) DEF AcquireLockFails, ResetPosition
  <2>2. Handled(applied, committed) /\ Handled(applied \cup {cur[c]}, committed)
    BY HandledMono
  <2> QED BY <2>1, <2>2, DeliveredOther DEF Delivered
<1>20. ASSUME NEW c \in Consumers, Sigterm(c) PROVE DeliveryInv'
  BY <1>20, SMTT(30), SMTT(40) DEF Sigterm, Spend, kafkaVars, mainVars, Delivered
<1>21. ASSUME NEW c \in Consumers, SkipFinalCommit(c) PROVE DeliveryInv'
  BY <1>21, SMTT(30), SMTT(40) DEF SkipFinalCommit, kafkaVars, mainVars, Delivered
<1>22. ASSUME NEW c \in Consumers, Close(c) PROVE DeliveryInv'
  BY <1>22, HandledZero, SMTT(30), SMTT(40) DEF Close, Gone, kafkaVars, mainVars, Delivered
<1>23. ASSUME NEW c \in Consumers, Crash(c) PROVE DeliveryInv'
  BY <1>23, HandledZero DEF Crash, Gone, Spend, kafkaVars, mainVars, Delivered
<1>24. ASSUME NEW c \in Consumers, Restart(c) PROVE DeliveryInv'
  BY <1>24, HandledZero, SMTT(30), SMTT(40) DEF Restart, kafkaVars, mainVars, Delivered
<1>25. ASSUME NEW c \in Consumers, NEW th \in Threads, CommitCopy(c, th) PROVE DeliveryInv'
  BY <1>25, SMTT(30) DEF CommitCopy, CommitFrame, CommitReturns, kafkaVars, mainVars,
     Delivered
<1>26. ASSUME NEW c \in Consumers, NEW th \in Threads, CommitUnassigned(c, th) PROVE DeliveryInv'
  BY <1>26, ZenonT(30) DEF CommitUnassigned, CommitFrame, CommitReturns, kafkaVars,
     mainVars, Delivered
<1>27. ASSUME NEW c \in Consumers, NEW th \in Threads, CommitSend(c, th) PROVE DeliveryInv'
  BY <1>27, SMTT(30), SMTT(40) DEF CommitSend, CommitFrame, kafkaVars, mainVars, Delivered
<1>28. ASSUME NEW c \in Consumers, NEW th \in Threads, CommitRefused(c, th) PROVE DeliveryInv'
  BY <1>28, SMTT(30), SMTT(40) DEF CommitRefused, CommitFrame, kafkaVars, mainVars, Delivered
<1>29. ASSUME NEW c \in Consumers, NEW th \in Threads, CommitSendFails(c, th) PROVE DeliveryInv'
  BY <1>29, SMTT(30), SMTT(40) DEF CommitSendFails, CommitFrame, Spend, kafkaVars, mainVars,
     Delivered
<1>30. ASSUME NEW c \in Consumers, NEW th \in Threads, CommitFinish(c, th) PROVE DeliveryInv'
  BY <1>30, SMTT(30), SMTT(40)
     DEF CommitFinish, CommitFrame, CommitReturns, kafkaVars, mainVars,
     Delivered
<1>31. ASSUME Produce PROVE DeliveryInv'
  BY <1>31, SMTT(30), SMTT(40) DEF Produce, kafkaVars, mainVars, Delivered
<1>32. CASE UNCHANGED vars
  BY <1>32 DEF Delivered, vars, kafkaVars, mainVars, commitVars
<1> HIDE DEF DeliveryInv
<1> QED BY <1>1, <1>2, <1>3, <1>4, <1>5, <1>6, <1>7, <1>8, <1>9, <1>10, <1>11,
    <1>12, <1>13, <1>14, <1>15, <1>16, <1>17, <1>18, <1>19, <1>20, <1>21,
    <1>22, <1>23, <1>24, <1>25, <1>26, <1>27, <1>28, <1>29, <1>30, <1>31,
    <1>32, SMTT(30), SMTT(40) DEF Next, Step, Fault, Rebalance

-----------------------------------------------------------------------------
(* The invariants hold initially.                                          *)
LEMMA InitInv == Init => TypeInv /\ TokenInv /\ OffsetsInv /\ DeliveryInv
<1> SUFFICES ASSUME Init PROVE TypeInv /\ TokenInv /\ OffsetsInv /\ DeliveryInv
    OBVIOUS
<1>1. KafkaType /\ KesselType
    BY DEF Init, KafkaType, KesselType
<1>2. MainType
    BY DEF Init, MainType, MainStates
<1>3. TokenType /\ CommitType
    BY DEF Init, TokenType, CommitType, CallbackStates
<1>4. CursorInv /\ budget \in 0..MaxFaults
    BY ConsumerAssumption DEF Init, CursorInv
<1>5. TokenInv
    BY SMTT(30), SMTT(40) DEF Init, TokenInv
<1>6. OffsetsInv /\ DeliveryInv
    BY HandledZero DEF Init, OffsetsInv, DeliveryInv, Delivered, Threads
<1> QED BY <1>1, <1>2, <1>3, <1>4, <1>5, <1>6 DEF TypeInv, TypeOK

(* Every variable keeps its type, for any number of consumers, messages,   *)
(* retries and faults and whatever the consumer group does.                *)
THEOREM TypeCorrect == Spec => []TypeOK
<1>1. TypeInv => TypeOK
    BY DEF TypeInv
<1> QED BY InitInv, TypeStep, <1>1, PTL DEF Spec

(* No message below the committed offset is unhandled: OffsetManager       *)
(* stores and commits offsets, from both threads, only for messages the    *)
(* consumer has finished.  Holds for every rebalance behaviour.            *)
THEOREM NoMessageLost == Spec => []AtLeastOnce
<1>1. TypeInv /\ OffsetsInv => AtLeastOnce
    BY DEF OffsetsInv, Handled, AtLeastOnce
<1> QED BY InitInv, TypeStep, OffsetsStep, DeliveryStep, <1>1, PTL DEF Spec

(* Kessel never accepts calls of two consumers at the same time: the       *)
(* newest fencing token has one holder, through every rebalance, crash and *)
(* late acquisition.                                                       *)
THEOREM SingleWriter == Spec => []OneWriter
<1>1. TypeInv /\ TokenInv => OneWriter
    BY SMTT(30), SMTT(40)
       DEF TypeInv, TypeOK, KesselType, MainType, TokenInv, OneWriter, Accepted
<1> QED BY InitInv, TypeStep, TokenStep, <1>1, PTL DEF Spec

(* A step of the consumers publishes a message, finishes a message whose    *)
(* predecessors are finished, commits an offset, or leaves the pipeline    *)
(* alone.                                                                  *)
Publishes == \E m \in Messages : Pipeline!Publish(m)
Finishes == \E i \in 1..Len(log) : Pipeline!Handle(i)
Commits == \E c \in Consumers, th \in Threads :
    committed' = copy[c][th] /\ UNCHANGED <<log, applied>>
Leaves == UNCHANGED <<log, applied, committed>>

(* Every step publishes, finishes or commits in the pipeline, or leaves it *)
(* alone.                                                                  *)
LEMMA PipelineStep ==
    ASSUME TypeInv, DeliveryInv, [Next]_vars
    PROVE  Publishes \/ Finishes \/ Commits \/ Leaves
<1> /\ pc \in [Consumers -> MainStates] /\ pos \in [Consumers -> Nat]
    /\ cur \in [Consumers -> Nat]
    BY DEF TypeInv, TypeOK, MainType
<1>1. ASSUME NEW c \in Consumers, Fetch(c) PROVE Finishes \/ Leaves
  <2> DEFINE i == pos[c] + 1
  <2>a. log \in Seq(Messages)
    BY Zenon DEF TypeInv, TypeOK, KafkaType
  <2>b. Len(log) \in Nat
    BY <2>a, SMTT(30)
  <2>c. pos[c] + 1 <= Len(log)
    BY <1>1, ZenonT(30) DEF Fetch
  <2>0. i <= Len(log) /\ Len(log) \in Nat /\ pos[c] \in Nat
    BY <2>b, <2>c, SMTT(30), SMTT(40)
  <2>1. i \in 1..Len(log) /\ log' = log /\ committed' = committed
    BY <1>1, <2>0, SMTT(30) DEF Fetch, kafkaVars
  <2>2. Handled(applied, pos[c])
    BY <1>1, ZenonT(30) DEF Fetch, DeliveryInv, Delivered
  <2>3. i - 1 = pos[c]
    BY SMTT(30), SMTT(40)
  <2>4. applied' = applied \/ applied' = applied \cup {i}
    BY <1>1 DEF Fetch, EnterMessage, HandledBy
  <2> HIDE DEF i
  <2>5. CASE applied' = applied \cup {i}
    BY <2>1, <2>2, <2>3, <2>5, SMTT(30), SMTT(40) DEF Finishes, Pipeline!Handle, Handled
  <2> QED BY <2>1, <2>4, <2>5 DEF Leaves
<1>2. ASSUME NEW c \in Consumers, EnsureLock(c) PROVE Finishes \/ Leaves
  <2>1. cur[c] \in 1..Len(log) /\ log' = log /\ committed' = committed
    BY <1>2 DEF EnsureLock, TypeInv, CursorInv, kafkaVars
  <2>2. Handled(applied, cur[c] - 1)
    BY <1>2, ZenonT(30) DEF EnsureLock, DeliveryInv, Delivered
  <2>3. applied' = applied \/ applied' = applied \cup {cur[c]}
    BY <1>2 DEF EnsureLock, EnterMessage, HandledBy
  <2>4. CASE applied' = applied \cup {cur[c]}
    BY <2>1, <2>2, <2>4, ZenonT(30) DEF Finishes, Pipeline!Handle, Handled
  <2> QED BY <2>1, <2>3, <2>4 DEF Leaves
<1>3. ASSUME NEW c \in Consumers, EnsureLockFails(c) PROVE Leaves
  BY <1>3 DEF EnsureLockFails, IssueToken, Spend, kafkaVars, mainVars, Leaves
<1>4. ASSUME NEW c \in Consumers, BeginAttempt(c) PROVE Leaves
  BY <1>4 DEF BeginAttempt, kafkaVars, mainVars, Leaves
<1>5. ASSUME NEW c \in Consumers, SendDelete(c) PROVE Leaves
  BY <1>5 DEF SendDelete, kafkaVars, mainVars, Leaves
<1>6. ASSUME NEW c \in Consumers, SendAdd(c) PROVE Finishes
  <2>1. cur[c] \in 1..Len(log) /\ log' = log /\ committed' = committed
    BY <1>6 DEF SendAdd, TypeInv, CursorInv, kafkaVars
  <2>2. Handled(applied, cur[c] - 1)
    BY <1>6, ZenonT(30) DEF SendAdd, DeliveryInv, Delivered
  <2>3. applied' = applied \cup {cur[c]}
    BY <1>6, SMTT(30), SMTT(40) DEF SendAdd, HandledBy
  <2> QED BY <2>1, <2>2, <2>3, ZenonT(30) DEF Finishes, Pipeline!Handle, Handled
<1>7. ASSUME NEW c \in Consumers, NoToken(c) PROVE Leaves
  BY <1>7 DEF NoToken, AttemptFails, kafkaVars, mainVars, Leaves
<1>8. ASSUME NEW c \in Consumers, Fenced(c) PROVE Leaves
  BY <1>8, SMTT(30), SMTT(40) DEF Fenced, AttemptFails, kafkaVars, mainVars, Leaves
<1>9. ASSUME NEW c \in Consumers, RpcFails(c) PROVE Leaves
  BY <1>9 DEF RpcFails, AttemptFails, Spend, kafkaVars, mainVars, Leaves
<1>10. ASSUME NEW c \in Consumers, StoreOffset(c) PROVE Leaves
  BY <1>10 DEF StoreOffset, kafkaVars, mainVars, Leaves
<1>11. ASSUME NEW c \in Consumers, Revoke(c) PROVE Leaves
  BY <1>11 DEF Revoke, Spend, SpendIfOwner, kafkaVars, mainVars, Leaves
<1>12. ASSUME NEW c \in Consumers, Release(c) PROVE Leaves
  BY <1>12 DEF Release, LosePartition, kafkaVars, mainVars, Leaves
<1>13. ASSUME NEW c \in Consumers, RevokeSkips(c) PROVE Leaves
  BY <1>13 DEF RevokeSkips, Spend, SpendIfOwner, LosePartition, kafkaVars, mainVars, Leaves
<1>14. ASSUME NEW c \in Consumers, Evict(c) PROVE Leaves
  BY <1>14, SMTT(30), SMTT(40) DEF Evict, Spend, kafkaVars, mainVars, Leaves
<1>15. ASSUME NEW c \in Consumers, Assign(c) PROVE Leaves
  BY <1>15, SMTT(30), SMTT(40) DEF Assign, Join, kafkaVars, mainVars, Leaves
<1>16. ASSUME NEW c \in Consumers, AssignQuietly(c) PROVE Leaves
  BY <1>16 DEF AssignQuietly, Join, ResetPosition, kafkaVars, mainVars, Leaves
<1>17. ASSUME NEW c \in Consumers, AcquireLock(c) PROVE Leaves
  BY <1>17 DEF AcquireLock, IssueToken, kafkaVars, mainVars, Leaves
<1>18. ASSUME NEW c \in Consumers, StoreToken(c) PROVE Leaves
  BY <1>18 DEF StoreToken, ResetPosition, kafkaVars, mainVars, Leaves
<1>19. ASSUME NEW c \in Consumers, AcquireLockFails(c) PROVE Leaves
  BY <1>19 DEF AcquireLockFails, IssueToken, Spend, ResetPosition, kafkaVars, mainVars, Leaves
<1>20. ASSUME NEW c \in Consumers, Sigterm(c) PROVE Leaves
  BY <1>20 DEF Sigterm, Spend, kafkaVars, mainVars, Leaves
<1>21. ASSUME NEW c \in Consumers, SkipFinalCommit(c) PROVE Leaves
  BY <1>21, SMTT(30), SMTT(40) DEF SkipFinalCommit, kafkaVars, mainVars, Leaves
<1>22. ASSUME NEW c \in Consumers, Close(c) PROVE Leaves
  BY <1>22, SMTT(30), SMTT(40) DEF Close, Gone, kafkaVars, mainVars, Leaves
<1>23. ASSUME NEW c \in Consumers, Crash(c) PROVE Leaves
  BY <1>23 DEF Crash, Gone, Spend, kafkaVars, mainVars, Leaves
<1>24. ASSUME NEW c \in Consumers, Restart(c) PROVE Leaves
  BY <1>24 DEF Restart, kafkaVars, mainVars, Leaves
<1>25. ASSUME NEW c \in Consumers, NEW th \in Threads, CommitCopy(c, th) PROVE Leaves
  BY <1>25, SMTT(30), SMTT(40) DEF CommitCopy, CommitFrame, kafkaVars, mainVars, Leaves
<1>26. ASSUME NEW c \in Consumers, NEW th \in Threads, CommitUnassigned(c, th) PROVE Leaves
  BY <1>26 DEF CommitUnassigned, CommitFrame, CommitReturns, kafkaVars, mainVars, Leaves
<1>27. ASSUME NEW c \in Consumers, NEW th \in Threads, CommitSend(c, th) PROVE Commits
  BY <1>27 DEF CommitSend, CommitFrame, kafkaVars, mainVars, Commits
<1>28. ASSUME NEW c \in Consumers, NEW th \in Threads, CommitRefused(c, th) PROVE Leaves
  BY <1>28, SMTT(30), SMTT(40) DEF CommitRefused, CommitFrame, kafkaVars, mainVars, Leaves
<1>29. ASSUME NEW c \in Consumers, NEW th \in Threads, CommitSendFails(c, th) PROVE Commits \/ Leaves
  BY <1>29, SMTT(30), SMTT(40)
     DEF CommitSendFails, CommitFrame, Spend, kafkaVars, mainVars, Commits, Leaves
<1>30. ASSUME NEW c \in Consumers, NEW th \in Threads, CommitFinish(c, th) PROVE Leaves
  BY <1>30 DEF CommitFinish, CommitFrame, CommitReturns, kafkaVars, mainVars, Leaves
<1>31. ASSUME Produce PROVE Publishes
  BY <1>31 DEF Produce, mainVars, Publishes, Pipeline!Publish
<1>32. CASE UNCHANGED vars
  BY <1>32 DEF vars, kafkaVars, mainVars, Leaves
<1> HIDE DEF Publishes, Finishes, Commits, Leaves
<1> QED BY <1>1, <1>2, <1>3, <1>4, <1>5, <1>6, <1>7, <1>8, <1>9, <1>10, <1>11,
    <1>12, <1>13, <1>14, <1>15, <1>16, <1>17, <1>18, <1>19, <1>20, <1>21,
    <1>22, <1>23, <1>24, <1>25, <1>26, <1>27, <1>28, <1>29, <1>30, <1>31,
    <1>32, SMTT(30), SMTT(40) DEF Next, Step, Fault, Rebalance

(* What is finished is on the topic.                                       *)
AppliedInv == applied \subseteq 1..Len(log)

(* Every step keeps the prefix of finished messages.                       *)
LEMMA AppliedStep ==
    TypeInv /\ DeliveryInv /\ AppliedInv /\ [Next]_vars => AppliedInv'
<1> SUFFICES ASSUME TypeInv, DeliveryInv, AppliedInv, [Next]_vars PROVE AppliedInv'
    OBVIOUS
<1>1. CASE Publishes
  <2>1. PICK m \in Messages : Pipeline!Publish(m)
    BY <1>1 DEF Publishes
  <2>2. log \in Seq(Messages)
    BY DEF TypeInv, TypeOK, KafkaType
  <2>3. Len(log') = Len(log) + 1 /\ Len(log) \in Nat
    BY <2>1, <2>2 DEF Pipeline!Publish
  <2>4. applied' = applied
    BY <2>1 DEF Pipeline!Publish
  <2> QED BY <2>3, <2>4 DEF AppliedInv
<1>2. CASE Finishes
    BY <1>2 DEF Finishes, Pipeline!Handle, AppliedInv
<1>3. CASE Commits \/ Leaves
    BY <1>3, ZenonT(30) DEF Commits, Leaves, AppliedInv
<1> QED BY <1>1, <1>2, <1>3, PipelineStep

(* The consumers implement the pipeline the rest of the system relies on:  *)
(* messages are first finished in the order of the topic, and committed    *)
(* offsets follow, whatever crashes, retries and rebalances there are.     *)
THEOREM PipelineRefined == Spec => ImplementsPipeline
<1>1. Init => AppliedInv /\ Pipeline!PipelineInit
    BY DEF Init, AppliedInv, Pipeline!PipelineInit
<1>2. ASSUME TypeInv, OffsetsInv, DeliveryInv, AppliedInv, [Next]_vars
      PROVE  [Pipeline!PipelineNext]_(Pipeline!pipelineVars)
  <2>1. CASE Publishes
    BY <2>1 DEF Publishes, Pipeline!PipelineNext
  <2>2. CASE Finishes
    BY <2>2 DEF Finishes, Pipeline!PipelineNext
  <2>3. CASE Commits
    <3>1. PICK c \in Consumers, th \in Threads :
            committed' = copy[c][th] /\ UNCHANGED <<log, applied>>
      BY <2>3 DEF Commits
    <3>2. 1..copy[c][th] \subseteq applied /\ copy[c][th] \in Nat
      BY <1>2 DEF OffsetsInv, Handled, TypeInv, TypeOK, CommitType
    <3>3. Len(log) \in Nat
      BY <1>2 DEF TypeInv, TypeOK, KafkaType
    <3>4. copy[c][th] \in 0..Len(log)
      BY <1>2, <3>2, <3>3 DEF AppliedInv
    <3> QED BY <3>1, <3>2, <3>4 DEF Pipeline!PipelineNext, Pipeline!Commit
  <2>4. CASE Leaves
    BY <2>4 DEF Leaves, Pipeline!pipelineVars
  <2> QED BY <1>2, <2>1, <2>2, <2>3, <2>4, PipelineStep
<1> QED
    BY InitInv, TypeStep, OffsetsStep, DeliveryStep, AppliedStep, <1>1, <1>2, PTL
    DEF Spec, ImplementsPipeline, Pipeline!PipelineSpec
=============================================================================
