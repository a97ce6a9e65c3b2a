------------------------- MODULE ConsumerTypeProofs --------------------------
(***************************************************************************)
(* Every step of the consumer keeps its variables in their types.  Each    *)
(* variable group has its own type, so that an action is checked against   *)
(* the groups it changes only.                                             *)
(***************************************************************************)
EXTENDS KafkaConsumer, TLAPS

(* What a failed attempt does to the main thread.                          *)
LEMMA AttemptFailsEffect ==
    ASSUME MainType, NEW c \in Consumers, AttemptFails(c)
    PROVE  /\ pc'[c] \in {"attempt", "closing"}
           /\ \A d \in Consumers \ {c} : pc'[d] = pc[d]
           /\ UNCHANGED <<pos, cur, atk, dels, first, done, applied, lock, holder>>
           /\ UNCHANGED <<kafkaVars, tokenVars, commitVars>>
BY DEF AttemptFails, MainType

(* A step that leaves a group of variables alone leaves their types alone. *)
LEMMA KafkaKept == KafkaType /\ UNCHANGED kafkaVars => KafkaType'
BY DEF KafkaType, kafkaVars

(* A step that leaves Kessel alone keeps its types.                        *)
LEMMA KesselKept == KesselType /\ UNCHANGED kesselVars => KesselType'
BY DEF KesselType, kesselVars

(* A step that leaves the main threads alone keeps their types.            *)
LEMMA MainKept == MainType /\ UNCHANGED mainVars => MainType'
BY DEF MainType, mainVars

(* A step that leaves the lock tokens alone keeps their types.             *)
LEMMA TokenKept == TokenType /\ UNCHANGED tokenVars => TokenType'
BY DEF TokenType, tokenVars

(* A step that leaves the commits alone keeps their types.                 *)
LEMMA CommitKept == CommitType /\ UNCHANGED commitVars => CommitType'
BY DEF CommitType, commitVars

(* Entering a message keeps the types of the main threads.                 *)
LEMMA EnterMessageType ==
    ASSUME MainType, NEW c \in Consumers, NEW i \in Nat, EnterMessage(c, i)
    PROVE  /\ pc' \in [Consumers -> MainStates] /\ first' \in [Consumers -> BOOLEAN]
           /\ retries' \in [Consumers -> Nat]
           /\ done' \in [Consumers -> Nat] /\ applied' \subseteq Nat
<1>1. pc' \in [Consumers -> MainStates] /\ retries' \in [Consumers -> Nat]
    BY DEF MainType, EnterMessage, Dispatch, MainStates
<1>2. first' \in [Consumers -> BOOLEAN]
    BY DEF MainType, EnterMessage
<1>3. done' \in [Consumers -> Nat] /\ applied' \subseteq Nat
    BY ZenonT(30) DEF MainType, EnterMessage, HandledBy
<1> QED BY <1>1, <1>2, <1>3

(* A failed attempt keeps the types of the main threads.                   *)
LEMMA AttemptFailsType ==
    ASSUME MainType, NEW c \in Consumers, AttemptFails(c)
    PROVE  MainType'
<1>1. pc' \in [Consumers -> MainStates]
    BY DEF MainType, AttemptFails, MainStates
<1>2. retries' \in [Consumers -> Nat]
  <2>1. CASE exceeded_max_retries(retries[c])
    BY <2>1 DEF MainType, AttemptFails
  <2>2. CASE ~exceeded_max_retries(retries[c])
    BY <2>2 DEF MainType, AttemptFails
  <2> QED BY <2>1, <2>2
<1>3. paused' \in [Consumers -> BOOLEAN]
  <2>1. CASE exceeded_max_retries(retries[c])
    BY <2>1, ZenonT(30) DEF MainType, AttemptFails
  <2>2. CASE ~exceeded_max_retries(retries[c])
    BY <2>2, SMTT(30), SMTT(40) DEF MainType, AttemptFails
  <2> QED BY <2>1, <2>2
<1> QED BY <1>1, <1>2, <1>3 DEF MainType, AttemptFails


(* Every step keeps the variables in their types, and the message being    *)
(* processed inside the topic.                                             *)
LEMMA TypeStep == TypeInv /\ [Next]_vars => TypeInv'
<1> SUFFICES ASSUME TypeInv, [Next]_vars PROVE TypeInv'
    OBVIOUS
<1> KafkaType /\ KesselType /\ MainType /\ TokenType /\ CommitType
    /\ CursorInv /\ budget \in 0..MaxFaults
    BY DEF TypeInv, TypeOK
<1>1. ASSUME NEW c \in Consumers, Fetch(c) PROVE TypeInv'
  <2>1. KafkaType' /\ KesselType' /\ TokenType' /\ CommitType' /\ budget' = budget
    BY <1>1, KafkaKept, KesselKept, TokenKept, CommitKept DEF Fetch
  <2>2. MainType'
    <3> DEFINE i == pos[c] + 1
    <3>1. i \in Nat /\ pos' \in [Consumers -> Nat] /\ cur' \in [Consumers -> Nat]
      BY <1>1 DEF Fetch, MainType
    <3>2. CASE EnterMessage(c, i)
      BY <1>1, <3>1, <3>2, EnterMessageType, ZenonT(30) DEF Fetch, MainType
    <3>3. CASE ~EnterMessage(c, i)
      BY <1>1, <3>1, <3>3, ZenonT(30) DEF Fetch, MainType, MainStates
    <3> QED BY <3>2, <3>3
  <2>3. CursorInv'
    BY <1>1, SMTT(30), SMTT(40)
       DEF Fetch, EnterMessage, Dispatch, CursorInv, MainType, KafkaType,
      mainVars, kafkaVars
  <2> QED BY <2>1, <2>2, <2>3 DEF TypeInv, TypeOK
<1>2. ASSUME NEW c \in Consumers, EnsureLock(c) PROVE TypeInv'
  <2>1. KafkaType' /\ CommitType' /\ budget' = budget
    BY <1>2, KafkaKept, CommitKept DEF EnsureLock
  <2>2. KesselType'
    BY <1>2 DEF EnsureLock, EnterMessage, Dispatch, HandledBy, IssueToken,
      KesselType, kesselVars
  <2>3. MainType'
    <3>1. cur[c] \in Nat
      BY DEF MainType
    <3> QED BY <1>2, <3>1, EnterMessageType DEF EnsureLock, MainType
  <2>4. TokenType'
    BY <1>2 DEF EnsureLock, EnterMessage, Dispatch, HandledBy, IssueToken,
      TokenType, tokenVars, CallbackStates, KesselType
  <2>5. CursorInv'
    BY <1>2 DEF EnsureLock, EnterMessage, Dispatch, CursorInv, MainType,
      KafkaType, mainVars, kafkaVars
  <2> QED BY <2>1, <2>2, <2>3, <2>4, <2>5 DEF TypeInv, TypeOK
<1>3. ASSUME NEW c \in Consumers, EnsureLockFails(c) PROVE TypeInv'
  <2>1. KafkaType' /\ TokenType' /\ CommitType'
    BY <1>3, KafkaKept, TokenKept, CommitKept DEF EnsureLockFails
  <2>2. KesselType'
    BY <1>3 DEF EnsureLockFails, IssueToken, Spend, KesselType, kesselVars
  <2>3. MainType'
    BY <1>3 DEF EnsureLockFails, IssueToken, Spend, MainType, mainVars,
      MainStates
  <2>4. CursorInv'
    BY <1>3, SMTT(30), SMTT(40) DEF EnsureLockFails, CursorInv, MainType, KafkaType, mainVars,
      kafkaVars
  <2>5. budget' \in 0..MaxFaults
    BY <1>3, ConsumerAssumption DEF EnsureLockFails, Spend
  <2> QED BY <2>1, <2>2, <2>3, <2>4, <2>5 DEF TypeInv, TypeOK
<1>4. ASSUME NEW c \in Consumers, BeginAttempt(c) PROVE TypeInv'
  <2>1. KafkaType' /\ KesselType' /\ TokenType' /\ CommitType' /\ budget' = budget
    BY <1>4, KafkaKept, KesselKept, TokenKept, CommitKept, SMTT(30), SMTT(40) DEF BeginAttempt
  <2>2. MainType'
    <3>1. log[cur[c]].remove \subseteq Tuples
      <4>1. cur[c] \in 1..Len(log) /\ log \in Seq(Messages)
        BY <1>4 DEF BeginAttempt, CursorInv, KafkaType
      <4>2. log[cur[c]] \in Messages
        BY <4>1
      <4> QED BY <4>2, MessagesAssumption, SMTT(30), SMTT(40) DEF Message
    <3>2. tok[c] \in Nat
      BY DEF TokenType
    <3> QED BY <1>4, <3>1, <3>2 DEF BeginAttempt, MainType, MainStates
  <2>3. CursorInv'
    BY <1>4, SMTT(30), SMTT(40) DEF BeginAttempt, CursorInv, MainType, KafkaType, mainVars,
      kafkaVars
  <2> QED BY <2>1, <2>2, <2>3 DEF TypeInv, TypeOK
<1>5. ASSUME NEW c \in Consumers, SendDelete(c) PROVE TypeInv'
  <2>1. KafkaType' /\ TokenType' /\ CommitType' /\ budget' = budget
    BY <1>5, KafkaKept, TokenKept, CommitKept DEF SendDelete
  <2>2. KesselType'
    BY <1>5 DEF SendDelete, KesselType, kesselVars, MainType
  <2>3. MainType'
    BY <1>5 DEF SendDelete, MainType, mainVars, MainStates
  <2>4. CursorInv'
    BY <1>5, SMTT(30), SMTT(40) DEF SendDelete, CursorInv, MainType, KafkaType, mainVars,
      kafkaVars
  <2> QED BY <2>1, <2>2, <2>3, <2>4 DEF TypeInv, TypeOK
<1>6. ASSUME NEW c \in Consumers, SendAdd(c) PROVE TypeInv'
  <2>1. KafkaType' /\ TokenType' /\ CommitType' /\ budget' = budget
    BY <1>6, KafkaKept, TokenKept, CommitKept, SMTT(30), SMTT(40) DEF SendAdd
  <2>2. KesselType'
    BY <1>6, MessagesAssumption, SMTT(30), SMTT(40) DEF SendAdd, HandledBy, KesselType,
      kesselVars, CursorInv, KafkaType, Message, MainType
  <2>3. MainType'
    BY <1>6, ZenonT(30) DEF SendAdd, HandledBy, MainType, mainVars, MainStates
  <2>4. CursorInv'
    BY <1>6, SMTT(30), SMTT(40) DEF SendAdd, CursorInv, MainType, KafkaType, mainVars, kafkaVars
  <2> QED BY <2>1, <2>2, <2>3, <2>4 DEF TypeInv, TypeOK
<1>7. ASSUME NEW c \in Consumers, NoToken(c) PROVE TypeInv'
  <2>1. KafkaType' /\ TokenType' /\ CommitType' /\ budget' = budget
    BY <1>7, KafkaKept, TokenKept, CommitKept DEF NoToken, AttemptFails
  <2>2. KesselType'
    BY <1>7 DEF NoToken, AttemptFails, KesselType, kesselVars
  <2>3. MainType'
    BY <1>7, AttemptFailsType DEF NoToken
  <2>4. CursorInv'
    BY <1>7, SMTT(30), SMTT(40) DEF NoToken, AttemptFails, CursorInv, MainType, KafkaType,
      mainVars, kafkaVars
  <2> QED BY <2>1, <2>2, <2>3, <2>4 DEF TypeInv, TypeOK
<1>8. ASSUME NEW c \in Consumers, Fenced(c) PROVE TypeInv'
  <2>1. KafkaType' /\ TokenType' /\ CommitType' /\ budget' = budget
    BY <1>8, KafkaKept, TokenKept, CommitKept DEF Fenced, AttemptFails
  <2>2. KesselType'
    BY <1>8 DEF Fenced, AttemptFails, KesselType, kesselVars
  <2>3. MainType'
    BY <1>8, AttemptFailsType DEF Fenced
  <2>4. CursorInv'
    BY <1>8, SMTT(30), SMTT(40) DEF Fenced, AttemptFails, CursorInv, MainType, KafkaType,
      mainVars, kafkaVars
  <2> QED BY <2>1, <2>2, <2>3, <2>4 DEF TypeInv, TypeOK
<1>9. ASSUME NEW c \in Consumers, RpcFails(c) PROVE TypeInv'
  <2>1. KafkaType' /\ TokenType' /\ CommitType'
    BY <1>9, KafkaKept, TokenKept, CommitKept, SMTT(30), SMTT(40) DEF RpcFails, AttemptFails
  <2>2. KesselType'
    <3>1. log[cur[c]].add \subseteq Tuples
      BY <1>9, MessagesAssumption DEF RpcFails, CursorInv, KafkaType, Message
    <3>2. store' \subseteq Tuples
      BY <1>9, <3>1, SMTT(30), SMTT(40) DEF RpcFails, KesselType
    <3> QED BY <1>9, <3>2 DEF RpcFails, AttemptFails, KesselType
  <2>3. MainType'
    BY <1>9, AttemptFailsType, SMTT(30), SMTT(40) DEF RpcFails
  <2>4. CursorInv'
    BY <1>9, SMTT(30), SMTT(40) DEF RpcFails, AttemptFails, CursorInv, MainType, KafkaType,
      mainVars, kafkaVars
  <2>5. budget' \in 0..MaxFaults
    BY <1>9, ConsumerAssumption DEF RpcFails, Spend
  <2> QED BY <2>1, <2>2, <2>3, <2>4, <2>5 DEF TypeInv, TypeOK
<1>10. ASSUME NEW c \in Consumers, StoreOffset(c) PROVE TypeInv'
  <2>1. KafkaType' /\ KesselType' /\ TokenType' /\ budget' = budget
    BY <1>10, KafkaKept, KesselKept, TokenKept DEF StoreOffset
  <2>2. MainType'
    BY <1>10 DEF StoreOffset, MainType, mainVars, MainStates
  <2>3. CommitType'
    BY <1>10 DEF StoreOffset, CommitType, commitVars, Threads, MainType
  <2>4. CursorInv'
    BY <1>10, SMTT(30), SMTT(40) DEF StoreOffset, CursorInv, MainType, KafkaType, mainVars,
      kafkaVars
  <2> QED BY <2>1, <2>2, <2>3, <2>4 DEF TypeInv, TypeOK
<1>11. ASSUME NEW c \in Consumers, Revoke(c) PROVE TypeInv'
  <2>1. KafkaType' /\ KesselType' /\ MainType' /\ CommitType'
    BY <1>11, KafkaKept, KesselKept, MainKept, CommitKept DEF Revoke
  <2>2. TokenType'
    BY <1>11 DEF Revoke, Spend, SpendIfOwner, TokenType, tokenVars,
      CallbackStates, KesselType
  <2>3. CursorInv'
    BY <1>11, SMTT(30), SMTT(40) DEF Revoke, CursorInv, MainType, KafkaType, mainVars, kafkaVars
  <2>4. budget' \in 0..MaxFaults
    BY <1>11, ConsumerAssumption DEF Revoke, Spend, SpendIfOwner
  <2> QED BY <2>1, <2>2, <2>3, <2>4 DEF TypeInv, TypeOK
<1>12. ASSUME NEW c \in Consumers, Release(c) PROVE TypeInv'
  <2>1. KesselType' /\ MainType' /\ CommitType' /\ budget' = budget
    BY <1>12, KesselKept, MainKept, CommitKept DEF Release
  <2>2. KafkaType'
    BY <1>12 DEF Release, LosePartition, KafkaType, kafkaVars
  <2>3. TokenType'
    BY <1>12 DEF Release, LosePartition, TokenType, tokenVars, CallbackStates,
      KesselType
  <2>4. CursorInv'
    BY <1>12, SMTT(30), SMTT(40) DEF Release, LosePartition, CursorInv, MainType, KafkaType,
      mainVars, kafkaVars
  <2> QED BY <2>1, <2>2, <2>3, <2>4 DEF TypeInv, TypeOK
<1>13. ASSUME NEW c \in Consumers, RevokeSkips(c) PROVE TypeInv'
  <2>1. KesselType' /\ MainType' /\ TokenType' /\ CommitType'
    BY <1>13, KesselKept, MainKept, TokenKept, CommitKept, SMTT(30), SMTT(40) DEF RevokeSkips
  <2>2. KafkaType'
    BY <1>13 DEF RevokeSkips, Spend, SpendIfOwner, LosePartition, KafkaType,
      kafkaVars
  <2>3. CursorInv'
    BY <1>13, SMTT(30), SMTT(40) DEF RevokeSkips, LosePartition, CursorInv, MainType, KafkaType,
      mainVars, kafkaVars
  <2>4. budget' \in 0..MaxFaults
    BY <1>13, ConsumerAssumption DEF RevokeSkips, Spend, SpendIfOwner
  <2> QED BY <2>1, <2>2, <2>3, <2>4 DEF TypeInv, TypeOK
<1>14. ASSUME NEW c \in Consumers, Evict(c) PROVE TypeInv'
  <2>1. KesselType' /\ MainType' /\ TokenType' /\ CommitType'
    BY <1>14, KesselKept, MainKept, TokenKept, CommitKept DEF Evict
  <2>2. KafkaType'
    BY <1>14, SMTT(30), SMTT(40) DEF Evict, Spend, KafkaType, kafkaVars
  <2>3. CursorInv'
    BY <1>14, SMTT(30), SMTT(40) DEF Evict, CursorInv, MainType, KafkaType, mainVars, kafkaVars
  <2>4. budget' \in 0..MaxFaults
    BY <1>14, ConsumerAssumption DEF Evict, Spend
  <2> QED BY <2>1, <2>2, <2>3, <2>4 DEF TypeInv, TypeOK
<1>15. ASSUME NEW c \in Consumers, Assign(c) PROVE TypeInv'
  <2>1. KesselType' /\ MainType' /\ CommitType' /\ budget' = budget
    BY <1>15, KesselKept, MainKept, CommitKept DEF Assign
  <2>2. KafkaType'
    BY <1>15 DEF Assign, Join, KafkaType, kafkaVars
  <2>3. TokenType'
    BY <1>15, SMTT(30), SMTT(40) DEF Assign, Join, TokenType, tokenVars, CallbackStates,
      KesselType
  <2>4. CursorInv'
    BY <1>15, SMTT(30), SMTT(40) DEF Assign, Join, CursorInv, MainType, KafkaType, mainVars,
      kafkaVars
  <2> QED BY <2>1, <2>2, <2>3, <2>4 DEF TypeInv, TypeOK
<1>16. ASSUME NEW c \in Consumers, AssignQuietly(c) PROVE TypeInv'
  <2>1. KesselType' /\ TokenType' /\ CommitType' /\ budget' = budget
    BY <1>16, KesselKept, TokenKept, CommitKept, SMTT(30), SMTT(40) DEF AssignQuietly
  <2>2. KafkaType'
    BY <1>16, SMTT(30), SMTT(40) DEF AssignQuietly, Join, ResetPosition, KafkaType, kafkaVars
  <2>3. MainType'
    BY <1>16, SMTT(30), SMTT(40) DEF AssignQuietly, Join, ResetPosition, MainType, mainVars,
      MainStates, KafkaType
  <2>4. CursorInv'
    BY <1>16, SMTT(30), SMTT(40) DEF AssignQuietly, Join, ResetPosition, CursorInv, MainType,
      KafkaType, mainVars, kafkaVars
  <2> QED BY <2>1, <2>2, <2>3, <2>4 DEF TypeInv, TypeOK
<1>17. ASSUME NEW c \in Consumers, AcquireLock(c) PROVE TypeInv'
  <2>1. KafkaType' /\ MainType' /\ CommitType' /\ budget' = budget
    BY <1>17, KafkaKept, MainKept, CommitKept DEF AcquireLock
  <2>2. KesselType'
    BY <1>17 DEF AcquireLock, IssueToken, KesselType, kesselVars
  <2>3. TokenType'
    BY <1>17, SMTT(30), SMTT(40) DEF AcquireLock, IssueToken, TokenType, tokenVars,
      CallbackStates, KesselType
  <2>4. CursorInv'
    BY <1>17, SMTT(30), SMTT(40) DEF AcquireLock, CursorInv, MainType, KafkaType, mainVars,
      kafkaVars
  <2> QED BY <2>1, <2>2, <2>3, <2>4 DEF TypeInv, TypeOK
<1>18. ASSUME NEW c \in Consumers, StoreToken(c) PROVE TypeInv'
  <2>1. KafkaType' /\ KesselType' /\ CommitType' /\ budget' = budget
    BY <1>18, KafkaKept, KesselKept, CommitKept, SMTT(30), SMTT(40) DEF StoreToken
  <2>2. MainType'
    BY <1>18, SMTT(30), SMTT(40) DEF StoreToken, ResetPosition, MainType, mainVars, MainStates,
      KafkaType
  <2>3. TokenType'
    BY <1>18 DEF StoreToken, ResetPosition, TokenType, tokenVars,
      CallbackStates, KesselType
  <2>4. CursorInv'
    BY <1>18, SMTT(30), SMTT(40) DEF StoreToken, ResetPosition, CursorInv, MainType, KafkaType,
      mainVars, kafkaVars
  <2> QED BY <2>1, <2>2, <2>3, <2>4 DEF TypeInv, TypeOK
<1>19. ASSUME NEW c \in Consumers, AcquireLockFails(c) PROVE TypeInv'
  <2>1. KafkaType' /\ CommitType'
    BY <1>19, KafkaKept, CommitKept DEF AcquireLockFails
  <2>2. KesselType'
    BY <1>19, SMTT(30), SMTT(40) DEF AcquireLockFails, IssueToken, Spend, ResetPosition,
      KesselType, kesselVars
  <2>3. MainType'
    BY <1>19, SMTT(30), SMTT(40)
       DEF AcquireLockFails, IssueToken, Spend, ResetPosition, MainType,
      mainVars, MainStates, KafkaType
  <2>4. TokenType'
    BY <1>19 DEF AcquireLockFails, IssueToken, Spend, ResetPosition,
      TokenType, tokenVars, CallbackStates, KesselType
  <2>5. CursorInv'
    BY <1>19, SMTT(30), SMTT(40) DEF AcquireLockFails, ResetPosition, CursorInv, MainType,
      KafkaType, mainVars, kafkaVars
  <2>6. budget' \in 0..MaxFaults
    BY <1>19, ConsumerAssumption DEF AcquireLockFails, Spend
  <2> QED BY <2>1, <2>2, <2>3, <2>4, <2>5, <2>6 DEF TypeInv, TypeOK
<1>20. ASSUME NEW c \in Consumers, Sigterm(c) PROVE TypeInv'
  <2>1. KafkaType' /\ KesselType' /\ TokenType'
    BY <1>20, KafkaKept, KesselKept, TokenKept, SMTT(30), SMTT(40) DEF Sigterm
  <2>2. MainType'
    BY <1>20 DEF Sigterm, Spend, MainType, mainVars, MainStates
  <2>3. CommitType'
    BY <1>20, SMTT(30), SMTT(40) DEF Sigterm, Spend, CommitType, commitVars, Threads
  <2>4. CursorInv'
    BY <1>20, SMTT(30), SMTT(40)
       DEF Sigterm, CursorInv, MainType, KafkaType, mainVars, kafkaVars
  <2>5. budget' \in 0..MaxFaults
    BY <1>20, ConsumerAssumption DEF Sigterm, Spend
  <2> QED BY <2>1, <2>2, <2>3, <2>4, <2>5, SMTT(30), SMTT(40) DEF TypeInv, TypeOK
<1>21. ASSUME NEW c \in Consumers, SkipFinalCommit(c) PROVE TypeInv'
  <2>1. KafkaType' /\ KesselType' /\ TokenType' /\ CommitType' /\ budget' = budget
    BY <1>21, KafkaKept, KesselKept, TokenKept, CommitKept, SMTT(30), SMTT(40)
       DEF SkipFinalCommit
  <2>2. MainType'
    BY <1>21, SMTT(30), SMTT(40) DEF SkipFinalCommit, MainType, mainVars, MainStates
  <2>3. CursorInv'
    BY <1>21, SMTT(30), SMTT(40) DEF SkipFinalCommit, CursorInv, MainType, KafkaType, mainVars,
      kafkaVars
  <2> QED BY <2>1, <2>2, <2>3 DEF TypeInv, TypeOK
<1>22. ASSUME NEW c \in Consumers, Close(c) PROVE TypeInv'
  <2>1. KafkaType'
    BY <1>22, SMTT(30), SMTT(40) DEF Close, Gone, KafkaType, kafkaVars
  <2>2. KesselType'
    BY <1>22, SMTT(30), SMTT(40) DEF Close, Gone, KesselType, kesselVars
  <2>3. MainType'
    BY <1>22, SMTT(30), SMTT(40) DEF Close, Gone, MainType, mainVars, MainStates
  <2>4. TokenType'
    BY <1>22, SMTT(30), SMTT(40)
       DEF Close, Gone, TokenType, tokenVars, CallbackStates, KesselType
  <2>5. CommitType'
    BY <1>22, SMTT(30), SMTT(40) DEF Close, Gone, CommitType, commitVars, Threads
  <2>6. CursorInv'
    BY <1>22, SMTT(30), SMTT(40) DEF Close, Gone, CursorInv, MainType, KafkaType, mainVars,
      kafkaVars
  <2>7. budget' \in 0..MaxFaults
    BY <1>22, ConsumerAssumption DEF Close, Spend
  <2> QED BY <2>1, <2>2, <2>3, <2>4, <2>5, <2>6, <2>7 DEF TypeInv, TypeOK
<1>23. ASSUME NEW c \in Consumers, Crash(c) PROVE TypeInv'
  <2>1. KafkaType'
    BY <1>23, SMTT(30), SMTT(40) DEF Crash, Gone, Spend, KafkaType, kafkaVars
  <2>2. KesselType'
    BY <1>23, SMTT(30), SMTT(40) DEF Crash, Gone, Spend, KesselType, kesselVars
  <2>3. MainType'
    BY <1>23, SMTT(30), SMTT(40) DEF Crash, Gone, Spend, MainType, mainVars, MainStates
  <2>4. TokenType'
    BY <1>23, SMTT(30), SMTT(40) DEF Crash, Gone, Spend, TokenType, tokenVars, CallbackStates,
      KesselType
  <2>5. CommitType'
    BY <1>23, SMTT(30), SMTT(40) DEF Crash, Gone, Spend, CommitType, commitVars, Threads
  <2>6. CursorInv'
    BY <1>23, SMTT(30), SMTT(40) DEF Crash, Gone, CursorInv, MainType, KafkaType, mainVars,
      kafkaVars
  <2>7. budget' \in 0..MaxFaults
    BY <1>23, ConsumerAssumption DEF Crash, Spend
  <2> QED BY <2>1, <2>2, <2>3, <2>4, <2>5, <2>6, <2>7 DEF TypeInv, TypeOK
<1>24. ASSUME NEW c \in Consumers, Restart(c) PROVE TypeInv'
  <2>1. KafkaType' /\ KesselType' /\ TokenType' /\ CommitType' /\ budget' = budget
    BY <1>24, KafkaKept, KesselKept, TokenKept, CommitKept, SMTT(30), SMTT(40) DEF Restart
  <2>2. MainType'
    BY <1>24, SMTT(30), SMTT(40) DEF Restart, MainType, mainVars, MainStates
  <2>3. CursorInv'
    BY <1>24, SMTT(30), SMTT(40)
       DEF Restart, CursorInv, MainType, KafkaType, mainVars, kafkaVars
  <2> QED BY <2>1, <2>2, <2>3 DEF TypeInv, TypeOK
<1>25. ASSUME NEW c \in Consumers, NEW th \in Threads, CommitCopy(c, th) PROVE TypeInv'
  <2>1. KesselType' /\ budget' = budget
    BY <1>25, KesselKept, SMTT(30), SMTT(40) DEF CommitCopy, CommitFrame
  <2>2. KafkaType'
    BY <1>25, SMTT(30), SMTT(40)
       DEF CommitCopy, CommitFrame, CommitReturns, KafkaType, kafkaVars
  <2>3. MainType'
    BY <1>25, SMTT(30), SMTT(40) DEF CommitCopy, CommitFrame, CommitReturns, MainType, mainVars,
      MainStates
  <2>4. TokenType'
    BY <1>25 DEF CommitCopy, CommitFrame, CommitReturns, TokenType, tokenVars,
      CallbackStates, KesselType
  <2>5. CommitType'
    <3>1. CASE stored[c] = 0
      BY <1>25, <3>1 DEF CommitCopy, CommitType
    <3>2. CASE stored[c] # 0
      <4>1. /\ copy' = [copy EXCEPT ![c] = [copy[c] EXCEPT ![th] = stored[c]]]
            /\ cstep' = [cstep EXCEPT ![c] = [cstep[c] EXCEPT ![th] = "copied"]]
            /\ stored' = stored
        BY <1>25, <3>2 DEF CommitCopy
      <4>2. stored[c] \in Nat /\ copy[c] \in [Threads -> Nat]
        BY SMTT(30), SMTT(40) DEF CommitType
      <4> QED BY <4>1, <4>2 DEF CommitType
    <3> QED BY <3>1, <3>2, SMTT(30), SMTT(40)
  <2>6. CursorInv'
    BY <1>25, SMTT(30), SMTT(40)
       DEF CommitCopy, CommitFrame, CommitReturns, CursorInv, MainType,
      KafkaType, mainVars, kafkaVars
  <2> QED BY <2>1, <2>2, <2>3, <2>4, <2>5, <2>6 DEF TypeInv, TypeOK
<1>26. ASSUME NEW c \in Consumers, NEW th \in Threads, CommitUnassigned(c, th) PROVE TypeInv'
  <2>1. KesselType' /\ budget' = budget
    BY <1>26, KesselKept, SMTT(30), SMTT(40) DEF CommitUnassigned, CommitFrame
  <2>2. KafkaType'
    BY <1>26, SMTT(30), SMTT(40) DEF CommitUnassigned, CommitFrame, CommitReturns, KafkaType,
      kafkaVars
  <2>3. MainType'
    BY <1>26, SMTT(30), SMTT(40) DEF CommitUnassigned, CommitFrame, CommitReturns, MainType,
      mainVars, MainStates
  <2>4. TokenType'
    BY <1>26, SMTT(30), SMTT(40) DEF CommitUnassigned, CommitFrame, CommitReturns, TokenType,
      tokenVars, CallbackStates, KesselType
  <2>5. CommitType'
    BY <1>26, SMTT(30) DEF CommitUnassigned, CommitFrame, CommitReturns, CommitType,
      commitVars, Threads
  <2>6. CursorInv'
    BY <1>26, ZenonT(30) DEF CommitUnassigned, CommitFrame, CommitReturns, CursorInv,
      MainType, KafkaType, mainVars, kafkaVars
  <2> QED BY <2>1, <2>2, <2>3, <2>4, <2>5, <2>6 DEF TypeInv, TypeOK
<1>27. ASSUME NEW c \in Consumers, NEW th \in Threads, CommitSend(c, th) PROVE TypeInv'
  <2>1. KesselType' /\ budget' = budget
    BY <1>27, KesselKept DEF CommitSend, CommitFrame
  <2>2. KafkaType'
    BY <1>27, SMTT(30), SMTT(40) DEF CommitSend, CommitFrame, KafkaType, kafkaVars, CommitType,
      Threads
  <2>3. MainType'
    BY <1>27, SMTT(30), SMTT(40) DEF CommitSend, CommitFrame, MainType, mainVars, MainStates
  <2>4. TokenType'
    BY <1>27, SMTT(30), SMTT(40) DEF CommitSend, CommitFrame, TokenType, tokenVars,
      CallbackStates, KesselType
  <2>5. CommitType'
    BY <1>27, SMTT(30), SMTT(40) DEF CommitSend, CommitFrame, CommitType, commitVars, Threads
  <2>6. CursorInv'
    BY <1>27, SMTT(30), SMTT(40) DEF CommitSend, CommitFrame, CursorInv, MainType, KafkaType,
      mainVars, kafkaVars
  <2> QED BY <2>1, <2>2, <2>3, <2>4, <2>5, <2>6 DEF TypeInv, TypeOK
<1>28. ASSUME NEW c \in Consumers, NEW th \in Threads, CommitRefused(c, th) PROVE TypeInv'
  <2>1. KesselType' /\ budget' = budget
    BY <1>28, KesselKept, SMTT(30), SMTT(40) DEF CommitRefused, CommitFrame
  <2>2. KafkaType'
    BY <1>28, SMTT(30), SMTT(40) DEF CommitRefused, CommitFrame, KafkaType, kafkaVars
  <2>3. MainType'
    BY <1>28, SMTT(30), SMTT(40) DEF CommitRefused, CommitFrame, MainType, mainVars, MainStates
  <2>4. TokenType'
    BY <1>28, SMTT(30), SMTT(40) DEF CommitRefused, CommitFrame, TokenType, tokenVars,
      CallbackStates, KesselType
  <2>5. CommitType'
    BY <1>28, SMTT(30), SMTT(40) DEF CommitRefused, CommitFrame, CommitType, commitVars, Threads
  <2>6. CursorInv'
    BY <1>28, SMTT(30), SMTT(40) DEF CommitRefused, CommitFrame, CursorInv, MainType, KafkaType,
      mainVars, kafkaVars
  <2> QED BY <2>1, <2>2, <2>3, <2>4, <2>5, <2>6 DEF TypeInv, TypeOK
<1>29. ASSUME NEW c \in Consumers, NEW th \in Threads, CommitSendFails(c, th) PROVE TypeInv'
  <2>1. KesselType'
    BY <1>29, KesselKept, SMTT(30), SMTT(40) DEF CommitSendFails, CommitFrame
  <2>2. KafkaType'
    BY <1>29, SMTT(30), SMTT(40) DEF CommitSendFails, CommitFrame, Spend, KafkaType, kafkaVars,
      CommitType, Threads
  <2>3. MainType'
    BY <1>29, SMTT(30), SMTT(40) DEF CommitSendFails, CommitFrame, Spend, MainType, mainVars,
      MainStates
  <2>4. TokenType'
    BY <1>29, SMTT(30), SMTT(40) DEF CommitSendFails, CommitFrame, Spend, TokenType, tokenVars,
      CallbackStates, KesselType
  <2>5. CommitType'
    BY <1>29, SMTT(30), SMTT(40)
       DEF CommitSendFails, CommitFrame, Spend, CommitType, commitVars,
      Threads
  <2>6. CursorInv'
    BY <1>29, SMTT(30), SMTT(40)
       DEF CommitSendFails, CommitFrame, CursorInv, MainType, KafkaType,
      mainVars, kafkaVars
  <2>7. budget' \in 0..MaxFaults
    BY <1>29, ConsumerAssumption DEF CommitSendFails, Spend
  <2> QED BY <2>1, <2>2, <2>3, <2>4, <2>5, <2>6, <2>7 DEF TypeInv, TypeOK
<1>30. ASSUME NEW c \in Consumers, NEW th \in Threads, CommitFinish(c, th) PROVE TypeInv'
  <2>1. KesselType' /\ budget' = budget
    BY <1>30, KesselKept, SMTT(30), SMTT(40) DEF CommitFinish, CommitFrame
  <2>2. KafkaType'
    BY <1>30, SMTT(30), SMTT(40) DEF CommitFinish, CommitFrame, CommitReturns, KafkaType,
      kafkaVars
  <2>3. MainType'
    BY <1>30, SMTT(30), SMTT(40)
       DEF CommitFinish, CommitFrame, CommitReturns, MainType, mainVars,
      MainStates
  <2>4. TokenType'
    BY <1>30, SMTT(30), SMTT(40) DEF CommitFinish, CommitFrame, CommitReturns, TokenType,
      tokenVars, CallbackStates, KesselType
  <2>5. CommitType'
    BY <1>30, SMTT(30), SMTT(40) DEF CommitFinish, CommitFrame, CommitReturns, CommitType,
      commitVars, Threads
  <2>6. CursorInv'
    BY <1>30, SMTT(30), SMTT(40) DEF CommitFinish, CommitFrame, CommitReturns, CursorInv,
      MainType, KafkaType, mainVars, kafkaVars
  <2> QED BY <2>1, <2>2, <2>3, <2>4, <2>5, <2>6 DEF TypeInv, TypeOK
<1>31. ASSUME Produce PROVE TypeInv'
  <2>1. KesselType' /\ MainType' /\ TokenType' /\ CommitType' /\ budget' = budget
    BY <1>31, KesselKept, MainKept, TokenKept, CommitKept DEF Produce
  <2>2. KafkaType'
    BY <1>31 DEF Produce, KafkaType, kafkaVars
  <2>3. CursorInv'
    BY <1>31, SMTT(30) DEF Produce, CursorInv, MainType, KafkaType, mainVars, kafkaVars
  <2> QED BY <2>1, <2>2, <2>3 DEF TypeInv, TypeOK
<1>32. CASE UNCHANGED vars
  BY <1>32, ZenonT(30)
     DEF TypeInv, TypeOK, vars, KafkaType, KesselType, MainType, TokenType, CommitType,
     CursorInv, kafkaVars, kesselVars, mainVars, tokenVars, commitVars
<1> QED BY <1>1, <1>2, <1>3, <1>4, <1>5, <1>6, <1>7, <1>8, <1>9, <1>10, <1>11,
    <1>12, <1>13, <1>14, <1>15, <1>16, <1>17, <1>18, <1>19, <1>20, <1>21,
    <1>22, <1>23, <1>24, <1>25, <1>26, <1>27, <1>28, <1>29, <1>30, <1>31,
    <1>32, SMTT(30), SMTT(40) DEF Next, Step, Fault, Rebalance
=============================================================================
