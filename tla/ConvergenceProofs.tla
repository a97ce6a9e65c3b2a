------------------------- MODULE ConvergenceProofs ---------------------------
(***************************************************************************)
(* Kessel converges to the log: the proof that ConvergenceInv is inductive *)
(* in a calm group.                                                        *)
(*                                                                         *)
(* The floor is the prefix of the log that the holder of the newest token  *)
(* has applied.  Above it messages are delivered again, so a tuple may be  *)
(* as any later prefix leaves it, or deleted too early.  The floor never   *)
(* lies below the committed offset, so when everything is committed it is  *)
(* the whole log and the store is exactly what the log describes.          *)
(***************************************************************************)
EXTENDS KafkaConsumerProofs, PositionProofs

(* What a prefix of the log says of a tuple is settled by its messages.     *)
LEMMA PresentAppend ==
    ASSUME NEW L \in Seq(Messages), NEW m \in Messages, NEW i \in Nat, i <= Len(L), NEW t
    PROVE  Present(Append(L, m), i, t) <=> Present(L, i, t)
<1>1. \A k \in 1..i : Append(L, m)[k] = L[k]
    OBVIOUS
<1> QED BY <1>1 DEF Present

(* A message that adds a tuple leaves it present.                          *)
LEMMA PresentAdd ==
    ASSUME NEW L, NEW n \in Nat, n >= 1, NEW t, t \in L[n].add
    PROVE  Present(L, n, t)
BY DEF Present

(* A message that removes a tuple and does not add it leaves it absent.    *)
LEMMA PresentRemove ==
    ASSUME NEW L, NEW n \in Nat, n >= 1, NEW t, t \notin L[n].add, t \in L[n].remove
    PROVE  ~Present(L, n, t)
<1> SUFFICES ASSUME NEW i \in 1..n, t \in L[i].add,
                    \A j \in (i + 1)..n : t \in L[j].add \/ t \notin L[j].remove
             PROVE  FALSE
    BY DEF Present
<1>1. i # n
    OBVIOUS
<1>2. n \in (i + 1)..n
    BY <1>1
<1> QED BY <1>2

(* A message that does not name a tuple leaves it as it was.               *)
LEMMA PresentSame ==
    ASSUME NEW L, NEW n \in Nat, NEW t, t \notin L[n + 1].add, t \notin L[n + 1].remove
    PROVE  Present(L, n + 1, t) <=> Present(L, n, t)
<1>1. ASSUME NEW i \in 1..n
      PROVE  (\A j \in (i + 1)..(n + 1) : t \in L[j].add \/ t \notin L[j].remove)
             <=> (\A j \in (i + 1)..n : t \in L[j].add \/ t \notin L[j].remove)
    <2>1. (i + 1)..(n + 1) = ((i + 1)..n) \cup {n + 1}
        OBVIOUS
    <2> QED BY <2>1
<1>2. 1..(n + 1) = (1..n) \cup {n + 1}
    OBVIOUS
<1> QED BY <1>1, <1>2 DEF Present

(* The store stays explained when the log grows, ...                       *)
LEMMA ExplainedAppend ==
    ASSUME NEW L \in Seq(Messages), NEW m \in Messages, NEW S, NEW n \in Nat,
           Explained(L, S, n)
    PROVE  Explained(Append(L, m), S, n)
<1> SUFFICES ASSUME NEW t \in Tuples
             PROVE  \/ \E i \in n..Len(Append(L, m)) : t \in S <=> Present(Append(L, m), i, t)
                    \/ t \notin S /\ \E j \in (n + 1)..Len(Append(L, m)) :
                                         t \in Append(L, m)[j].remove
    BY ZenonT(30) DEF Explained
<1>1. Len(Append(L, m)) = Len(L) + 1 /\ Len(L) \in Nat
    OBVIOUS
<1>2. CASE \E i \in n..Len(L) : t \in S <=> Present(L, i, t)
    <2>1. PICK i \in n..Len(L) : t \in S <=> Present(L, i, t)
        BY <1>2
    <2>2. i \in Nat /\ i <= Len(L) /\ i \in n..Len(Append(L, m))
        BY <1>1
    <2>3. Present(Append(L, m), i, t) <=> Present(L, i, t)
        BY <2>2, PresentAppend
    <2> QED BY <2>1, <2>2, <2>3
<1>3. CASE t \notin S /\ \E j \in (n + 1)..Len(L) : t \in L[j].remove
    <2>1. PICK j \in (n + 1)..Len(L) : t \in L[j].remove
        BY <1>3
    <2>2. Append(L, m)[j] = L[j] /\ j \in (n + 1)..Len(Append(L, m))
        BY <1>1
    <2> QED BY <1>3, <2>1, <2>2
<1> QED BY <1>2, <1>3, SMTT(30), SMTT(40) DEF Explained

(* ... when the next writer starts further back, ...                       *)
LEMMA ExplainedLower ==
    ASSUME NEW L \in Seq(Messages), NEW S, NEW n \in Nat, NEW k \in Nat, k <= n,
           Explained(L, S, n)
    PROVE  Explained(L, S, k)
<1>1. n..Len(L) \subseteq k..Len(L) /\ (n + 1)..Len(L) \subseteq (k + 1)..Len(L)
    OBVIOUS
<1> QED BY <1>1, ZenonT(30) DEF Explained

(* ... when the next message's deletes are applied one by one, ...         *)
LEMMA ExplainedDelete ==
    ASSUME NEW L \in Seq(Messages), NEW S, NEW n \in Nat, n + 1 <= Len(L),
           NEW t, t \in L[n + 1].remove, Explained(L, S, n)
    PROVE  Explained(L, S \ {t}, n)
<1>1. n + 1 \in (n + 1)..Len(L)
    OBVIOUS
<1> QED BY <1>1, ZenonT(30) DEF Explained

(* ... when its adds are applied, ...                                      *)
LEMMA ExplainedWrite ==
    ASSUME NEW L \in Seq(Messages), NEW S, NEW n \in Nat, n + 1 <= Len(L),
           Explained(L, S, n)
    PROVE  Explained(L, S \cup L[n + 1].add, n)
<1>1. \A t : t \in L[n + 1].add => Present(L, n + 1, t)
    BY PresentAdd
<1>2. n + 1 \in n..Len(L)
    OBVIOUS
<1> QED BY <1>1, <1>2, ZenonT(30) DEF Explained

(* ... and when it has been applied as a whole.                            *)
LEMMA ExplainedNext ==
    ASSUME NEW L \in Seq(Messages), NEW S, NEW T, NEW n \in Nat, n + 1 <= Len(L),
           Explained(L, S, n),
           \A t \in Tuples :
              /\ t \in L[n + 1].add => t \in T
              /\ t \notin L[n + 1].add /\ t \in L[n + 1].remove => t \notin T
              /\ t \notin L[n + 1].add /\ t \notin L[n + 1].remove => (t \in T <=> t \in S)
    PROVE  Explained(L, T, n + 1)
<1> SUFFICES ASSUME NEW t \in Tuples
             PROVE  \/ \E i \in (n + 1)..Len(L) : t \in T <=> Present(L, i, t)
                    \/ t \notin T /\ \E j \in (n + 1 + 1)..Len(L) : t \in L[j].remove
    BY ZenonT(30) DEF Explained
<1>1. n + 1 \in (n + 1)..Len(L) /\ n + 1 >= 1 /\ n + 1 \in Nat
    OBVIOUS
<1>2. CASE t \in L[n + 1].add
    BY <1>1, <1>2, PresentAdd
<1>3. CASE t \notin L[n + 1].add /\ t \in L[n + 1].remove
    BY <1>1, <1>3, PresentRemove
<1>4. CASE t \notin L[n + 1].add /\ t \notin L[n + 1].remove
    <2>1. Present(L, n + 1, t) <=> Present(L, n, t)
        BY <1>4, PresentSame
    <2>2. t \in T <=> t \in S
        BY <1>4
    <2>3. CASE \E i \in n..Len(L) : t \in S <=> Present(L, i, t)
        <3>1. PICK i \in n..Len(L) : t \in S <=> Present(L, i, t)
            BY <2>3
        <3>2. i = n \/ i \in (n + 1)..Len(L)
            OBVIOUS
        <3> QED BY <1>1, <2>1, <2>2, <3>1, <3>2
    <2>4. CASE t \notin S /\ \E j \in (n + 1)..Len(L) : t \in L[j].remove
        <3>1. PICK j \in (n + 1)..Len(L) : t \in L[j].remove
            BY <2>4
        <3>2. j # n + 1
            BY <1>4, <3>1
        <3>3. j \in (n + 1 + 1)..Len(L)
            BY <3>2
        <3> QED BY <2>2, <2>4, <3>1, <3>3
    <2> QED BY <2>3, <2>4 DEF Explained
<1> QED BY <1>2, <1>3, <1>4

(* An accepted attempt works on the first message above the floor.         *)
LEMMA WriterFloor ==
    ASSUME TypeInv, TokenInv, OwnerInv, PositionInv, NEW c \in Consumers,
           pc[c] = "write", Accepted(c)
    PROVE  /\ holder = c /\ cb[c] # "store" /\ Floor = done[c]
           /\ cur[c] = Floor + 1 /\ cur[c] <= Len(log)
<1>1. holder = c
    BY DEF TypeInv, TypeOK, KesselType, TokenInv, Accepted
<1>2. cb[c] # "store"
    BY DEF OwnerInv, OwnerPart, Acquiring
<1>3. Floor = done[c]
    BY <1>1, <1>2, ConsumerAssumption DEF Floor
<1> QED BY <1>1, <1>2, <1>3 DEF PositionInv, PositionPart

(* The floor moves only with its writer.                                   *)
LEMMA FloorKept ==
    ASSUME holder' = holder, committed' = committed,
           holder # NoConsumer => /\ done'[holder] = done[holder]
                                  /\ cb'[holder] = "store" <=> cb[holder] = "store"
    PROVE  Floor' = Floor
BY DEF Floor

(* The store stays explained when neither it nor the floor changes.        *)
LEMMA StoreKept ==
    ASSUME TypeInv, StoreInv, Floor' = Floor, committed' = committed,
           log' = log, store' = store
    PROVE  StoreInv'
BY DEF StoreInv

(* The store stays explained when the floor falls to a committed prefix.   *)
LEMMA StoreLower ==
    ASSUME TypeInv, StoreInv, Floor' \in Nat, Floor' <= Floor, committed' <= Floor',
           log' = log, store' = store
    PROVE  StoreInv'
<1>1. log \in Seq(Messages) /\ Floor \in Nat /\ Len(log) \in Nat
    BY FloorType DEF TypeInv, TypeOK, KafkaType
<1>2. Explained(log, store, Floor')
    BY <1>1, ExplainedLower DEF StoreInv
<1>3. Floor' <= Len(log)
    BY <1>1 DEF StoreInv
<1> QED BY <1>2, <1>3 DEF StoreInv

(* A tombstone changes nothing but the floor.                              *)
LEMMA StoreTombstone ==
    ASSUME TypeInv, StoreInv, NEW n \in Nat, n <= Floor, n + 1 <= Len(log), committed <= n,
           log[n + 1].kind = "tombstone", Floor' = n + 1,
           committed' = committed, log' = log, store' = store
    PROVE  StoreInv'
<1>1. /\ log \in Seq(Messages) /\ Floor \in Nat /\ Len(log) \in Nat
      /\ committed \in Nat
    BY FloorType DEF TypeInv, TypeOK, KafkaType
<1>2. Explained(log, store, n)
    BY <1>1, ExplainedLower DEF StoreInv
<1>3. log[n + 1] \in Messages
    BY <1>1
<1>4. log[n + 1].add = {} /\ log[n + 1].remove = {}
    BY <1>3, MessagesAssumption
<1>5. Explained(log, store, n + 1)
    BY <1>1, <1>2, <1>4, ExplainedNext, SMTT(30), SMTT(40)
<1> QED BY <1>1, <1>5 DEF StoreInv

(* Every step of a process leaves the store explained.                     *)
LEMMA StoreStep ==
    ASSUME Calm, TypeInv, TokenInv, OwnerInv, PositionInv, StoreInv, AttemptInv, NEW c \in Consumers, ProcessStep(c)
    PROVE  StoreInv'
<1> /\ committed \in Nat /\ Floor \in Nat /\ Len(log) \in Nat /\ log \in Seq(Messages)
    /\ KesselType /\ MainType /\ TokenType
    BY FloorType DEF TypeInv, TypeOK, KafkaType
<1>1. CASE Fetch(c)
  <2> DEFINE i == pos[c] + 1
  <2>1. /\ UNCHANGED <<log, committed, store, holder, cb>> /\ cb[c] = "idle" /\ i <= Len(log)
        /\ i = done[c] + 1
    BY <1>1 DEF Fetch, PositionInv, PositionPart, kafkaVars, kesselVars, tokenVars
  <2>2. CASE done' = done
    BY <2>1, <2>2, FloorKept, StoreKept
  <2>3. CASE log[i].kind = "tombstone" /\ done' = [done EXCEPT ![c] = i]
    <3>1. CASE holder = c
      <4>1. Floor = done[c] /\ Floor' = i
        BY <2>1, <2>3, <3>1, ConsumerAssumption, SMTT(30), SMTT(40) DEF Floor, MainType
      <4> QED BY <2>1, <2>3, <4>1, StoreTombstone, SMTT(30), SMTT(40) DEF StoreInv
    <3>2. CASE holder # c
      BY <2>1, <2>3, <3>2, FloorKept, StoreKept, SMTT(30), SMTT(40) DEF MainType
    <3> QED BY <3>1, <3>2, SMTT(30), SMTT(40)
  <2> QED BY <1>1, <2>2, <2>3, SMTT(30), SMTT(40) DEF Fetch, EnterMessage, HandledBy
<1>2. CASE EnsureLock(c)
  <2>1. /\ UNCHANGED <<log, committed, store, cb>> /\ holder' = c /\ cb[c] = "idle"
        /\ done[c] = committed /\ cur[c] = committed + 1 /\ cur[c] <= Len(log)
    BY <1>2, SMTT(30), SMTT(40)
       DEF EnsureLock, IssueToken, kafkaVars, OwnerInv, OwnerPart, Acquiring,
       PositionInv, PositionPart
  <2>2. Floor' = done'[c]
    BY <2>1, ConsumerAssumption DEF Floor
  <2>3. CASE done' = done
    <3>1. Floor' = committed
      BY <2>1, <2>2, <2>3
    <3> QED BY <2>1, <3>1, StoreLower DEF StoreInv
  <2>4. CASE log[cur[c]].kind = "tombstone" /\ done' = [done EXCEPT ![c] = cur[c]]
    <3>1. Floor' = committed + 1 /\ log[committed + 1].kind = "tombstone"
      BY <2>1, <2>2, <2>4 DEF MainType
    <3> QED BY <2>1, <3>1, StoreTombstone, SMTT(30) DEF StoreInv
  <2> QED BY <1>2, <2>3, <2>4, SMTT(30), SMTT(40) DEF EnsureLock, EnterMessage, HandledBy
<1>3. CASE EnsureLockFails(c)
  <2>1. UNCHANGED <<committed, log, store>> /\ (holder' = NoConsumer \/ holder' = holder)
    BY <1>3 DEF EnsureLockFails, IssueToken, kafkaVars
  <2>2. CASE holder' = NoConsumer
    <3>1. Floor' = committed
      BY <2>1, <2>2, SMTT(30), SMTT(40) DEF Floor
    <3> QED BY <2>1, <3>1, StoreLower, SMTT(30), SMTT(40) DEF StoreInv
  <2>3. CASE holder' = holder
    <3>1. UNCHANGED <<done, cb>>
      BY <1>3, SMTT(30), SMTT(40) DEF EnsureLockFails, tokenVars
    <3> QED BY <2>1, <2>3, <3>1, FloorKept, StoreKept
  <2> QED BY <2>1, <2>2, <2>3
<1>4. CASE BeginAttempt(c)
  <2>1. UNCHANGED <<holder, committed, done, cb, log, store>>
    BY <1>4 DEF BeginAttempt, kafkaVars, kesselVars, mainVars, tokenVars
  <2> QED BY <2>1, FloorKept, StoreKept
<1>5. CASE SendDelete(c)
  <2>1. PICK t \in dels[c] : store' = store \ {t}
    BY <1>5 DEF SendDelete
  <2>2. UNCHANGED <<log, committed, holder, done, cb>> /\ pc[c] = "write" /\ Accepted(c)
    BY <1>5 DEF SendDelete, kafkaVars, tokenVars
  <2>3. cur[c] = Floor + 1 /\ cur[c] <= Len(log) /\ Floor' = Floor
    BY <2>2, WriterFloor, FloorKept
  <2>4. t \in log[Floor + 1].remove
    BY <2>1, <2>2, <2>3 DEF AttemptInv, AttemptPart
  <2>5. Explained(log, store \ {t}, Floor)
    BY <2>3, <2>4, ExplainedDelete, ZenonT(30) DEF StoreInv
  <2> QED BY <2>1, <2>2, <2>3, <2>5 DEF StoreInv
<1>6. CASE SendAdd(c)
  <2>1. /\ pc[c] = "write" /\ Accepted(c) /\ dels[c] = {}
        /\ store' = store \cup log[cur[c]].add
        /\ UNCHANGED <<log, committed, holder, cb>> /\ done'[c] = cur[c]
    BY <1>6, SMTT(30), SMTT(40) DEF SendAdd, HandledBy, kafkaVars, tokenVars, MainType
  <2>2. /\ holder = c /\ cb[c] # "store" /\ Floor = done[c]
        /\ cur[c] = Floor + 1 /\ Floor + 1 <= Len(log)
    BY <2>1, WriterFloor
  <2>3. Floor' = Floor + 1
    BY <2>1, <2>2, ConsumerAssumption, SMTT(30), SMTT(40) DEF Floor
  <2>4. \A t \in log[Floor + 1].remove : t \notin store
    BY <2>1, <2>2 DEF AttemptInv, AttemptPart
  <2>5. Explained(log, store', Floor + 1)
    <3>1. store' = store \cup log[Floor + 1].add
      BY <2>1, <2>2, SMTT(30), SMTT(40)
    <3> QED BY <2>2, <2>4, <3>1, ExplainedNext DEF StoreInv
  <2> QED BY <2>1, <2>2, <2>3, <2>5, SMTT(30), SMTT(40) DEF StoreInv
<1>7. CASE NoToken(c)
  <2>1. UNCHANGED <<holder, committed, done, cb, log, store>>
    BY <1>7, AttemptFailsEffect, SMTT(30), SMTT(40) DEF NoToken, kafkaVars, tokenVars
  <2> QED BY <2>1, FloorKept, StoreKept
<1>8. CASE Fenced(c)
  <2>1. UNCHANGED <<holder, committed, done, cb, log, store>>
    BY <1>8, AttemptFailsEffect DEF Fenced, kafkaVars, tokenVars
  <2> QED BY <2>1, FloorKept, StoreKept
<1>9. CASE RpcFails(c)
  <2>1. UNCHANGED <<log, committed, holder, done, cb>>
    BY <1>9, AttemptFailsEffect DEF RpcFails, kafkaVars, tokenVars
  <2>2. Floor' = Floor
    BY <2>1, FloorKept
  <2>3. CASE store' = store
    BY <2>1, <2>2, <2>3, StoreKept
  <2>4. CASE Accepted(c) /\ store' = store \cup log[cur[c]].add
    <3>1. cur[c] = Floor + 1 /\ Floor + 1 <= Len(log)
      BY <1>9, <2>4, WriterFloor DEF RpcFails
    <3>2. Explained(log, store', Floor)
      BY <2>4, <3>1, ExplainedWrite DEF StoreInv
    <3> QED BY <2>1, <2>2, <3>2 DEF StoreInv
  <2> QED BY <1>9, <2>3, <2>4 DEF RpcFails
<1>10. CASE StoreOffset(c)
  <2>1. UNCHANGED <<holder, committed, done, cb, log, store>>
    BY <1>10 DEF StoreOffset, kafkaVars, kesselVars, mainVars, tokenVars
  <2> QED BY <2>1, FloorKept, StoreKept
<1>11. CASE Revoke(c)
  <2>1. /\ UNCHANGED <<holder, committed, done, log, store>>
        /\ \A d \in Consumers : cb'[d] = "store" <=> cb[d] = "store"
    BY <1>11, SMTT(30), SMTT(40) DEF Revoke, CallbackMayRun, TokenType, kafkaVars, kesselVars,
       mainVars
  <2> QED BY <2>1, FloorKept, StoreKept, SMTT(30), SMTT(40) DEF KesselType
<1>12. CASE Release(c)
  <2>1. /\ UNCHANGED <<holder, committed, done, log, store>>
        /\ \A d \in Consumers : cb'[d] = "store" <=> cb[d] = "store"
    BY <1>12 DEF Release, LosePartition, CallbackMayRun, TokenType, kafkaVars,
       kesselVars, mainVars
  <2> QED BY <2>1, FloorKept, StoreKept DEF KesselType
<1>13. CASE RevokeSkips(c)
  <2>1. UNCHANGED <<holder, committed, done, cb, log, store>>
    BY <1>13 DEF RevokeSkips, LosePartition, kafkaVars, kesselVars, mainVars,
       tokenVars
  <2> QED BY <2>1, FloorKept, StoreKept
<1>14. CASE Evict(c)
  <2>1. UNCHANGED <<holder, committed, done, cb, log, store>>
    BY <1>14, SMTT(30), SMTT(40) DEF Evict, kafkaVars, kesselVars, mainVars, tokenVars
  <2> QED BY <2>1, FloorKept, StoreKept
<1>15. CASE Assign(c)
  <2>1. /\ UNCHANGED <<holder, committed, done, log, store>>
        /\ \A d \in Consumers : cb'[d] = "store" <=> cb[d] = "store"
    BY <1>15 DEF Assign, Join, CallbackMayRun, TokenType, kafkaVars,
       kesselVars, mainVars
  <2> QED BY <2>1, FloorKept, StoreKept DEF KesselType
<1>16. CASE AssignQuietly(c)
  <2>1. holder # c
    BY <1>16 DEF AssignQuietly, Join, Calm, OwnerInv, OwnerPart, Unused
  <2>2. UNCHANGED <<holder, committed, cb, log, store>> /\ done' = [done EXCEPT ![c] = committed]
    BY <1>16 DEF AssignQuietly, Join, ResetPosition, kesselVars, tokenVars
  <2>3. \A d \in Consumers \ {c} : done'[d] = done[d]
    BY <2>2 DEF MainType
  <2> QED BY <2>1, <2>2, <2>3, FloorKept, StoreKept, SMTT(30), SMTT(40) DEF KesselType
<1>17. CASE AcquireLock(c)
  <2>1. UNCHANGED <<committed, log, store>> /\ holder' = c /\ cb'[c] = "store"
    BY <1>17 DEF AcquireLock, IssueToken, kafkaVars, TokenType
  <2>2. Floor' = committed
    BY <2>1 DEF Floor
  <2> QED BY <2>1, <2>2, StoreLower DEF StoreInv
<1>18. CASE StoreToken(c)
  <2>1. cb[c] = "store" /\ holder = c
    BY <1>18 DEF StoreToken, OwnerInv, OwnerPart
  <2>2. /\ UNCHANGED <<holder, committed, log, store>>
        /\ done'[c] = committed /\ cb'[c] = "idle"
    BY <1>18, SMTT(30), SMTT(40)
       DEF StoreToken, ResetPosition, kafkaVars, kesselVars, MainType, TokenType
  <2>3. Floor' = committed /\ Floor = committed
    BY <2>1, <2>2 DEF Floor
  <2> QED BY <2>2, <2>3, StoreKept, SMTT(30), SMTT(40)
<1>19. CASE AcquireLockFails(c)
  <2>1. UNCHANGED <<committed, log, store>> /\ (holder' = NoConsumer \/ holder' = holder)
    BY <1>19, SMTT(30) DEF AcquireLockFails, IssueToken, kafkaVars
  <2>2. CASE holder' = NoConsumer
    <3>1. Floor' = committed
      BY <2>1, <2>2 DEF Floor
    <3> QED BY <2>1, <3>1, StoreLower DEF StoreInv
  <2>3. CASE holder' = holder
    <3>1. holder # c
      BY <1>19, ZenonT(30) DEF AcquireLockFails, OwnerInv, OwnerPart, Acquiring
    <3>2. \A d \in Consumers \ {c} : done'[d] = done[d] /\ cb'[d] = cb[d]
      BY <1>19 DEF AcquireLockFails, ResetPosition, MainType, TokenType
    <3> QED BY <2>1, <2>3, <3>1, <3>2, FloorKept, StoreKept, ZenonT(30) DEF KesselType
  <2> QED BY <2>1, <2>2, <2>3
<1>20. CASE Sigterm(c)
  <2>1. UNCHANGED <<holder, committed, done, cb, log, store>>
    BY <1>20, SMTT(30), SMTT(40) DEF Sigterm, kafkaVars, kesselVars, mainVars, tokenVars
  <2> QED BY <2>1, FloorKept, StoreKept
<1>21. CASE SkipFinalCommit(c)
  <2>1. UNCHANGED <<holder, committed, done, cb, log, store>>
    BY <1>21, SMTT(30), SMTT(40) DEF SkipFinalCommit, kafkaVars, kesselVars, mainVars, tokenVars
  <2> QED BY <2>1, FloorKept, StoreKept
<1>22. CASE Close(c)
  <2>1. /\ UNCHANGED <<committed, log, store>>
        /\ holder' = IF holder = c THEN NoConsumer ELSE holder
        /\ \A d \in Consumers \ {c} : done'[d] = done[d] /\ cb'[d] = cb[d]
    BY <1>22, SMTT(30), SMTT(40) DEF Close, Gone, MainType, TokenType
  <2>2. CASE holder = c
    <3>1. Floor' = committed
      BY <2>1, <2>2, SMTT(30), SMTT(40) DEF Floor
    <3> QED BY <2>1, <3>1, StoreLower, SMTT(30), SMTT(40) DEF StoreInv
  <2>3. CASE holder # c
    BY <2>1, <2>3, FloorKept, StoreKept, SMTT(30), SMTT(40) DEF KesselType
  <2> QED BY <2>2, <2>3
<1>23. CASE Crash(c)
  <2>1. /\ UNCHANGED <<committed, log, store>>
        /\ holder' = IF holder = c THEN NoConsumer ELSE holder
        /\ \A d \in Consumers \ {c} : done'[d] = done[d] /\ cb'[d] = cb[d]
    BY <1>23, SMTT(30), SMTT(40) DEF Crash, Gone, MainType, TokenType
  <2>2. CASE holder = c
    <3>1. Floor' = committed
      BY <2>1, <2>2 DEF Floor
    <3> QED BY <2>1, <3>1, StoreLower DEF StoreInv
  <2>3. CASE holder # c
    BY <2>1, <2>3, FloorKept, StoreKept DEF KesselType
  <2> QED BY <2>2, <2>3
<1>24. CASE Restart(c)
  <2>1. UNCHANGED <<holder, committed, done, cb, log, store>>
    BY <1>24 DEF Restart, kafkaVars, kesselVars, mainVars, tokenVars
  <2> QED BY <2>1, FloorKept, StoreKept
<1>25. ASSUME NEW th \in Threads, CommitCopy(c, th) PROVE StoreInv'
  <2>1. /\ UNCHANGED <<holder, committed, done, log, store>>
        /\ cb' = cb \/ (cb[c] = "commit" /\ cb' = [cb EXCEPT ![c] = "release"])
    BY <1>25 DEF CommitCopy, CommitFrame, CommitReturns, Committing, kesselVars
  <2>2. \A d \in Consumers : cb'[d] = "store" <=> cb[d] = "store"
    BY <2>1 DEF TokenType
  <2> QED BY <2>1, <2>2, FloorKept, StoreKept, SMTT(30), SMTT(40) DEF KesselType
<1>26. ASSUME NEW th \in Threads, CommitUnassigned(c, th) PROVE StoreInv'
  <2>0. cb[c] # "store"
    BY <1>26, SMTT(30), SMTT(40) DEF CommitUnassigned, OwnerInv, OwnerPart, NoOffsets, Acquiring
  <2>1. /\ UNCHANGED <<holder, committed, done, log, store>>
        /\ cb' = cb \/ (cb[c] # "store" /\ cb' = [cb EXCEPT ![c] = "release"])
    BY <1>26, <2>0 DEF CommitUnassigned, CommitFrame, CommitReturns, kesselVars
  <2>2. \A d \in Consumers : cb'[d] = "store" <=> cb[d] = "store"
    BY <2>1, SMTT(30), SMTT(40) DEF TokenType
  <2> QED BY <2>1, <2>2, FloorKept, StoreKept, SMTT(30), SMTT(40) DEF KesselType
<1>27. ASSUME NEW th \in Threads, CommitSend(c, th) PROVE StoreInv'
  <2>1. /\ UNCHANGED <<log, store, holder, done, cb>>
        /\ committed' \in {committed, copy[c][th]} /\ owner = c
    BY <1>27, SMTT(30) DEF CommitSend, CommitFrame, kesselVars
  <2>2. holder = c /\ cb[c] # "store"
    <3>1. tok[c] # 0
      BY <1>27, <2>1, SMTT(30), SMTT(40) DEF CommitSend, OwnerInv, OwnerPart, NoOffsets
    <3> QED BY <2>1, <3>1, ZenonT(30) DEF OwnerInv, OwnerPart, Acquiring, TokenInv
  <2>3. Floor = done[c] /\ Floor' = Floor
    BY <2>1, <2>2, ConsumerAssumption, SMTT(30) DEF Floor
  <2>4. committed' <= Floor
    BY <2>1, <2>3, ZenonT(30) DEF PositionInv, PositionPart, StoreInv
  <2> QED BY <2>1, <2>3, <2>4, SMTT(30), SMTT(40) DEF StoreInv
<1>28. ASSUME NEW th \in Threads, CommitRefused(c, th) PROVE StoreInv'
  <2>1. UNCHANGED <<holder, committed, done, cb, log, store>>
    BY <1>28, SMTT(30), SMTT(40)
       DEF CommitRefused, CommitFrame, kafkaVars, kesselVars, mainVars,
       tokenVars
  <2> QED BY <2>1, FloorKept, StoreKept, SMTT(30), SMTT(40)
<1>29. ASSUME NEW th \in Threads, CommitSendFails(c, th) PROVE StoreInv'
  <2>1. /\ UNCHANGED <<log, store, holder, done, cb>>
        /\ committed' \in {committed, copy[c][th]} /\ owner = c
    BY <1>29, SMTT(30), SMTT(40) DEF CommitSendFails, CommitFrame, kesselVars
  <2>2. holder = c /\ cb[c] # "store"
    <3>1. tok[c] # 0
      BY <1>29, <2>1, SMTT(30), SMTT(40) DEF CommitSendFails, OwnerInv, OwnerPart, NoOffsets
    <3> QED BY <2>1, <3>1, SMTT(30), SMTT(40) DEF OwnerInv, OwnerPart, Acquiring, TokenInv
  <2>3. Floor = done[c] /\ Floor' = Floor
    BY <2>1, <2>2, ConsumerAssumption DEF Floor
  <2>4. committed' <= Floor
    BY <2>1, <2>3, ZenonT(30) DEF PositionInv, PositionPart, StoreInv
  <2> QED BY <2>1, <2>3, <2>4 DEF StoreInv
<1>30. ASSUME NEW th \in Threads, CommitFinish(c, th) PROVE StoreInv'
  <2>0. cb[c] # "store"
    BY <1>30, SMTT(30), SMTT(40) DEF CommitFinish, OwnerInv, OwnerPart, NoOffsets, Acquiring
  <2>1. /\ UNCHANGED <<holder, committed, done, log, store>>
        /\ cb' = cb \/ (cb[c] # "store" /\ cb' = [cb EXCEPT ![c] = "release"])
    BY <1>30, <2>0 DEF CommitFinish, CommitFrame, CommitReturns, kesselVars
  <2>2. \A d \in Consumers : cb'[d] = "store" <=> cb[d] = "store"
    BY <2>1 DEF TokenType
  <2> QED BY <2>1, <2>2, FloorKept, StoreKept DEF KesselType
<1> QED BY <1>1, <1>2, <1>3, <1>4, <1>5, <1>6, <1>7, <1>8, <1>9, <1>10, <1>11,
    <1>12, <1>13, <1>14, <1>15, <1>16, <1>17, <1>18, <1>19, <1>20, <1>21,
    <1>22, <1>23, <1>24, <1>25, <1>26, <1>27, <1>28, <1>29, <1>30, SMTT(30), SMTT(40) DEF
    ProcessStep, Step, Fault, Rebalance

-----------------------------------------------------------------------------
(* The invariant holds initially.                                          *)
LEMMA InitConvergence == Init => ConvergenceInv
<1> SUFFICES ASSUME Init PROVE ConvergenceInv
    OBVIOUS
<1>1. TypeInv /\ TokenInv
    BY InitInv, SMTT(30), SMTT(40)
<1>2. OwnerInv
    BY ConsumerAssumption, SMTT(30), SMTT(40)
       DEF Init, OwnerInv, OwnerPart, Unused, NoOffsets, Acquiring, Threads
<1>3. PositionInv
    BY SMTT(30), SMTT(40) DEF Init, PositionInv, PositionPart, Threads
<1>4. AttemptInv
    BY DEF Init, AttemptInv, AttemptPart
<1>5. StoreInv
    <2>1. committed = 0 /\ Floor = 0 /\ log = <<>> /\ store = {}
        BY DEF Init, Floor
    <2>2. \A t : ~Present(<<>>, 0, t)
        BY DEF Present
    <2>3. 0 \in 0..Len(<<>>)
        OBVIOUS
    <2>4. Explained(<<>>, {}, 0)
        BY <2>2, <2>3 DEF Explained
    <2> QED BY <2>1, <2>4 DEF StoreInv
<1> QED BY <1>1, <1>2, <1>3, <1>4, <1>5 DEF ConvergenceInv

(* Appending a message keeps the invariant.                                *)
LEMMA ProduceConvergence ==
    ASSUME ConvergenceInv, Produce
    PROVE  OwnerInv' /\ PositionInv' /\ StoreInv' /\ AttemptInv'
<1> TypeInv /\ OwnerInv /\ PositionInv /\ StoreInv /\ AttemptInv
    BY DEF ConvergenceInv
<1>1. PICK m \in Messages : log' = Append(log, m)
    BY DEF Produce
<1>2. /\ UNCHANGED <<committed, owner, assigned, had>>
      /\ UNCHANGED <<kesselVars, mainVars, tokenVars, commitVars>>
    BY DEF Produce
<1>3. log \in Seq(Messages) /\ Len(log') = Len(log) + 1 /\ Len(log) \in Nat
    BY <1>1, SMTT(30) DEF TypeInv, TypeOK, KafkaType
<1>4. OwnerInv'
    BY <1>2, ZenonT(30) DEF OwnerInv, OwnerPart, Unused, NoOffsets, Acquiring,
       kesselVars, mainVars, tokenVars, commitVars
<1>5. PositionInv'
    <2>1. \A c \in Consumers : done[c] \in Nat /\ cur[c] \in Nat
        BY DEF TypeInv, TypeOK, MainType
    <2>2. UNCHANGED <<done, stored, copy, pc, pos, cur>>
        BY <1>2 DEF mainVars, commitVars
    <2>3. \A n \in Nat : n <= Len(log) => n <= Len(log')
        BY <1>3
    <2> QED BY <2>1, <2>2, <2>3, ZenonT(30) DEF PositionInv, PositionPart
<1>6. Floor' = Floor /\ Floor \in Nat /\ committed' = committed /\ store' = store
    BY <1>2, FloorType DEF Floor, kesselVars, mainVars, tokenVars
<1>7. StoreInv'
    BY <1>1, <1>3, <1>6, ExplainedAppend DEF StoreInv
<1>8. AttemptInv'
    <2> SUFFICES ASSUME NEW c \in Consumers, pc[c] = "write", Accepted(c)
                 PROVE  log'[cur[c]] = log[cur[c]]
        BY <1>2 DEF AttemptInv, AttemptPart, Accepted, kesselVars, mainVars
    <2>1. cur[c] \in 1..Len(log)
        BY DEF TypeInv, CursorInv
    <2> QED BY <1>1, <1>3, <2>1, SMTT(30), SMTT(40)
<1> QED BY <1>4, <1>5, <1>7, <1>8

(* Every step of a calm group keeps the invariant.                         *)
LEMMA ConvergenceStep ==
    ASSUME Calm PROVE ConvergenceInv /\ [Next]_vars => ConvergenceInv'
<1> SUFFICES ASSUME ConvergenceInv, [Next]_vars PROVE ConvergenceInv'
    OBVIOUS
<1> TypeInv /\ TokenInv /\ OwnerInv /\ PositionInv /\ StoreInv /\ AttemptInv
    BY DEF ConvergenceInv
<1>1. TypeInv' /\ TokenInv'
    BY TypeStep, TokenStep
<1>2. CASE Produce
    BY <1>1, <1>2, ProduceConvergence DEF ConvergenceInv
<1>3. ASSUME NEW c \in Consumers, ProcessStep(c) PROVE ConvergenceInv'
    <2>1. Alone(c) /\ log' = log
        BY <1>3, SharedState, StoreWriter
    <2>2. \A d \in Consumers \ {c} : SameProcess(d)
        BY <1>3, Locality
    <2>3. OwnerInv'
        BY <1>3, <2>1, <2>2, OwnerSelf, OwnerOther DEF OwnerInv
    <2>4. PositionInv'
        BY <1>3, <2>1, <2>2, PositionSelf, PositionOther, SMTT(30), SMTT(40) DEF PositionInv
    <2>5. AttemptInv'
        BY <1>3, <2>2, AttemptSelf, AttemptOther DEF AttemptInv
    <2>6. StoreInv'
        BY <1>3, StoreStep
    <2> QED BY <1>1, <2>3, <2>4, <2>5, <2>6 DEF ConvergenceInv
<1>4. CASE UNCHANGED vars
    <2>1. UNCHANGED <<kafkaVars, kesselVars, mainVars, tokenVars, commitVars>>
        BY <1>4, SMTT(30) DEF vars
    <2>2. OwnerInv' /\ PositionInv' /\ AttemptInv'
        BY <2>1, ZenonT(30) DEF OwnerInv, OwnerPart, Unused, NoOffsets, Acquiring, PositionInv,
           PositionPart, AttemptInv, AttemptPart, Accepted,
           kafkaVars, kesselVars, mainVars, tokenVars, commitVars
    <2>3. StoreInv'
        BY <2>1, FloorKept, StoreKept, ZenonT(30) DEF kafkaVars, kesselVars, mainVars, tokenVars
    <2> QED BY <1>1, <2>2, <2>3 DEF ConvergenceInv
<1> QED BY <1>2, <1>3, <1>4 DEF Next, ProcessStep

(* The inductive invariant of the calm group: types, the single position   *)
(* a message is handled from, the one lock holder, and that every tuple of *)
(* Kessel is explained by some prefix of the topic at or after the floor   *)
(* (the lowest position a consumer may still resume from).                 *)
THEOREM Convergence_Invariant == ASSUME Calm PROVE Spec => []ConvergenceInv
<1>1. ConvergenceInv /\ [Next]_vars => ConvergenceInv'
    BY ConvergenceStep
<1> QED BY InitConvergence, <1>1, PTL DEF Spec

(* Once the whole topic is committed, Kessel holds exactly what the        *)
(* messages say in order, for any number of consumers, tuples, messages    *)
(* and faults, as long as the partition neither returns to a process that  *)
(* lost it nor leaves one that is acquiring its lock (the two cases the    *)
(* runs "return" and "late" show to fail).                                 *)
THEOREM StoreConverges == ASSUME Calm PROVE Spec => []Converged
<1>1. ConvergenceInv => Converged
    <2> SUFFICES ASSUME ConvergenceInv, committed = Len(log)
                 PROVE  store = Replay(log, Len(log))
        BY DEF Converged
    <2>1. /\ TypeInv /\ StoreInv /\ Floor \in Nat /\ Len(log) \in Nat
          /\ store \subseteq Tuples
        BY FloorType DEF ConvergenceInv, TypeInv, TypeOK, KafkaType, KesselType
    <2>2. Floor = Len(log)
        BY <2>1, SMTT(30) DEF StoreInv
    <2>3. ASSUME NEW t \in Tuples PROVE t \in store <=> Present(log, Len(log), t)
        <3>1. \/ \E i \in Len(log)..Len(log) : t \in store <=> Present(log, i, t)
              \/ \E j \in (Len(log) + 1)..Len(log) : t \in log[j].remove
            BY <2>1, <2>2 DEF StoreInv, Explained
        <3>2. /\ \A i \in Len(log)..Len(log) : i = Len(log)
              /\ \A j \in (Len(log) + 1)..Len(log) : FALSE
            BY <2>1
        <3> QED BY <3>1, <3>2, SMTT(30), SMTT(40)
    <2> QED BY <2>1, <2>3 DEF Replay
<1> QED BY Convergence_Invariant, <1>1, PTL
=============================================================================
