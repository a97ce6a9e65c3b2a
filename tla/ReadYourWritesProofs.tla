------------------------ MODULE ReadYourWritesProofs ------------------------
(***************************************************************************)
(* Proofs about ReadYourWrites: for any number of writers, batches and     *)
(* redeliveries, a wait that ends well means that Kessel has applied the   *)
(* message, and the next listing shows it.                                 *)
(***************************************************************************)
EXTENDS ReadYourWrites, TLAPS

Steps == {"absent", "ready", "listen", "clear", "wait", "done", "listed", "failed"}
Messages ==
    [writer : Waiters, token : Nat,
     channel : {"read_your_writes", "migrate_binding_scope"}]
Session == [on : BOOLEAN, pending : SUBSET Messages]
Wait == [step : Steps, sent : Nat]
Relay == [step : {"apply", "token", "notify"}, position : Nat, applied : Nat, redelivered : Nat]

WaitTypes ==
    /\ outbox \in Seq(Messages)
    /\ relay \in Relay
    /\ freshness \in Nat
    /\ sessions \in [Waiters -> Session]
    /\ waiting \in [Waiters -> Wait]
    /\ looked \in [Creators -> Nat]

\* The position of a message is told by its writer and its token, and a writer
\* has sent the tokens up to its counter
OutboxInv ==
    /\ \A i \in 1..Len(outbox) :
         /\ outbox[i] = Message(outbox[i].writer, outbox[i].token)
         /\ outbox[i].token \in 1..waiting[outbox[i].writer].sent
    /\ \A w \in Waiters : \A n \in 1..waiting[w].sent :
         \E i \in 1..Len(outbox) : outbox[i] = Message(w, n)
    /\ \A i, j \in 1..Len(outbox) : outbox[i] = outbox[j] => i = j

\* The consumer has applied the message it is about to announce
RelayInv ==
    /\ relay.position <= relay.applied
    /\ relay.applied <= Len(outbox)
    /\ relay.step # "apply" => relay.position < relay.applied

\* The token of the tenant row covers position i, or could not be stored
Covered(i) == i <= relay.applied /\ (i <= freshness \/ i \in skipped)

TokenInv ==
    /\ freshness <= relay.applied
    /\ relay.step = "notify" => Covered(relay.position + 1)

Announced(m) == \E i \in 1..Len(outbox) : outbox[i] = m /\ Covered(i)

\* A creation commits one message
CreationPart(w) ==
    w \in Creators =>
        /\ waiting[w].step = "ready" => waiting[w].sent = 0
        /\ waiting[w].step \notin {"absent", "ready"} => waiting[w].sent = 1
        /\ waiting[w].step \in {"done", "listed"} => Announced(Message(w, 1))

\* Only the last message of a writer may be outstanding
BatchPart(w) ==
    \A n \in 1..waiting[w].sent :
        n < waiting[w].sent \/ waiting[w].step = "ready" => Announced(Message(w, n))

\* Whatever has reached a session, or ended a wait, is applied and covered
AnnouncedInv ==
    /\ \A w \in Waiters : \A m \in sessions[w].pending : Announced(m)
    /\ \A w \in Waiters : CreationPart(w) /\ BatchPart(w)

ListedInv ==
    \A w \in Creators : waiting[w].step = "listed" =>
        \E i \in 1..Len(outbox) :
            outbox[i] = Message(w, 1) /\ (looked[w] >= i \/ i \in skipped)

WaitInv == WaitTypes /\ OutboxInv /\ RelayInv /\ TokenInv /\ AnnouncedInv /\ ListedInv

(* What is announced stays announced: the outbox only grows at its end, and *)
(* the applied prefix, the stored token and the skipped set never shrink.  *)
Grows ==
    /\ Len(outbox') >= Len(outbox)
    /\ \A i \in 1..Len(outbox) : outbox'[i] = outbox[i]
    /\ relay.applied <= relay'.applied /\ freshness <= freshness' /\ skipped \subseteq skipped'

(* Announced messages stay announced. *)
LEMMA AnnouncedKept ==
    ASSUME WaitTypes, WaitTypes', Grows, NEW m, Announced(m)
    PROVE  Announced(m)'
<1>1. PICK i \in 1..Len(outbox) : outbox[i] = m /\ Covered(i)
    BY DEF Announced
<1>2. Len(outbox) \in Nat /\ Len(outbox') \in Nat
    BY DEF WaitTypes
<1>3. i \in 1..Len(outbox') /\ outbox'[i] = m
    BY <1>1, <1>2 DEF Grows
<1>4. Covered(i)'
    BY <1>1, <1>2 DEF Covered, Grows, WaitTypes, Relay
<1> QED BY <1>3, <1>4 DEF Announced

(* The variables have their types in the initial states. *)
LEMMA WaitInitInv == WaitInit => WaitInv
<1> SUFFICES ASSUME WaitInit PROVE WaitInv
    OBVIOUS
<1>1. PICK cast \in Casts :
        waiting = [w \in Waiters |->
                     [step |-> IF w \in cast THEN "ready" ELSE "absent", sent |-> 0]]
    BY DEF WaitInit
<1>2. waiting \in [Waiters -> Wait]
    BY <1>1 DEF Wait, Steps
<1>3. /\ \A w \in Waiters : waiting[w].sent = 0 /\ waiting[w].step \in {"ready", "absent"}
      /\ \A w \in Waiters : sessions[w].pending = {}
      /\ Len(outbox) = 0 /\ Creators \subseteq Waiters
    BY <1>1 DEF WaitInit, Off, Waiters
<1>4. WaitTypes
    BY <1>2 DEF WaitInit, WaitTypes, Relay, Session, Off
<1>5. OutboxInv
    BY <1>3 DEF OutboxInv
<1>6. RelayInv /\ TokenInv
    BY <1>3 DEF WaitInit, RelayInv, TokenInv
<1>7. AnnouncedInv /\ ListedInv
    BY <1>3 DEF AnnouncedInv, CreationPart, BatchPart, ListedInv
<1> QED BY <1>4, <1>5, <1>6, <1>7 DEF WaitInv

(* A writer that moves to another step, and a session that changes, keep   *)
(* their types.                                                            *)
LEMMA WaitTyped ==
    ASSUME waiting \in [Waiters -> Wait], NEW w \in Waiters, NEW s \in Steps
    PROVE  [waiting EXCEPT ![w].step = s] \in [Waiters -> Wait]
<1>1. [waiting[w] EXCEPT !.step = s] \in Wait
    BY DEF Wait
<1> QED BY <1>1

(* A session that is reset or emptied keeps its type.                      *)
LEMMA SessionTyped ==
    ASSUME sessions \in [Waiters -> Session], NEW w \in Waiters
    PROVE  /\ [sessions EXCEPT ![w] = Off] \in [Waiters -> Session]
           /\ [sessions EXCEPT ![w].pending = {}] \in [Waiters -> Session]
<1>1. [sessions[w] EXCEPT !.pending = {}] \in Session /\ Off \in Session
    BY DEF Session, Off
<1> QED BY <1>1

(* Every step keeps the types. *)
LEMMA WaitTypesStep == WaitTypes /\ RelayInv /\ [WaitNext]_waitVars => WaitTypes'
<1> SUFFICES ASSUME WaitTypes, RelayInv, [WaitNext]_waitVars PROVE WaitTypes'
    OBVIOUS
<1> USE DEF WaitTypes
<1>0. /\ \A w \in Waiters, n \in Nat : Message(w, n) \in Messages
      /\ {"ready", "listen", "clear", "wait", "done", "listed", "failed"} \subseteq Steps
    BY DEF Message, Messages, Channel, Steps
<1>1. ASSUME NEW w \in Waiters, Enqueue(w) PROVE WaitTypes'
    <2>1. waiting[w].sent \in Nat
        BY DEF Wait
    <2>2. [step |-> "listen", sent |-> waiting[w].sent + 1] \in Wait
        BY <2>1, <1>0 DEF Wait
    <2>3. waiting' \in [Waiters -> Wait] /\ outbox' \in Seq(Messages)
        BY <1>0, <1>1, <2>1, <2>2 DEF Enqueue
    <2> QED BY <1>1, <2>3 DEF Enqueue
<1>2. ASSUME NEW w \in Waiters, Listen(w) PROVE WaitTypes'
    <2>1. [on |-> TRUE, pending |-> {}] \in Session
        BY DEF Session
    <2>2. sessions' \in [Waiters -> Session] /\ waiting' \in [Waiters -> Wait]
        BY <1>0, <1>2, <2>1, WaitTyped DEF Listen
    <2> QED BY <1>2, <2>2 DEF Listen
<1>3. ASSUME NEW w \in Waiters, ClearStale(w) PROVE WaitTypes'
    <2>1. sessions' \in [Waiters -> Session] /\ waiting' \in [Waiters -> Wait]
        BY <1>0, <1>3, SessionTyped, WaitTyped DEF ClearStale
    <2> QED BY <1>3, <2>1 DEF ClearStale
<1>4. ASSUME NEW w \in Waiters, Receive(w) PROVE WaitTypes'
    <2>1. (IF w \in Creators THEN "done" ELSE "ready") \in Steps
        BY <1>0
    <2>2. CASE \E n \in sessions[w].pending : Matches(w, n)
        <3>1. waiting' \in [Waiters -> Wait]
            BY <1>4, <2>1, <2>2, WaitTyped DEF Receive
        <3>2. sessions' \in [Waiters -> Session]
            BY <1>4, <2>2, SessionTyped, ZenonT(30) DEF Receive
        <3> QED BY <1>4, <3>1, <3>2 DEF Receive
    <2>3. CASE ~ \E n \in sessions[w].pending : Matches(w, n)
        BY <1>4, <2>3, SessionTyped DEF Receive
    <2> QED BY <2>2, <2>3
<1>5. ASSUME NEW w \in Waiters, Expire(w) PROVE WaitTypes'
    <2>1. sessions' \in [Waiters -> Session] /\ waiting' \in [Waiters -> Wait]
        BY <1>0, <1>5, SessionTyped, WaitTyped, ZenonT(30) DEF Expire, AfterTimeout
    <2> QED BY <1>5, <2>1 DEF Expire
<1>6. ASSUME NEW w \in Waiters, Lookup(w) PROVE WaitTypes'
    <2>1. waiting' \in [Waiters -> Wait]
        BY <1>0, <1>6, WaitTyped DEF Lookup
    <2>2. looked' \in [Creators -> Nat]
        BY <1>6 DEF Lookup, Relay
    <2> QED BY <1>6, <2>1, <2>2 DEF Lookup
<1>7. ASSUME Apply PROVE WaitTypes'
    <2>1. /\ Max2(relay.applied, relay.position + 1) \in Nat
          /\ relay' = [relay EXCEPT !.step = "token",
                                    !.applied = Max2(relay.applied, relay.position + 1)]
        BY <1>7 DEF Apply, Max2, Relay
    <2>2. relay' \in Relay
        BY <2>1, ZenonT(30) DEF Relay
    <2> QED BY <1>7, <2>2 DEF Apply
<1>8. ASSUME SaveToken PROVE WaitTypes'
    <2>1. freshness' \in Nat
        BY <1>8 DEF SaveToken, Token, Relay
    <2>2. relay' \in Relay
        BY <1>8 DEF SaveToken, Relay
    <2> QED BY <1>8, <2>1, <2>2 DEF SaveToken
<1>9. ASSUME Redeliver PROVE WaitTypes'
    <2>1. PICK p \in 0..relay.position :
            relay' = [relay EXCEPT !.step = "apply", !.position = p,
                                   !.redelivered = relay.redelivered + 1]
        BY <1>9, ZenonT(30) DEF Redeliver
    <2>2. p \in Nat /\ relay.redelivered + 1 \in Nat
        BY DEF Relay
    <2>3. relay' \in Relay
        BY <2>1, <2>2, ZenonT(30) DEF Relay
    <2> QED BY <1>9, <2>3 DEF Redeliver
<1>10. ASSUME NEW sent \in BOOLEAN, Notify(sent) PROVE WaitTypes'
    <2> DEFINE n == outbox[relay.position + 1]
    <2>1. n \in Messages
        BY <1>10 DEF RelayInv, Notify, Relay
    <2>2. ASSUME NEW w \in Waiters
          PROVE  [sessions[w] EXCEPT !.pending = @ \cup {n}] \in Session
        BY <2>1 DEF Session
    <2>3. sessions' \in [Waiters -> Session]
        <3> HIDE DEF n
        <3>1. sessions' = [w \in Waiters |->
                IF sent /\ sessions[w].on /\ Channel(w) = n.channel
                THEN [sessions[w] EXCEPT !.pending = @ \cup {n}] ELSE sessions[w]]
            BY <1>10 DEF Notify, n
        <3> QED BY <2>2, <3>1
    <2>4. relay' \in Relay
        <3>1. relay' = [relay EXCEPT !.step = "apply", !.position = relay.position + 1]
            BY <1>10 DEF Notify
        <3>2. relay.position + 1 \in Nat
            BY DEF Relay
        <3> HIDE DEF n
        <3> QED BY <3>1, <3>2, ZenonT(30) DEF Relay
    <2> QED BY <1>10, <2>3, <2>4 DEF Notify
<1>11. CASE UNCHANGED waitVars
    BY <1>11 DEF waitVars
<1> QED BY <1>1, <1>2, <1>3, <1>4, <1>5, <1>6, <1>7, <1>8, <1>9, <1>10, <1>11 DEF WaitNext

(* The outbox only grows, and so does what Kessel and the token cover. *)
LEMMA GrowsStep == WaitTypes /\ RelayInv /\ TokenInv /\ [WaitNext]_waitVars => Grows
<1> SUFFICES ASSUME WaitTypes, RelayInv, TokenInv, [WaitNext]_waitVars PROVE Grows
    OBVIOUS
<1>1. ASSUME NEW w \in Waiters, Enqueue(w) PROVE Grows
    <2>1. Message(w, waiting[w].sent + 1) \in Messages
        BY DEF Message, Messages, Channel, WaitTypes, Wait
    <2> QED BY <1>1, <2>1 DEF Grows, WaitTypes, Relay, Enqueue
<1>2. ASSUME UNCHANGED <<outbox, relay, freshness, skipped>> PROVE Grows
    BY <1>2 DEF Grows, WaitTypes, Relay
<1>3. ASSUME Apply PROVE Grows
    BY <1>3 DEF Grows, WaitTypes, Relay, Apply, Max2
<1>4. ASSUME SaveToken PROVE Grows
    BY <1>4 DEF Grows, WaitTypes, Relay, SaveToken, Token, TokenInv
<1>5. ASSUME Redeliver PROVE Grows
    BY <1>5 DEF Grows, WaitTypes, Relay, Redeliver
<1>6. ASSUME NEW sent \in BOOLEAN, Notify(sent) PROVE Grows
    BY <1>6 DEF Grows, WaitTypes, Relay, Notify
<1> QED BY <1>1, <1>2, <1>3, <1>4, <1>5, <1>6
        DEF WaitNext, waitVars, Listen, ClearStale, Receive, Expire, Lookup

(* A step other than a commit of a writer keeps the outbox and what every  *)
(* writer has sent.                                                        *)
LEMMA SentKept ==
    ASSUME WaitTypes, [WaitNext]_waitVars, ~ \E w \in Waiters : Enqueue(w)
    PROVE  outbox' = outbox /\ \A w \in Waiters : waiting'[w].sent = waiting[w].sent
<1>1. ASSUME NEW v \in Waiters, NEW s, waiting' = [waiting EXCEPT ![v].step = s]
      PROVE  \A w \in Waiters : waiting'[w].sent = waiting[w].sent
    BY <1>1 DEF WaitTypes, Wait
<1>2. ASSUME waiting' = waiting PROVE \A w \in Waiters : waiting'[w].sent = waiting[w].sent
    BY <1>2
<1>3. ASSUME NEW w \in Waiters, Listen(w) \/ ClearStale(w) \/ Expire(w) \/ Lookup(w)
      PROVE  outbox' = outbox /\ \A v \in Waiters : waiting'[v].sent = waiting[v].sent
    <2>1. CASE Listen(w)
        BY <1>1, <2>1 DEF Listen
    <2>2. CASE ClearStale(w)
        BY <1>1, <2>2 DEF ClearStale
    <2>3. CASE Expire(w)
        BY <1>1, <2>3 DEF Expire
    <2>4. CASE Lookup(w)
        BY <1>1, <2>4 DEF Lookup
    <2> QED BY <1>3, <2>1, <2>2, <2>3, <2>4
<1>4. ASSUME NEW w \in Waiters, Receive(w)
      PROVE  outbox' = outbox /\ \A v \in Waiters : waiting'[v].sent = waiting[v].sent
    BY <1>1, <1>2, <1>4 DEF Receive
<1>5. ASSUME \/ Apply \/ SaveToken \/ Redeliver
             \/ (\E sent \in BOOLEAN : Notify(sent)) \/ UNCHANGED waitVars
      PROVE  outbox' = outbox /\ \A v \in Waiters : waiting'[v].sent = waiting[v].sent
    BY <1>2, <1>5, ZenonT(30) DEF Apply, SaveToken, Redeliver, Notify, waitVars
<1> QED BY <1>3, <1>4, <1>5, ZenonT(30) DEF WaitNext

(* What a commit of a writer does to the outbox and to its counter. *)
LEMMA EnqueueParts ==
    ASSUME WaitTypes, NEW w \in Waiters, Enqueue(w)
    PROVE  /\ Len(outbox) \in Nat /\ waiting[w].sent \in Nat
           /\ Len(outbox') = Len(outbox) + 1
           /\ \A i \in 1..Len(outbox) : outbox'[i] = outbox[i]
           /\ outbox'[Len(outbox) + 1] = Message(w, waiting[w].sent + 1)
           /\ waiting'[w].sent = waiting[w].sent + 1 /\ waiting'[w].step = "listen"
           /\ \A v \in Waiters : v # w => waiting'[v] = waiting[v]
<1>1. /\ waiting[w].sent \in Nat /\ Len(outbox) \in Nat
      /\ Message(w, waiting[w].sent + 1) \in Messages
    BY DEF Message, Messages, Channel, WaitTypes, Wait
<1>2. /\ Len(outbox') = Len(outbox) + 1
      /\ \A i \in 1..Len(outbox) : outbox'[i] = outbox[i]
      /\ outbox'[Len(outbox) + 1] = Message(w, waiting[w].sent + 1)
    BY <1>1 DEF Enqueue, WaitTypes
<1>3. /\ waiting'[w].sent = waiting[w].sent + 1 /\ waiting'[w].step = "listen"
      /\ \A v \in Waiters : v # w => waiting'[v] = waiting[v]
    BY DEF Enqueue, WaitTypes
<1> QED BY <1>1, <1>2, <1>3

(* Every message of the outbox was sent by a writer. *)
LEMMA WriterKnown ==
    ASSUME WaitTypes, NEW i \in 1..Len(outbox)
    PROVE  outbox[i].writer \in Waiters
<1>1. outbox[i] \in Messages
    BY DEF WaitTypes
<1> QED BY <1>1 DEF Messages

(* Messages are told apart by their writer and token. *)
LEMMA OutboxStep ==
    ASSUME WaitTypes, WaitTypes', OutboxInv, [WaitNext]_waitVars
    PROVE  OutboxInv'
<1>1. CASE ~ \E w \in Waiters : Enqueue(w)
    <2>1. outbox' = outbox /\ \A w \in Waiters : waiting'[w].sent = waiting[w].sent
        BY <1>1, SentKept
    <2>2. \A i \in 1..Len(outbox) : outbox[i].writer \in Waiters
        BY WriterKnown
    <2> QED BY <2>1, <2>2 DEF OutboxInv, Message
<1>2. ASSUME NEW w \in Waiters, Enqueue(w) PROVE OutboxInv'
    <2> DEFINE n == waiting[w].sent + 1
               k == Len(outbox) + 1
    <2>1. /\ Len(outbox) \in Nat /\ waiting[w].sent \in Nat
          /\ Len(outbox') = k
          /\ \A i \in 1..Len(outbox) : outbox'[i] = outbox[i]
          /\ outbox'[k] = Message(w, n)
          /\ waiting'[w].sent = n
          /\ \A v \in Waiters : v # w => waiting'[v] = waiting[v]
        BY <1>2, EnqueueParts
    <2>2. ASSUME NEW v \in Waiters
          PROVE  waiting[v].sent \in Nat /\ waiting'[v].sent >= waiting[v].sent
        <3>1. waiting[v].sent \in Nat
            BY DEF WaitTypes, Wait
        <3> QED BY <2>1, <3>1
    <2>3. \A i \in 1..Len(outbox) : outbox[i].writer \in Waiters
        BY WriterKnown
    <2>4. \A i \in 1..k : i \in 1..Len(outbox) \/ i = k
        BY <2>1
    <2>5. Message(w, n).writer = w /\ Message(w, n).token = n
        BY DEF Message
    <2>6. ASSUME NEW i \in 1..k
          PROVE  /\ outbox'[i] = Message(outbox'[i].writer, outbox'[i].token)
                 /\ outbox'[i].token \in 1..waiting'[outbox'[i].writer].sent
        <3>1. CASE i \in 1..Len(outbox)
            <4>1. /\ outbox[i] = Message(outbox[i].writer, outbox[i].token)
                  /\ outbox[i].token \in 1..waiting[outbox[i].writer].sent
                BY <3>1 DEF OutboxInv
            <4>2. outbox[i].writer \in Waiters /\ outbox'[i] = outbox[i]
                BY <2>1, <2>3, <3>1
            <4>3. \A a, b \in Nat : a <= b => 1..a \subseteq 1..b
                OBVIOUS
            <4>4. waiting'[outbox[i].writer].sent \in Nat
                BY <4>2 DEF WaitTypes, Wait
            <4> QED BY <2>2, <4>1, <4>2, <4>3, <4>4
        <3>2. CASE i = k
            BY <2>1, <2>5, <3>2, SMTT(30), SMTT(40)
        <3> QED BY <2>4, <3>1, <3>2
    <2>7. ASSUME NEW v \in Waiters, NEW t \in 1..waiting'[v].sent
          PROVE  \E i \in 1..k : outbox'[i] = Message(v, t)
        <3>1. CASE t \in 1..waiting[v].sent
            <4>1. PICK i \in 1..Len(outbox) : outbox[i] = Message(v, t)
                BY <3>1 DEF OutboxInv
            <4>2. i \in 1..k /\ outbox'[i] = outbox[i]
                BY <2>1
            <4> QED BY <4>1, <4>2
        <3>2. CASE ~(t \in 1..waiting[v].sent)
            <4>1. v = w
                BY <2>1, <3>2
            <4>2. t = n /\ k \in 1..k
                BY <2>1, <3>2, <4>1, SMTT(30), SMTT(40)
            <4> QED BY <2>1, <4>1, <4>2
        <3> QED BY <3>1, <3>2
    <2>8. ASSUME NEW i \in 1..Len(outbox) PROVE outbox[i] # Message(w, n)
        <3>1. outbox[i].token \in 1..waiting[outbox[i].writer].sent
            BY DEF OutboxInv
        <3> QED BY <2>1, <2>5, <3>1
    <2>9. ASSUME NEW i \in 1..k, NEW j \in 1..k, outbox'[i] = outbox'[j] PROVE i = j
        <3>1. CASE i \in 1..Len(outbox) /\ j \in 1..Len(outbox)
            BY <2>1, <2>9, <3>1 DEF OutboxInv
        <3>2. CASE i = k \/ j = k
            BY <2>1, <2>4, <2>8, <2>9, <3>2
        <3> QED BY <2>4, <3>1, <3>2
    <2> HIDE DEF k
    <2> QED BY <2>1, <2>6, <2>7, <2>9 DEF OutboxInv
<1> QED BY <1>1, <1>2

(* The consumer announces only what it has applied and covered. *)
LEMMA RelayStep ==
    ASSUME WaitTypes, WaitTypes', RelayInv, TokenInv, [WaitNext]_waitVars
    PROVE  RelayInv' /\ TokenInv'
<1> USE DEF WaitTypes, Relay
<1>1. ASSUME NEW w \in Waiters, Enqueue(w) PROVE RelayInv' /\ TokenInv'
    <2>1. Len(outbox') = Len(outbox) + 1 /\ UNCHANGED <<relay, freshness, skipped>>
        BY <1>1, EnqueueParts DEF Enqueue
    <2> QED BY <2>1 DEF RelayInv, TokenInv, Covered
<1>2. ASSUME UNCHANGED <<outbox, relay, freshness, skipped>> PROVE RelayInv' /\ TokenInv'
    BY <1>2 DEF RelayInv, TokenInv, Covered
<1>3. ASSUME Apply PROVE RelayInv' /\ TokenInv'
    <2>1. /\ relay'.step = "token" /\ relay'.position = relay.position
          /\ relay'.applied = Max2(relay.applied, relay.position + 1)
          /\ relay.position < Len(outbox) /\ UNCHANGED <<outbox, freshness>>
        BY <1>3 DEF Apply
    <2> QED BY <2>1 DEF RelayInv, TokenInv, Max2
<1>4. ASSUME SaveToken PROVE RelayInv' /\ TokenInv'
    <2>1. /\ relay.step = "token" /\ relay'.step = "notify"
          /\ relay'.position = relay.position /\ relay'.applied = relay.applied
          /\ outbox' = outbox
        BY <1>4 DEF SaveToken
    <2>2. \/ freshness' = relay.applied
          \/ freshness' = freshness /\ relay.position + 1 \in skipped'
        BY <1>4 DEF SaveToken, Token
    <2> QED BY <2>1, <2>2 DEF RelayInv, TokenInv, Covered
<1>5. ASSUME Redeliver PROVE RelayInv' /\ TokenInv'
    <2>1. PICK p \in 0..relay.position :
            relay' = [relay EXCEPT !.step = "apply", !.position = p,
                                   !.redelivered = relay.redelivered + 1]
        BY <1>5, ZenonT(30) DEF Redeliver
    <2>2. /\ relay'.step = "apply" /\ relay'.position <= relay.position
          /\ relay'.applied = relay.applied /\ UNCHANGED <<outbox, freshness>>
        BY <1>5, <2>1 DEF Redeliver
    <2> QED BY <2>2 DEF RelayInv, TokenInv
<1>6. ASSUME NEW sent \in BOOLEAN, Notify(sent) PROVE RelayInv' /\ TokenInv'
    <2>1. /\ relay.step = "notify" /\ relay'.step = "apply"
          /\ relay'.position = relay.position + 1
          /\ relay'.applied = relay.applied /\ UNCHANGED <<outbox, freshness>>
        BY <1>6 DEF Notify
    <2> QED BY <2>1 DEF RelayInv, TokenInv
<1> QED BY <1>1, <1>2, <1>3, <1>4, <1>5, <1>6
        DEF WaitNext, waitVars, Listen, ClearStale, Receive, Expire, Lookup

(* A session holds announced messages only. *)
LEMMA PendingStep ==
    ASSUME WaitInv, WaitTypes', Grows, [WaitNext]_waitVars,
           NEW w \in Waiters, NEW m \in sessions'[w].pending
    PROVE  Announced(m)'
<1>0. /\ WaitTypes /\ RelayInv /\ TokenInv
      /\ \A v \in Waiters : \A x \in sessions[v].pending : Announced(x)
    BY DEF WaitInv, AnnouncedInv
<1>1. CASE m \in sessions[w].pending
    BY <1>0, <1>1, AnnouncedKept
<1>2. ASSUME NEW sent \in BOOLEAN, Notify(sent), m = outbox[relay.position + 1]
      PROVE  Announced(m)'
    <2>1. /\ relay.position + 1 \in 1..Len(outbox) /\ Covered(relay.position + 1)
        BY <1>0, <1>2 DEF Notify, RelayInv, TokenInv, WaitTypes, Relay
    <2>2. Announced(m)
        BY <1>2, <2>1 DEF Announced
    <2> QED BY <1>0, <2>2, AnnouncedKept
<1>3. \/ m \in sessions[w].pending
      \/ \E sent \in BOOLEAN : Notify(sent) /\ m = outbox[relay.position + 1]
    <2>1. ASSUME NEW sent \in BOOLEAN, Notify(sent)
          PROVE  m \in sessions[w].pending \/ m = outbox[relay.position + 1]
        <3> DEFINE n == outbox[relay.position + 1]
        <3>1. sessions'[w] = IF sent /\ sessions[w].on /\ Channel(w) = n.channel
                             THEN [sessions[w] EXCEPT !.pending = @ \cup {n}] ELSE sessions[w]
            BY <2>1 DEF Notify
        <3>2. [sessions[w] EXCEPT !.pending = @ \cup {n}].pending = sessions[w].pending \cup {n}
            BY <1>0 DEF WaitTypes, Session
        <3> HIDE DEF n
        <3>3. m \in sessions[w].pending \cup {n}
            BY <3>1, <3>2
        <3> QED BY <3>3 DEF n
    <2>2. ASSUME NEW v \in Waiters, sessions' = [sessions EXCEPT ![v] = Off]
          PROVE  m \in sessions[w].pending
        BY <1>0, <2>2 DEF WaitTypes, Off
    <2>3. ASSUME NEW v \in Waiters, sessions' = [sessions EXCEPT ![v].pending = {}]
          PROVE  m \in sessions[w].pending
        BY <1>0, <2>3 DEF WaitTypes, Session
    <2>4. ASSUME NEW v \in Waiters, Listen(v) PROVE m \in sessions[w].pending
        <3>1. sessions' = [sessions EXCEPT ![v] = [on |-> TRUE, pending |-> {}]]
            BY <2>4, ZenonT(30) DEF Listen
        <3> QED BY <1>0, <3>1 DEF WaitTypes
    <2>5. ASSUME NEW v \in Waiters, Receive(v) PROVE m \in sessions[w].pending
        BY <2>2, <2>3, <2>5 DEF Receive
    <2>6. ASSUME NEW v \in Waiters, Enqueue(v) \/ ClearStale(v) \/ Expire(v) \/ Lookup(v)
          PROVE  m \in sessions[w].pending
        <3>1. CASE Enqueue(v) \/ Lookup(v)
            BY <3>1 DEF Enqueue, Lookup
        <3>2. CASE ClearStale(v)
            BY <2>3, <3>2 DEF ClearStale
        <3>3. CASE Expire(v)
            BY <2>2, <3>3, ZenonT(30) DEF Expire
        <3> QED BY <2>6, <3>1, <3>2, <3>3
    <2>7. ASSUME Apply \/ SaveToken \/ Redeliver \/ UNCHANGED waitVars
          PROVE  m \in sessions[w].pending
        BY <2>7, ZenonT(30) DEF Apply, SaveToken, Redeliver, waitVars
    <2> QED BY <2>1, <2>4, <2>5, <2>6, <2>7 DEF WaitNext
<1> QED BY <1>1, <1>2, <1>3

(* A step changes one writer at most, in one of these ways. *)
LEMMA WriterStep ==
    ASSUME WaitTypes, [WaitNext]_waitVars, NEW w \in Waiters
    PROVE  \/ waiting'[w] = waiting[w]
           \/ Enqueue(w)
           \/ Receive(w)
           \/ Lookup(w) /\ waiting'[w] = [waiting[w] EXCEPT !.step = "listed"]
           \/ /\ waiting[w].step \notin {"absent", "ready"}
              /\ \E s \in {"clear", "wait", "failed"} :
                    waiting'[w] = [waiting[w] EXCEPT !.step = s]
<1>1. ASSUME NEW v \in Waiters, v # w,
             Enqueue(v) \/ Listen(v) \/ ClearStale(v) \/ Receive(v) \/ Expire(v) \/ Lookup(v)
      PROVE  waiting'[w] = waiting[w]
    <2>1. \/ \E x : waiting' = [waiting EXCEPT ![v] = x]
          \/ waiting' = waiting
        BY <1>1 DEF Enqueue, Listen, ClearStale, Receive, Expire, Lookup
    <2> QED BY <1>1, <2>1 DEF WaitTypes
<1>2. ASSUME Listen(w) \/ ClearStale(w) \/ Expire(w)
      PROVE  /\ waiting[w].step \notin {"absent", "ready"}
             /\ \E s \in {"clear", "wait", "failed"} :
                   waiting'[w] = [waiting[w] EXCEPT !.step = s]
    <2>1. CASE Listen(w)
        BY <2>1 DEF Listen, WaitTypes
    <2>2. CASE ClearStale(w)
        BY <2>2 DEF ClearStale, WaitTypes
    <2>3. CASE Expire(w)
        BY <2>3 DEF Expire, AfterTimeout, WaitTypes
    <2> QED BY <1>2, <2>1, <2>2, <2>3
<1>3. ASSUME Lookup(w) PROVE waiting'[w] = [waiting[w] EXCEPT !.step = "listed"]
    <2>1. waiting' = [waiting EXCEPT ![w].step = "listed"]
        BY <1>3, ZenonT(30) DEF Lookup
    <2> QED BY <2>1 DEF WaitTypes
<1>4. ASSUME \/ Apply \/ SaveToken \/ Redeliver
             \/ (\E sent \in BOOLEAN : Notify(sent)) \/ UNCHANGED waitVars
      PROVE  waiting'[w] = waiting[w]
    BY <1>4, ZenonT(30) DEF Apply, SaveToken, Redeliver, Notify, waitVars
<1> QED BY <1>1, <1>2, <1>3, <1>4, ZenonT(30) DEF WaitNext

(* A wait ends with an announced message, and a job goes on only then. *)
LEMMA WriterInv ==
    ASSUME WaitInv, WaitTypes', Grows, [WaitNext]_waitVars, NEW w \in Waiters
    PROVE  CreationPart(w)' /\ BatchPart(w)'
<1>0. /\ WaitTypes /\ CreationPart(w) /\ BatchPart(w)
      /\ waiting[w] \in Wait /\ waiting[w].sent \in Nat
    BY DEF WaitInv, AnnouncedInv, WaitTypes, Wait
<1>k. \A n \in Nat : Announced(Message(w, n)) => Announced(Message(w, n))'
    BY <1>0, AnnouncedKept DEF Message, Channel
<1>1. CASE waiting'[w] = waiting[w]
    BY <1>0, <1>1, <1>k DEF CreationPart, BatchPart
<1>2. CASE Enqueue(w)
    <2>1. /\ waiting[w].step = "ready" /\ waiting'[w].step = "listen"
          /\ waiting'[w].sent = waiting[w].sent + 1
        BY <1>0, <1>2, EnqueueParts, ZenonT(30) DEF Enqueue
    <2>2. CreationPart(w)'
        BY <1>0, <2>1 DEF CreationPart
    <2>3. ASSUME NEW n \in 1..waiting'[w].sent, n < waiting'[w].sent
          PROVE  Announced(Message(w, n))'
        BY <1>0, <1>k, <2>1, <2>3 DEF BatchPart
    <2> QED BY <2>1, <2>2, <2>3 DEF BatchPart
<1>3. CASE Receive(w)
    <2>1. CASE ~ \E n \in sessions[w].pending : Matches(w, n)
        BY <1>1, <1>3, <2>1 DEF Receive
    <2>2. CASE \E n \in sessions[w].pending : Matches(w, n)
        <3>1. Announced(Message(w, waiting[w].sent))
            BY <2>2 DEF Matches, WaitInv, AnnouncedInv
        <3>2. /\ waiting[w].step = "wait" /\ waiting'[w].sent = waiting[w].sent
              /\ waiting'[w].step = IF w \in Creators THEN "done" ELSE "ready"
            BY <1>0, <1>3, <2>2 DEF Receive, WaitTypes, Wait
        <3>3. CreationPart(w)'
            BY <1>0, <1>k, <3>1, <3>2 DEF CreationPart
        <3>4. ASSUME NEW n \in 1..waiting[w].sent PROVE Announced(Message(w, n))'
            <4>1. CASE n = waiting[w].sent
                BY <1>0, <1>k, <3>1, <4>1
            <4>2. CASE n < waiting[w].sent
                BY <1>0, <1>k, <4>2 DEF BatchPart
            <4> QED BY <1>0, <4>1, <4>2
        <3> QED BY <3>2, <3>3, <3>4 DEF BatchPart
    <2> QED BY <2>1, <2>2
<1>4. CASE Lookup(w) /\ waiting'[w] = [waiting[w] EXCEPT !.step = "listed"]
    <2>1. /\ waiting[w].step = "done" /\ waiting'[w].step = "listed"
          /\ waiting'[w].sent = waiting[w].sent
        BY <1>0, <1>4 DEF Lookup, Wait
    <2> QED BY <1>0, <1>k, <2>1 DEF CreationPart, BatchPart
<1>5. CASE /\ waiting[w].step \notin {"absent", "ready"}
           /\ \E s \in {"clear", "wait", "failed"} :
                 waiting'[w] = [waiting[w] EXCEPT !.step = s]
    <2>1. waiting'[w].step \in {"clear", "wait", "failed"} /\ waiting'[w].sent = waiting[w].sent
        BY <1>0, <1>5 DEF Wait
    <2> QED BY <1>0, <1>5, <1>k, <2>1 DEF CreationPart, BatchPart
<1> QED BY <1>0, <1>1, <1>2, <1>3, <1>4, <1>5, WriterStep

(* A listing sees the message of the creation, or its token was skipped. *)
LEMMA ListedStep ==
    ASSUME WaitInv, WaitTypes', Grows, [WaitNext]_waitVars
    PROVE  ListedInv'
<1> SUFFICES ASSUME NEW w \in Creators, waiting'[w].step = "listed"
             PROVE  \E i \in 1..Len(outbox') :
                        outbox'[i] = Message(w, 1) /\ (looked'[w] >= i \/ i \in skipped')
    BY ZenonT(30) DEF ListedInv, Message, Channel
<1>0. w \in Waiters /\ WaitTypes /\ CreationPart(w) /\ ListedInv
    BY DEF WaitInv, AnnouncedInv, Waiters
<1>1. ASSUME NEW i \in 1..Len(outbox), outbox[i] = Message(w, 1),
             looked'[w] >= i \/ i \in skipped
      PROVE  \E j \in 1..Len(outbox') :
                 outbox'[j] = Message(w, 1) /\ (looked'[w] >= j \/ j \in skipped')
    <2>1. i \in 1..Len(outbox') /\ outbox'[i] = Message(w, 1)
        BY <1>0, <1>1 DEF Grows, WaitTypes
    <2> QED BY <1>1, <2>1 DEF Grows
<1>2. CASE Lookup(w)
    <2>1. PICK i \in 1..Len(outbox) : outbox[i] = Message(w, 1) /\ Covered(i)
        BY <1>0, <1>2 DEF Lookup, CreationPart, Announced
    <2>2. looked'[w] >= freshness
        BY <1>0, <1>2 DEF Lookup, WaitTypes, Relay
    <2>3. freshness \in Nat /\ looked'[w] \in Nat
        BY <1>0 DEF WaitTypes
    <2> QED BY <1>1, <2>1, <2>2, <2>3 DEF Covered
<1>3. CASE ~Lookup(w)
    <2>1. waiting[w].step = "listed"
        <3>1. ~Enqueue(w)
            BY <1>0, EnqueueParts
        <3>2. ASSUME Receive(w) PROVE waiting'[w] = waiting[w]
            BY <1>0, <3>2 DEF Receive, WaitTypes, Wait
        <3>3. \A s \in {"clear", "wait", "failed"} : [waiting[w] EXCEPT !.step = s].step = s
            BY <1>0 DEF WaitTypes, Wait
        <3> QED BY <1>0, <1>3, <3>1, <3>2, <3>3, WriterStep, ZenonT(30)
    <2>2. looked'[w] = looked[w]
        <3>1. ASSUME NEW v \in Waiters, Lookup(v) PROVE looked'[w] = looked[w]
            BY <1>0, <1>3, <3>1, ZenonT(30) DEF Lookup, WaitTypes
        <3> QED BY <3>1, ZenonT(30)
            DEF WaitNext, waitVars, Enqueue, Listen, ClearStale, Receive, Expire,
                            Apply, SaveToken, Redeliver, Notify
    <2> QED BY <1>0, <1>1, <2>1, <2>2 DEF ListedInv
<1> QED BY <1>2, <1>3

(* The inductive invariant: a message is announced only after Kessel has   *)
(* applied it and its token was stored or skipped; every wait that ended   *)
(* well rests on an announced message.                                     *)
THEOREM Wait_Invariant == WaitSpec => []WaitInv
<1>1. WaitInv /\ [WaitNext]_waitVars => WaitInv'
    <2> SUFFICES ASSUME WaitInv, [WaitNext]_waitVars PROVE WaitInv'
        OBVIOUS
    <2>1. WaitTypes /\ OutboxInv /\ RelayInv /\ TokenInv
        BY DEF WaitInv
    <2>2. WaitTypes' /\ Grows
        BY <2>1, WaitTypesStep, GrowsStep
    <2>3. OutboxInv' /\ RelayInv' /\ TokenInv'
        BY <2>1, <2>2, OutboxStep, RelayStep
    <2>4. AnnouncedInv'
        BY <2>2, PendingStep, WriterInv DEF AnnouncedInv
    <2>5. ListedInv'
        BY <2>2, ListedStep
    <2> QED BY <2>2, <2>3, <2>4, <2>5 DEF WaitInv
<1> QED BY WaitInitInv, <1>1, PTL DEF WaitSpec

(* For any number of writers, batches and redeliveries: a client whose     *)
(* creation returned finds the workspace in its next listing, unless the   *)
(* consumer could not store the token of that message.                     *)
THEOREM CreationsAreListed == WaitSpec => []CreatedIsListed
<1>1. WaitInv => CreatedIsListed
    <2> SUFFICES ASSUME WaitInv, NEW w \in Creators, waiting[w].step = "listed"
                 PROVE  looked[w] >= PositionOf(w, 1) \/ PositionOf(w, 1) \in skipped
        BY DEF CreatedIsListed
    <2>1. PICK i \in 1..Len(outbox) :
            outbox[i] = Message(w, 1) /\ (looked[w] >= i \/ i \in skipped)
        BY DEF WaitInv, ListedInv
    <2>2. \A j \in 1..Len(outbox) : outbox[j] = Message(w, 1) => j = i
        BY <2>1 DEF WaitInv, OutboxInv
    <2>3. PositionOf(w, 1) = i
        BY <2>1, <2>2 DEF PositionOf
    <2> QED BY <2>1, <2>3
<1> QED BY Wait_Invariant, <1>1, PTL

(* For any number of writers, batches and redeliveries: a wait ends with   *)
(* success only after Kessel has applied the message, and a job sends no   *)
(* batch before the ones before it are applied.                            *)
THEOREM WaitsMeanApplied == WaitSpec => []SuccessMeansApplied
<1>1. WaitInv => SuccessMeansApplied
    <2> SUFFICES ASSUME WaitInv PROVE SuccessMeansApplied
        OBVIOUS
    <2>1. ASSUME NEW w \in Waiters, NEW n, Announced(Message(w, n)) PROVE Applied(w, n)
        <3>1. PICK i \in 1..Len(outbox) : outbox[i] = Message(w, n) /\ i <= relay.applied
            BY <2>1 DEF Announced, Covered
        <3>2. i \in 1..relay.applied
            BY <3>1 DEF WaitInv, WaitTypes, Relay
        <3> QED BY <3>1, <3>2 DEF Applied
    <2>2. ASSUME NEW w \in Creators, waiting[w].step \in {"done", "listed"} PROVE Applied(w, 1)
        BY <2>1, <2>2 DEF WaitInv, AnnouncedInv, CreationPart, Waiters
    <2>3. ASSUME NEW w \in Jobs, NEW n \in 1..waiting[w].sent,
                 n < waiting[w].sent \/ waiting[w].step = "ready"
          PROVE  Applied(w, n)
        BY <2>1, <2>3 DEF WaitInv, AnnouncedInv, BatchPart, Waiters
    <2> QED BY <2>2, <2>3 DEF SuccessMeansApplied
<1> QED BY Wait_Invariant, <1>1, PTL
=============================================================================
