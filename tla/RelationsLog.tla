---------------------------- MODULE RelationsLog ----------------------------
(***************************************************************************)
(* The messages of the replication topic and what they mean.               *)
(*                                                                         *)
(* A committed transaction writes one outbox row; Debezium turns it into   *)
(* one message of the single partition the consumer reads (all rows share  *)
(* PartitionKey.byEnvironment), in commit order.  A message carries the    *)
(* tuples to remove and the tuples to add.  The consumer deletes first and *)
(* writes second, so a tuple in both sets ends up present.                 *)
(***************************************************************************)
EXTENDS Integers, Sequences

CONSTANTS Tuples,   \* relation tuples
          Messages  \* the messages the topic may carry

(* What a message on the topic can be.  "relations" passes the validators, *)
(* "tombstone" has no value, "invalid" fails JSON parsing or validation.   *)
MessageKinds == {"relations", "tombstone", "invalid"}

Message == [kind : MessageKinds, add : SUBSET Tuples, remove : SUBSET Tuples]

(* Only a relations message carries tuples.                                *)
ASSUME MessagesAssumption ==
    /\ Messages \subseteq Message
    /\ \A m \in Messages : m.kind # "relations" => m.add = {} /\ m.remove = {}

(* The tuple t exists once the first n messages of log are applied in      *)
(* order: the last message that names it adds it.                          *)
Present(log, n, t) ==
    \E i \in 1..n :
        /\ t \in log[i].add
        /\ \A j \in (i + 1)..n : t \in log[j].add \/ t \notin log[j].remove

(* The store that the first n messages describe.                           *)
Replay(log, n) == {t \in Tuples : Present(log, n, t)}
=============================================================================
