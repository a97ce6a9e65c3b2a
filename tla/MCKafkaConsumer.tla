-------------------------- MODULE MCKafkaConsumer --------------------------
(***************************************************************************)
(* Small instances of KafkaConsumer: two pods, one tuple that messages add *)
(* and remove, and the message kinds that matter for ordering.             *)
(***************************************************************************)
EXTENDS KafkaConsumer, TLC

CONSTANTS c1, c2, none, a

MCConsumers == {c1, c2}
MCTuples    == {a}

Rel(add, remove) == [kind |-> "relations", add |-> add, remove |-> remove]
Tombstone        == [kind |-> "tombstone", add |-> {}, remove |-> {}]
Invalid          == [kind |-> "invalid", add |-> {}, remove |-> {}]

(* Grant, revoke, and the update that removes and re-adds the same tuple.  *)
MCMessages      == {Rel({a}, {}), Rel({}, {a}), Rel({a}, {a})}
MCMessagesAll   == MCMessages \cup {Tombstone, Invalid}
MCMessagesKinds == {Rel({a}, {a}), Tombstone, Invalid}
MCMessagesValid == {Rel({a}, {a}), Tombstone}

NoEnv     == {}
AsyncEnv  == {"async", "quiet"}
ReturnEnv == {"return"}
LateEnv   == {"late"}
FullEnv   == {"async", "return", "late", "quiet"}

Symmetry == Permutations({c1, c2})
=============================================================================
