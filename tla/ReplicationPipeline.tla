------------------------- MODULE ReplicationPipeline -------------------------
(***************************************************************************)
(* What the replication promises to the rest of the system: the messages   *)
(* that transactions publish are handled in their order, none is skipped,  *)
(* and what is committed to the broker has been handled.  A message may be *)
(* handled again.  KafkaConsumer implements this, and modules that depend  *)
(* on the replication use it.                                              *)
(***************************************************************************)
EXTENDS Integers, Sequences

CONSTANTS Messages,     \* what transactions publish
          MaxLog        \* bound: messages ever published

VARIABLES log,          \* the topic
          handled,      \* the messages, by their place, handled at least once
          committed     \* the offset a restarted consumer resumes at

pipelineVars == <<log, handled, committed>>

PipelineInit == log = <<>> /\ handled = {} /\ committed = 0

Publish(m) ==
    /\ Len(log) < MaxLog
    /\ log' = Append(log, m)
    /\ UNCHANGED <<handled, committed>>

(* Message i is next when all before it are handled.                       *)
Handle(i) ==
    /\ 1..(i - 1) \subseteq handled
    /\ handled' = handled \union {i}
    /\ UNCHANGED <<log, committed>>

Commit(n) ==
    /\ 1..n \subseteq handled
    /\ committed' = n
    /\ UNCHANGED <<log, handled>>

PipelineNext ==
    \/ \E m \in Messages : Publish(m)
    \/ \E i \in 1..Len(log) : Handle(i)
    \/ \E n \in 0..Len(log) : Commit(n)

PipelineSpec == PipelineInit /\ [][PipelineNext]_pipelineVars
=============================================================================
