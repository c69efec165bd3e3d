----------------------------- MODULE ChunkStream -----------------------------
(***************************************************************************)
(* What a pipeline with a Chunker at each end promises the applications:    *)
(* chunks come out whole, in the order they were sent, each once, none that *)
(* was not sent.  There are no bytes, headers, buffers or events here.      *)
(***************************************************************************)
EXTENDS Naturals, Sequences

CONSTANT Payloads

VARIABLES sent, received

Init == sent = <<>> /\ received = <<>>

Send ==
  /\ \E p \in Payloads : sent' = Append(sent, p)
  /\ UNCHANGED received

Receive ==
  /\ Len(received) < Len(sent)
  /\ received' = Append(received, sent[Len(received) + 1])
  /\ UNCHANGED sent

Next == Send \/ Receive

Spec == Init /\ [][Next]_<<sent, received>>
=============================================================================
