----------------------------- MODULE MCPipeline ------------------------------
(* Instances of Pipeline for TLC. *)
EXTENDS Pipeline

StageTypes == {"head", "chunker", "relay", "blind", "app"}

MCHandles == [t \in StageTypes |->
                CASE t = "head" -> {"outbound"}
                  [] t = "blind" -> {}
                  [] t = "app" -> {"inbound"}
                  [] t \in {"chunker", "relay"} -> {"inbound", "outbound"}]

(* A chunk with no bytes, one as long as allowed, and one over the limit,    *)
(* with a byte behind it: enough for the Chunker to take the refused bytes   *)
(* for another header.                                                      *)
MCIncoming == FramedAll(<<<<>>, <<7, 8>>, <<1, 2, 3>>>>) \o <<0>>
=============================================================================
