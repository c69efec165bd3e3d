------------------------------ MODULE MCChannel ------------------------------
(* Instances of Channel for TLC. *)
EXTENDS Channel

(* An empty chunk, two that fit, one over the limit of the receiving end and *)
(* one over the limit of both.                                              *)
MCChunks == {"empty", "one", "two", "over", "huge"}
MCSize == [c \in MCChunks |->
             CASE c = "empty" -> 0 [] c = "one" -> 1 [] c = "two" -> 2
               [] c = "over" -> 3 [] c = "huge" -> 4]
=============================================================================
