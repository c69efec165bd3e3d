--------------------------- MODULE MCEventWatcher ---------------------------
(* Instances of EventWatcher for TLC. *)
EXTENDS EventWatcher, TLC

AllOps == {"watch", "unwatch", "unwatchAll", "post"}
CoreOps == {"watch", "unwatch", "post"}

Symmetry == Permutations(Fds) \cup Permutations(Callbacks)
              \cup Permutations(Jobs) \cup Permutations(Posters)
=============================================================================
