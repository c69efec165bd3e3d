------------------------------- MODULE MCMyFs --------------------------------
(* Instances of MyFs for TLC, and the tree of names it implements. *)
EXTENDS MyFs

CONSTANT Gone

(* Names whose entries are longer than those of the dots, or not. *)
Sizes == [n \in Names \cup Dots |-> IF n \in {"b"} THEN 2 ELSE 1]

(* No step depends on the last answer: one state stands for all of them.    *)
Served == <<inode_map, nextFile, nextDir, stream>>

(* The path of a node: that of its parent, and the name it has there. *)
PathTo[ino \in Nat] ==
  IF ino = Root THEN <<>>
  ELSE LET d == inode_map[ino].parent
       IN  Append(PathTo[d], CHOOSE n \in Entries(d) : Child(d, n) = ino)

Tree ==
  LET path == [i \in DOMAIN inode_map |-> PathTo[i]]
  IN  [p \in {path[i] : i \in DOMAIN path} |->
         LET i == CHOOSE j \in DOMAIN path : path[j] = p
         IN  [dir |-> inode_map[i].dir, data |-> inode_map[i].data]]

Files ==
  INSTANCE FileTree
  WITH tree    <- Tree,
       at      <- IF Found(request.ino) THEN PathTo[request.ino] ELSE Gone,
       request <- request.what

(* Users see a tree of names: create, remove, write and truncate change one  *)
(* path of it and nothing else, every request gets the answer the tree      *)
(* gives, and a handle on what was removed finds nothing.                   *)
ImplementsTree == Files!Spec
=============================================================================
