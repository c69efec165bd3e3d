------------------------------ MODULE FileTree -------------------------------
(***************************************************************************)
(* What a file system promises its users: a tree of names.  A user holds    *)
(* the path of a file or directory, or a handle on one that is Gone, and    *)
(* gets from each request the answer the tree gives.  No inode numbers.     *)
(***************************************************************************)
EXTENDS Integers, Sequences, FiniteSets, FiniteSetsExt

CONSTANTS
  Names,       \* names of directory entries
  Bytes,       \* what is written to files
  Zero,        \* the byte a hole reads as
  MaxSize,     \* bound: the size of a file
  TotalSpace,  \* TOTAL_SPACE
  BlockSize,   \* BLOCK_SIZE
  Gone         \* a handle on what has been removed

VARIABLES
  tree,     \* the paths there are, each with what it leads to
  at,       \* whom the last request was about: a path, or Gone
  request,  \* what it was
  reply     \* the answer to it

Error(e) == [err |-> e]
Done     == Error("OK")

(* The first n bytes of d, holes filled. *)
Resized(d, n) == [i \in 1..n |-> IF i <= Len(d) THEN d[i] ELSE Zero]

(* What d has of the size bytes after off. *)
Piece(d, off, size) == SubSeq(d, off + 1, Min({off + size, Len(d)}))

(* d with buf written at off. *)
Overwritten(d, buf, off) ==
  [i \in 1..(IF off + Len(buf) > Len(d) THEN off + Len(buf) ELSE Len(d)) |->
     IF i \in off + 1..off + Len(buf) THEN buf[i - off] ELSE Resized(d, i)[i]]

-----------------------------------------------------------------------------
Exists(h) == h \in DOMAIN tree
IsDir(h)  == Exists(h) /\ tree[h].dir
IsFile(h) == Exists(h) /\ ~tree[h].dir
Entries(p) == {n \in Names : Append(p, n) \in DOMAIN tree}

Attr(p) ==
  [attr |-> [dir |-> tree[p].dir, size |-> Len(tree[p].data),
             nlink |-> IF tree[p].dir THEN 2 + Cardinality(Entries(p)) ELSE 1]]

Used == MapThenSumSet(LAMBDA p : Len(tree[p].data), DOMAIN tree)

Init ==
  /\ tree = [p \in {<<>>} |-> [dir |-> TRUE, data |-> <<>>]]
  /\ at = <<>> /\ request = <<"statfs">>
  /\ reply = Done

Answers(r) == reply' = r /\ UNCHANGED tree

Lookup(h, n) ==
  \/ ~IsDir(h) /\ Answers(Error("ENOTDIR"))
  \/ IsDir(h) /\ n \notin Entries(h) /\ Answers(Error("ENOENT"))
  \/ IsDir(h) /\ n \in Entries(h) /\ Answers(Attr(Append(h, n)))

Make(h, n, dir) ==
  \/ ~IsDir(h) /\ Answers(Error("ENOTDIR"))
  \/ IsDir(h) /\ n \in Entries(h) /\ Answers(Error("EEXIST"))
  \/ /\ IsDir(h) /\ n \notin Entries(h)
     /\ tree' = [p \in DOMAIN tree \cup {Append(h, n)} |->
                   IF Exists(p) THEN tree[p] ELSE [dir |-> dir, data |-> <<>>]]
     /\ reply' = Attr(Append(h, n))'

Remove(p) ==
  /\ tree' = [q \in DOMAIN tree \ {p} |-> tree[q]]
  /\ reply' = Done

Unlink(h, n) ==
  \/ ~IsDir(h) /\ Answers(Error("ENOTDIR"))
  \/ IsDir(h) /\ n \notin Entries(h) /\ Answers(Error("ENOENT"))
  \/ IsDir(h) /\ IsFile(Append(h, n)) /\ Remove(Append(h, n))

RmDir(h, n) ==
  \/ ~IsDir(h) /\ Answers(Error("ENOTDIR"))
  \/ IsDir(h) /\ n \notin Entries(h) /\ Answers(Error("ENOENT"))
  \/ /\ IsDir(h) /\ n \in Entries(h)
     /\ LET p == Append(h, n)
        IN  \/ IsFile(p) /\ Answers(Error("ENOTDIR"))
            \/ IsDir(p) /\ Entries(p) # {} /\ Answers(Error("ENOTEMPTY"))
            \/ IsDir(p) /\ Entries(p) = {} /\ Remove(p)

(* Requests about a file: a directory has no data. *)
Misused(h) ==
  \/ ~Exists(h) /\ Answers(Error("ENOENT"))
  \/ IsDir(h) /\ Answers(Error("EISDIR"))

Open(h) ==
  \/ Misused(h)
  \/ IsFile(h) /\ Answers(Done)

Read(h, off, size) ==
  \/ Misused(h)
  \/ IsFile(h) /\ Answers([bytes |-> Piece(tree[h].data, off, size)])

Write(h, off, buf) ==
  \/ Misused(h)
  \/ /\ IsFile(h)
     /\ tree' = [tree EXCEPT ![h].data = Overwritten(@, buf, off)]
     /\ reply' = [count |-> Len(buf)]

Truncate(h, size) ==
  \/ Misused(h)
  \/ /\ IsFile(h)
     /\ tree' = [tree EXCEPT ![h].data = Resized(@, size)]
     /\ reply' = Attr(h)'

Stat(h) ==
  \/ ~Exists(h) /\ Answers(Error("ENOENT"))
  \/ Exists(h) /\ Answers(Attr(h))

Statfs ==
  Answers([free |-> (IF TotalSpace > Used THEN TotalSpace - Used ELSE 0)
                      \div BlockSize,
           files |-> Cardinality(DOMAIN tree)])

-----------------------------------------------------------------------------
Asked(r) == request' = r

NameRequest(h, n) ==
  \/ Asked(<<"lookup", n>>) /\ Lookup(h, n)
  \/ Asked(<<"create", n>>) /\ Make(h, n, FALSE)
  \/ Asked(<<"mkdir", n>>) /\ Make(h, n, TRUE)
  \/ Asked(<<"unlink", n>>) /\ Unlink(h, n)
  \/ Asked(<<"rmdir", n>>) /\ RmDir(h, n)

Buffers(off) == UNION {[1..n -> Bytes] : n \in 1..MaxSize - off}

InodeRequest(h) ==
  \/ Asked(<<"open">>) /\ Open(h)
  \/ Asked(<<"getattr">>) /\ Stat(h)
  \/ Asked(<<"getxattr">>) /\ Answers(Error("ENOTSUP"))
  \/ Asked(<<"statfs">>) /\ Statfs
  \/ \E off \in 0..MaxSize, size \in 1..MaxSize :
       Asked(<<"read", off, size>>) /\ Read(h, off, size)
  \/ \E off \in 0..MaxSize - 1 : \E buf \in Buffers(off) :
       Asked(<<"write", off, buf>>) /\ Write(h, off, buf)
  \/ \E size \in 0..MaxSize :
       Asked(<<"setattr", size>>) /\ Truncate(h, size)

Next ==
  \E h \in DOMAIN tree \cup {Gone} :
    /\ at' = h
    /\ InodeRequest(h) \/ \E n \in Names : NameRequest(h, n)

Spec == Init /\ [][Next]_<<tree, at, request, reply>>
=============================================================================
