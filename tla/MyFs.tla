-------------------------------- MODULE MyFs ---------------------------------
(***************************************************************************)
(* The in-memory file system of tasks/myfs.  fuse_session_loop() hands the  *)
(* kernel's requests to one thread one by one, so a handler is one step.    *)
(*                                                                         *)
(* The kernel knows every inode number it was ever given, those of removed  *)
(* files too (open files, working directories), and may ask about any of    *)
(* them.  It does not send unlink for what it knows to be a directory.      *)
(* A user lists a directory over several readdir requests, and others       *)
(* change the directory between them.                                       *)
(***************************************************************************)
EXTENDS Integers, Sequences, FiniteSets, FiniteSetsExt

CONSTANTS
  Names,       \* names of directory entries
  Bytes,       \* what is written to files
  Zero,        \* the byte resize() fills with
  MaxSize,     \* bound: the size of a file
  MaxFiles,    \* bound: the files ever created
  MaxDirs,     \* bound: the directories ever created
  TotalSpace,  \* TOTAL_SPACE
  BlockSize,   \* BLOCK_SIZE
  EntrySize,   \* the padded size of an entry, by name
  PageSize     \* the size of the reply the kernel asks readdir for

Dots == {".", ".."}

ASSUME MyFsAssumptions ==
  /\ Dots \cap Names = {} /\ IsFiniteSet(Names)
  /\ MaxSize \in Nat \ {0} /\ MaxFiles \in Nat /\ MaxDirs \in Nat
  /\ TotalSpace \in Nat /\ BlockSize \in Nat \ {0}

ASSUME EntrySizeAssumptions ==
  /\ EntrySize \in [Names \cup Dots -> Nat \ {0}]
  /\ PageSize \in Nat
  /\ EntrySize["."] + EntrySize[".."] < PageSize

VARIABLES
  inode_map,   \* inode_map_: the nodes by inode number
  nextFile,    \* next_file_inode_
  nextDir,     \* next_dir_inode_
  request,     \* the last request, but for readdir (history)
  reply,       \* the answer to it
  stream       \* the kernel's open directory

vars == <<inode_map, nextFile, nextDir, request, reply, stream>>

Root == 1

(* children_ is a hash table: order is the one it is walked in. *)
NewNode(dir, parent) ==
  [dir |-> dir, parent |-> parent, data |-> <<>>,
   children |-> [n \in {} |-> Root], order |-> <<>>]

Closed == [open |-> FALSE, ino |-> Root, off |-> 0, got |-> <<>>, clean |-> TRUE]

Error(e) == [err |-> e]
Done     == Error("OK")

Init ==
  /\ inode_map = [i \in {Root} |-> NewNode(TRUE, Root)]
  /\ nextFile = 2
  /\ nextDir = 3
  /\ request = [ino |-> Root, what |-> <<"statfs">>]
  /\ reply = Done
  /\ stream = Closed

-----------------------------------------------------------------------------
(* The inode table.                                                        *)

Found(ino) == ino \in DOMAIN inode_map
IsDir(ino) == Found(ino) /\ inode_map[ino].dir

(* Fault: a directory is taken for a file. *)
IsFileUnasked(ino) == Found(ino)

IsFile(ino) == Found(ino) /\ ~inode_map[ino].dir
Entries(ino) == DOMAIN inode_map[ino].children
Child(ino, name) == inode_map[ino].children[name]

(* The numbers handed out so far. *)
Numbers == {Root} \cup {i \in 2..nextFile - 1 : i % 2 = 0}
                  \cup {i \in 3..nextDir - 1 : i % 2 = 1}

(* Fault: the number of a removed file is given to the next one. *)
AllocateReuses(dir) ==
  LET free == {i \in 2..nextFile + nextDir :
                 ~Found(i) /\ i % 2 = IF dir THEN 1 ELSE 0}
  IN  CHOOSE i \in free : \A j \in free : i <= j

Allocate(dir) == IF dir THEN nextDir ELSE nextFile

(* The order of a hash table after an insertion, which may rehash it. *)
Orders(S) ==
  {o \in [1..Cardinality(S) -> S] : \A i, j \in DOMAIN o : o[i] = o[j] => i = j}

(* allocateInode() *)
AllocateInode(parent, dir, name) ==
  LET ino   == Allocate(dir)
      names == Entries(parent) \cup {name}
  IN  \E order \in Orders(names) :
        /\ inode_map' =
             [i \in DOMAIN inode_map \cup {ino} |->
                IF i = ino THEN NewNode(dir, parent)
                ELSE IF i = parent
                THEN [inode_map[parent] EXCEPT
                        !.children = [n \in names |-> IF n = name THEN ino
                                                      ELSE Child(parent, n)],
                        !.order = order]
                ELSE inode_map[i]]
        /\ nextFile' = IF dir THEN nextFile ELSE nextFile + 2
        /\ nextDir' = IF dir THEN nextDir + 2 ELSE nextDir

Skipping(order, name) ==
  LET k == CHOOSE i \in DOMAIN order : order[i] = name
  IN  [i \in 1..Len(order) - 1 |-> order[IF i < k THEN i ELSE i + 1]]

(* children_.erase(): the others stay in their order. *)
Without(node, name) ==
  [node EXCEPT !.children = [n \in DOMAIN @ \ {name} |-> @[n]],
               !.order = Skipping(@, name)]

(* An inode and its name in parent are erased. *)
Erase(ino, parent, name) ==
  inode_map' = [i \in DOMAIN inode_map \ {ino} |->
                  IF i = parent THEN Without(inode_map[i], name) ELSE inode_map[i]]

(* forgetInode(): the parent is the one the node remembers. *)
ForgetInode(ino) ==
  LET parent == inode_map[ino].parent
  IN  \E name \in Entries(parent) :
        Child(parent, name) = ino /\ Erase(ino, parent, name)

(* The directory being listed is not what it was: what was got of it so far *)
(* is no longer of interest.                                               *)
Disturbs(ino) ==
  stream' = IF stream.open /\ stream.ino = ino
            THEN [stream EXCEPT !.clean = FALSE, !.got = <<>>] ELSE stream

-----------------------------------------------------------------------------
(* Requests about a name in a directory.                                   *)

Rejects(e) ==
  reply' = Error(e) /\ UNCHANGED <<inode_map, nextFile, nextDir, stream>>

Attr(ino) ==
  [attr |-> [dir |-> inode_map[ino].dir, size |-> Len(inode_map[ino].data),
             nlink |-> IF inode_map[ino].dir THEN 2 + Cardinality(Entries(ino))
                       ELSE 1]]

Replies(r) == reply' = r /\ UNCHANGED <<inode_map, nextFile, nextDir, stream>>

Lookup(parent, name) ==
  \/ ~IsDir(parent) /\ Rejects("ENOTDIR")
  \/ IsDir(parent) /\ name \notin Entries(parent) /\ Rejects("ENOENT")
  \/ /\ IsDir(parent) /\ name \in Entries(parent)
     /\ Replies(Attr(Child(parent, name)))

MayCreate(dir) ==
  IF dir THEN nextDir < 3 + 2 * MaxDirs ELSE nextFile < 2 + 2 * MaxFiles

(* What create() and mkdir() do alike. *)
Make(parent, name, dir) ==
  \/ ~IsDir(parent) /\ Rejects("ENOTDIR")
  \/ IsDir(parent) /\ name \in Entries(parent) /\ Rejects("EEXIST")
  \/ /\ IsDir(parent) /\ name \notin Entries(parent)
     /\ MayCreate(dir)
     /\ AllocateInode(parent, dir, name)
     /\ Disturbs(parent)
     /\ reply' = [attr |-> [dir |-> dir, size |-> 0,
                            nlink |-> IF dir THEN 2 ELSE 1]]

Create(parent, name) == Make(parent, name, FALSE)
MkDir(parent, name)  == Make(parent, name, TRUE)

Unlink(parent, name) ==
  \/ ~IsDir(parent) /\ Rejects("ENOTDIR")
  \/ IsDir(parent) /\ name \notin Entries(parent) /\ Rejects("ENOENT")
  \/ /\ IsDir(parent) /\ name \in Entries(parent)
     /\ Erase(Child(parent, name), parent, name)
     /\ Disturbs(parent)
     /\ reply' = Done
     /\ UNCHANGED <<nextFile, nextDir>>

(* Fault: what is in the directory is not looked at. *)
EmptyUnasked(ino) == TRUE

Empty(ino) == Entries(ino) = {}

RmDir(parent, name) ==
  \/ ~IsDir(parent) /\ Rejects("ENOTDIR")
  \/ IsDir(parent) /\ name \notin Entries(parent) /\ Rejects("ENOENT")
  \/ /\ IsDir(parent) /\ name \in Entries(parent)
     /\ LET child == Child(parent, name)
        IN  \/ ~IsDir(child) /\ Rejects("ENOTDIR")
            \/ IsDir(child) /\ ~Empty(child) /\ Rejects("ENOTEMPTY")
            \/ /\ IsDir(child) /\ Empty(child)
               /\ ForgetInode(child)
               /\ Disturbs(inode_map[child].parent)
               /\ reply' = Done
               /\ UNCHANGED <<nextFile, nextDir>>

-----------------------------------------------------------------------------
(* Requests about an inode.                                                *)

(* findInode() and the check that it is a file. *)
NoFile(ino) ==
  \/ ~Found(ino) /\ Rejects("ENOENT")
  \/ IsDir(ino) /\ Rejects("EISDIR")

Open(ino) ==
  \/ NoFile(ino)
  \/ IsFile(ino) /\ Replies(Done)

(* vector::resize() *)
Resize(data, n) == [i \in 1..n |-> IF i <= Len(data) THEN data[i] ELSE Zero]

(* Fault: the file is cut off after what is written. *)
OverwriteCuts(data, buf, off) == SubSeq(Resize(data, off), 1, off) \o buf

(* resize() to the end of what is written, and memcpy(). *)
Overwrite(data, buf, off) ==
  LET end == off + Len(buf)
      d   == IF end > Len(data) THEN Resize(data, end) ELSE data
  IN  [i \in 1..Len(d) |-> IF i \in off + 1..end THEN buf[i - off] ELSE d[i]]

Write(ino, off, buf) ==
  \/ NoFile(ino)
  \/ /\ IsFile(ino)
     /\ inode_map' = [inode_map EXCEPT ![ino].data = Overwrite(@, buf, off)]
     /\ reply' = [count |-> Len(buf)]
     /\ UNCHANGED <<nextFile, nextDir, stream>>

Read(ino, off, size) ==
  \/ NoFile(ino)
  \/ /\ IsFile(ino)
     /\ LET data == inode_map[ino].data
            n    == Min({size, Len(data) - off})
        IN  Replies([bytes |-> IF off >= Len(data) THEN <<>>
                               ELSE SubSeq(data, off + 1, off + n)])

(* setattr() with a size; a mode alone changes nothing and is answered as    *)
(* getattr().                                                               *)
Truncate(ino, size) ==
  \/ NoFile(ino)
  \/ /\ IsFile(ino)
     /\ inode_map' = [inode_map EXCEPT ![ino].data = Resize(@, size)]
     /\ reply' = Attr(ino)'
     /\ UNCHANGED <<nextFile, nextDir, stream>>

GetAttr(ino) ==
  \/ ~Found(ino) /\ Rejects("ENOENT")
  \/ Found(ino) /\ Replies(Attr(ino))

GetXAttr == Rejects("ENOTSUP")

Used == MapThenSumSet(LAMBDA i : IF inode_map[i].dir THEN 0
                                 ELSE Len(inode_map[i].data), DOMAIN inode_map)

Statfs ==
  Replies([free |-> (IF TotalSpace > Used THEN TotalSpace - Used ELSE 0)
                      \div BlockSize,
           files |-> Cardinality(DOMAIN inode_map)])

-----------------------------------------------------------------------------
(* Listing a directory.                                                    *)

(* The entries readdir() walks: the one at place k is given offset k. *)
Walk(ino) == <<".", "..">> \o inode_map[ino].order

(* What the entries of w up to place k take together. *)
Taken(w) == LET t[k \in 0..Len(w)] == IF k = 0 THEN 0 ELSE t[k - 1] + EntrySize[w[k]]
            IN  t

(* Fault: the entry after the offset is passed over, too. *)
FirstPlaceLater(off) == IF off <= 2 THEN off + 1 ELSE off + 2

FirstPlace(off) == off + 1

(* The last place looked at: after an entry of the directory, and not after *)
(* the dots, the loop ends once the size is reached.                        *)
LastPlace(w, first) ==
  LET taken == Taken(w)
      stop  == {k \in first..Len(w) :
                  \/ k = Len(w)
                  \/ k > 2 /\ taken[k] - taken[first - 1] >= PageSize}
  IN  CHOOSE k \in stop : \A j \in stop : k <= j

(* readdir().  fuse_add_direntry() counts an entry that does not fit and     *)
(* does not write it, so a reply may be longer than was asked for.          *)
ReaddirReply(ino, off) ==
  LET w     == Walk(ino)
      first == FirstPlace(off)
  IN  IF first > Len(w) THEN [names |-> <<>>, last |-> off, size |-> 0]
      ELSE LET last == LastPlace(w, first)
           IN  [names |-> SubSeq(w, first, last), last |-> last,
                size |-> Taken(w)[last] - Taken(w)[first - 1]]

(* The kernel's side of opendir(): its root and what it was given. *)
OpenDir(ino) ==
  /\ ~stream.open /\ IsDir(ino)
  /\ stream' = [Closed EXCEPT !.open = TRUE, !.ino = ino]
  /\ UNCHANGED <<inode_map, nextFile, nextDir, request, reply>>

(* readdir() in pieces.  The kernel asks on from the last offset until a     *)
(* reply has no entries, and fails the call (EIO) when one is longer than   *)
(* it asked for.                                                            *)
ReadDir ==
  /\ stream.open
  /\ \/ ~IsDir(stream.ino) /\ stream' = Closed
     \/ /\ IsDir(stream.ino)
        /\ LET r == ReaddirReply(stream.ino, stream.off)
           IN  stream' = IF r.size > PageSize \/ r.names = <<>> THEN Closed
                         ELSE [stream EXCEPT !.off = r.last,
                                 !.got = IF stream.clean THEN @ \o r.names ELSE @]
  /\ UNCHANGED <<inode_map, nextFile, nextDir, request, reply>>

-----------------------------------------------------------------------------
(* The kernel's requests, each to its handler. *)
Asked(ino, r) == request' = [ino |-> ino, what |-> r]

NameRequest(ino, name) ==
  \/ Asked(ino, <<"lookup", name>>) /\ Lookup(ino, name)
  \/ Asked(ino, <<"create", name>>) /\ Create(ino, name)
  \/ Asked(ino, <<"mkdir", name>>) /\ MkDir(ino, name)
  \/ /\ IsDir(ino) /\ name \in Entries(ino) => ~IsDir(Child(ino, name))
     /\ Asked(ino, <<"unlink", name>>) /\ Unlink(ino, name)
  \/ Asked(ino, <<"rmdir", name>>) /\ RmDir(ino, name)

(* What a write at off may bring without passing the bound. *)
Buffers(off) == UNION {[1..n -> Bytes] : n \in 1..MaxSize - off}

InodeRequest(ino) ==
  \/ Asked(ino, <<"open">>) /\ Open(ino)
  \/ Asked(ino, <<"getattr">>) /\ GetAttr(ino)
  \/ Asked(ino, <<"getxattr">>) /\ GetXAttr
  \/ Asked(ino, <<"statfs">>) /\ Statfs
  \/ \E off \in 0..MaxSize, size \in 1..MaxSize :
       Asked(ino, <<"read", off, size>>) /\ Read(ino, off, size)
  \/ \E off \in 0..MaxSize - 1 : \E buf \in Buffers(off) :
       Asked(ino, <<"write", off, buf>>) /\ Write(ino, off, buf)
  \/ \E size \in 0..MaxSize :
       Asked(ino, <<"setattr", size>>) /\ Truncate(ino, size)

Listing == ReadDir \/ \E ino \in Numbers : OpenDir(ino)

Next ==
  \/ \E ino \in Numbers :
       InodeRequest(ino) \/ \E name \in Names : NameRequest(ino, name)
  \/ Listing

Spec == Init /\ [][Next]_vars

-----------------------------------------------------------------------------
NodeOK(node) ==
  /\ node.dir \in BOOLEAN
  /\ node.parent \in Numbers
  /\ node.data \in Seq(Bytes \cup {Zero}) /\ Len(node.data) <= MaxSize
  /\ DOMAIN node.children \subseteq Names
  /\ \A n \in DOMAIN node.children : node.children[n] \in Numbers
  /\ node.order \in Orders(DOMAIN node.children)
  /\ node.dir => node.data = <<>>
  /\ ~node.dir => node.order = <<>>

(* Every node is of its type, and the walk of a directory meets each of its  *)
(* names once.                                                              *)
TypeOK ==
  /\ nextFile \in Nat /\ nextFile % 2 = 0 /\ nextDir \in Nat /\ nextDir % 2 = 1
  /\ DOMAIN inode_map \subseteq Numbers
  /\ \A i \in DOMAIN inode_map : NodeOK(inode_map[i])
  /\ stream.ino \in Numbers
  /\ stream.off \in 0..Cardinality(Names) + 2
  /\ stream.got \in Seq(Names \cup Dots)
  /\ stream.open \in BOOLEAN /\ stream.clean \in BOOLEAN

(* Every entry leads to a node, which remembers the directory it is in:     *)
(* lookup() and readdir() use the node without looking whether it is there. *)
ChildrenAreFound ==
  \A d \in DOMAIN inode_map : \A n \in Entries(d) :
    Found(Child(d, n)) /\ inode_map[Child(d, n)].parent = d

(* Every node but the root is in a directory that is there, under one name: *)
(* nothing is left behind that no path leads to.                            *)
NodesAreNamed ==
  \A i \in DOMAIN inode_map \ {Root} :
    /\ IsDir(inode_map[i].parent)
    /\ \E n \in Entries(inode_map[i].parent) :
         \A m \in Entries(inode_map[i].parent) :
           Child(inode_map[i].parent, m) = i <=> m = n

TreeIsSound == IsDir(Root) /\ ChildrenAreFound /\ NodesAreNamed

(* The kernel may hold the number of a removed file for as long as it likes: *)
(* nothing new ever answers to it.                                          *)
NumbersAreNotReused ==
  [][\A i \in Numbers : ~Found(i) => ~Found(i)']_vars

(* A listing that comes to its end lists every entry once, in whatever       *)
(* pieces it was read, unless the directory was changed meanwhile.  A reply *)
(* that is too long fails it and is never a listing with entries missing.   *)
ListingIsExact ==
  /\ stream.open /\ stream.clean /\ IsDir(stream.ino)
  /\ ReaddirReply(stream.ino, stream.off).names = <<>>
  => stream.got = Walk(stream.ino)
=============================================================================
