---------------------------- MODULE MyFs_proofs -----------------------------
(***************************************************************************)
(* For any names, files and directories, and for any bounds: the inode      *)
(* table of MyFs always is a tree of names, a number is never given to a    *)
(* second file, and a listing that comes to its end is exact.               *)
(*                                                                         *)
(* That every entry leads to a node and every node has one name is not      *)
(* inductive.  What is missing: a file has no entries (or erasing it would  *)
(* leave its children behind), no directory has the root as an entry (or    *)
(* rmdir could remove it), and the numbers to come are not in the table.    *)
(* FsInv adds what a listing needs: the walk of a directory meets each of   *)
(* its names once, also after an erase, and what was got so far is what     *)
(* comes first on it.                                                      *)
(***************************************************************************)
EXTENDS MyFs, Sequence_proofs, FiniteSetTheorems

(* A node has the five fields. *)
IsNode(node) ==
  /\ DOMAIN node = {"dir", "parent", "data", "children", "order"}
  /\ node.dir \in BOOLEAN

(* The table's numbers were handed out. *)
TableShape ==
  /\ \A i \in DOMAIN inode_map : IsNode(inode_map[i])
  /\ DOMAIN inode_map \subseteq Numbers
  /\ nextFile \in Nat /\ nextFile >= 2 /\ nextFile % 2 = 0
  /\ nextDir \in Nat /\ nextDir >= 3 /\ nextDir % 2 = 1

FilesAreLeaves ==
  \A i \in DOMAIN inode_map : ~inode_map[i].dir => Entries(i) = {}

RootIsNoEntry ==
  \A d \in DOMAIN inode_map : \A n \in Entries(d) : Child(d, n) # Root

TreeInv == TableShape /\ TreeIsSound /\ FilesAreLeaves /\ RootIsNoEntry

-----------------------------------------------------------------------------
(* Numbers.                                                                *)

(* A number that is handed out next was not handed out before. *)
LEMMA FreshNumber ==
  ASSUME TableShape, NEW dir \in BOOLEAN
  PROVE  Allocate(dir) \notin Numbers /\ Allocate(dir) # Root
BY DEF TableShape, Allocate, Numbers, Root

(* Handing out numbers keeps those that were. *)
LEMMA NumbersGrow ==
  ASSUME TableShape, NEW dir \in BOOLEAN,
         nextFile' = IF dir THEN nextFile ELSE nextFile + 2,
         nextDir' = IF dir THEN nextDir + 2 ELSE nextDir
  PROVE  /\ Numbers \subseteq Numbers' /\ Allocate(dir) \in Numbers'
         /\ nextFile' \in Nat /\ nextFile' >= 2 /\ nextFile' % 2 = 0
         /\ nextDir' \in Nat /\ nextDir' >= 3 /\ nextDir' % 2 = 1
BY DEF TableShape, Allocate, Numbers, Root

-----------------------------------------------------------------------------
(* The three ways the table changes.                                       *)

(* What is left of a directory that loses a name. *)
LEMMA WithoutName ==
  ASSUME NEW node, IsNode(node), NEW name
  PROVE  /\ IsNode(Without(node, name))
         /\ Without(node, name).dir = node.dir
         /\ Without(node, name).parent = node.parent
         /\ DOMAIN Without(node, name).children = DOMAIN node.children \ {name}
         /\ \A n \in DOMAIN node.children \ {name} :
              Without(node, name).children[n] = node.children[n]
<1> DEFINE left == [n \in DOMAIN node.children \ {name} |-> node.children[n]]
<1>1. Without(node, name).children = left
  BY DEF Without, IsNode
<1> QED BY <1>1 DEF Without, IsNode

(* create() and mkdir(): a new leaf under a new name. *)
LEMMA AllocateKeepsTree ==
  ASSUME TreeInv, NEW parent, IsDir(parent), NEW name, name \notin Entries(parent),
         NEW dir \in BOOLEAN, AllocateInode(parent, dir, name)
  PROVE  TreeInv'
<1>0. PICK ino, names : ino = Allocate(dir) /\ names = Entries(parent) \cup {name}
  OBVIOUS
<1>1. PICK order :
        inode_map' =
          [i \in DOMAIN inode_map \cup {ino} |->
             IF i = ino THEN NewNode(dir, parent)
             ELSE IF i = parent
             THEN [inode_map[parent] EXCEPT
                     !.children = [n \in names |-> IF n = name THEN ino
                                                   ELSE Child(parent, n)],
                     !.order = order]
             ELSE inode_map[i]]
  <2>1. PICK order \in Orders(Entries(parent) \cup {name}) :
          inode_map' =
            [i \in DOMAIN inode_map \cup {Allocate(dir)} |->
               IF i = Allocate(dir) THEN NewNode(dir, parent)
               ELSE IF i = parent
               THEN [inode_map[parent] EXCEPT
                       !.children = [n \in Entries(parent) \cup {name} |->
                                       IF n = name THEN Allocate(dir)
                                       ELSE Child(parent, n)],
                       !.order = order]
               ELSE inode_map[i]]
    BY DEF AllocateInode
  <2> QED BY <1>0, <2>1
<1>2. ino \notin DOMAIN inode_map /\ ino # Root /\ ino # parent /\ parent \in DOMAIN inode_map
  BY <1>0, FreshNumber DEF TreeInv, TableShape, IsDir, Found
<1>3. /\ DOMAIN inode_map' = DOMAIN inode_map \cup {ino}
      /\ inode_map'[ino] = NewNode(dir, parent)
      /\ \A i \in DOMAIN inode_map \ {parent} : inode_map'[i] = inode_map[i]
  BY <1>1, <1>2
<1>4. /\ IsNode(inode_map'[parent])
      /\ inode_map'[parent].dir = inode_map[parent].dir
      /\ inode_map'[parent].parent = inode_map[parent].parent
      /\ inode_map'[parent].children =
           [n \in names |-> IF n = name THEN ino ELSE Child(parent, n)]
  <2>1. IsNode(inode_map[parent])
    BY <1>2 DEF TreeInv, TableShape
  <2>2. inode_map'[parent] =
          [inode_map[parent] EXCEPT
             !.children = [n \in names |-> IF n = name THEN ino ELSE Child(parent, n)],
             !.order = order]
    BY <1>1, <1>2
  <2> QED BY <2>1, <2>2 DEF IsNode
<1>5. /\ \A i \in DOMAIN inode_map :
           /\ inode_map'[i].dir = inode_map[i].dir
           /\ inode_map'[i].parent = inode_map[i].parent
      /\ inode_map'[ino].dir = dir /\ inode_map'[ino].parent = parent
  BY <1>3, <1>4 DEF NewNode
<1>6. /\ \A i \in DOMAIN inode_map \ {parent} : Entries(i)' = Entries(i)
      /\ Entries(parent)' = Entries(parent) \cup {name}
      /\ Entries(ino)' = {}
  BY <1>0, <1>3, <1>4 DEF NewNode, Entries
<1>7. /\ \A i \in DOMAIN inode_map : \A n \in Entries(i) : Child(i, n)' = Child(i, n)
      /\ Child(parent, name)' = ino
  BY <1>0, <1>2, <1>3, <1>4 DEF Entries, Child
<1>8. TableShape'
  <2>1. ASSUME NEW i \in DOMAIN inode_map' PROVE IsNode(inode_map'[i])
    <3>1. CASE i = ino
      BY <1>3, <3>1 DEF NewNode, IsNode
    <3>2. CASE i = parent
      BY <1>4, <3>2
    <3>3. CASE i \in DOMAIN inode_map \ {parent}
      BY <1>3, <3>3 DEF TreeInv, TableShape
    <3> QED BY <1>3, <3>1, <3>2, <3>3
  <2>2. /\ Numbers \subseteq Numbers' /\ ino \in Numbers'
        /\ nextFile' \in Nat /\ nextFile' >= 2 /\ nextFile' % 2 = 0
        /\ nextDir' \in Nat /\ nextDir' >= 3 /\ nextDir' % 2 = 1
    <3>1. TableShape /\ nextFile' = (IF dir THEN nextFile ELSE nextFile + 2)
            /\ nextDir' = (IF dir THEN nextDir + 2 ELSE nextDir)
      BY DEF AllocateInode, TreeInv
    <3> QED BY <1>0, <3>1, NumbersGrow
  <2>3. DOMAIN inode_map' \subseteq Numbers'
    BY <1>3, <2>2 DEF TreeInv, TableShape
  <2> QED BY <1>3, <2>1, <2>2, <2>3 DEF TableShape
<1>9. TreeIsSound'
  <2>1. IsDir(Root)'
    BY <1>3, <1>5 DEF TreeInv, TreeIsSound, IsDir, Found
  <2>2. ChildrenAreFound'
    <3> SUFFICES ASSUME NEW d \in DOMAIN inode_map', NEW n \in Entries(d)'
                 PROVE  Found(Child(d, n))' /\ inode_map'[Child(d, n)'].parent = d
      BY DEF ChildrenAreFound
    <3>1. CASE d = parent /\ n = name
      BY <1>3, <1>5, <1>7, <3>1 DEF Found
    <3>2. CASE d \in DOMAIN inode_map /\ n \in Entries(d)
      <4>1. Found(Child(d, n)) /\ inode_map[Child(d, n)].parent = d
        BY <3>2 DEF TreeInv, TreeIsSound, ChildrenAreFound
      <4> QED BY <1>3, <1>5, <1>7, <3>2, <4>1 DEF Found
    <3> QED BY <1>3, <1>6, <3>1, <3>2
  <2>3. NodesAreNamed'
    <3> SUFFICES ASSUME NEW i \in DOMAIN inode_map' \ {Root}
                 PROVE  /\ IsDir(inode_map[i].parent)'
                        /\ \E n \in Entries(inode_map[i].parent)' :
                             \A m \in Entries(inode_map[i].parent)' :
                               Child(inode_map[i].parent, m)' = i <=> m = n
      BY DEF NodesAreNamed
    <3>1. CASE i = ino
      <4>1. inode_map'[i].parent = parent /\ IsDir(parent)'
        BY <1>2, <1>3, <1>5, <3>1 DEF IsDir, Found
      <4>2. \A m \in Entries(parent) : Child(parent, m)' # ino
        BY <1>2, <1>7 DEF TreeInv, TreeIsSound, ChildrenAreFound, Found
      <4>3. name \in Entries(parent)' /\ \A m \in Entries(parent)' :
                                           Child(parent, m)' = i <=> m = name
        BY <1>6, <1>7, <3>1, <4>2
      <4> QED BY <4>1, <4>3
    <3>2. CASE i \in DOMAIN inode_map
      <4>0. PICK p : p = inode_map[i].parent
        OBVIOUS
      <4>1. IsDir(p) /\ inode_map'[i].parent = p
        BY <1>5, <3>2, <4>0 DEF TreeInv, TreeIsSound, NodesAreNamed
      <4>2. PICK n \in Entries(p) : \A m \in Entries(p) : Child(p, m) = i <=> m = n
        BY <3>2, <4>0 DEF TreeInv, TreeIsSound, NodesAreNamed
      <4>3. p \in DOMAIN inode_map /\ IsDir(p)'
        BY <1>3, <1>5, <4>1 DEF IsDir, Found
      <4>4. n \in Entries(p)' /\ \A m \in Entries(p)' : Child(p, m)' = i <=> m = n
        BY <1>2, <1>6, <1>7, <3>2, <4>2, <4>3
      <4> QED BY <4>1, <4>3, <4>4
    <3> QED BY <1>3, <3>1, <3>2
  <2> QED BY <2>1, <2>2, <2>3 DEF TreeIsSound
<1>10. FilesAreLeaves'
  BY <1>3, <1>5, <1>6 DEF TreeInv, FilesAreLeaves, IsDir
<1>11. RootIsNoEntry'
  BY <1>2, <1>3, <1>6, <1>7 DEF TreeInv, RootIsNoEntry
<1> QED BY <1>8, <1>9, <1>10, <1>11 DEF TreeInv

(* unlink() and rmdir(): a leaf other than the root, and its name. *)
LEMMA EraseKeepsTree ==
  ASSUME TreeInv, NEW parent, NEW ino, NEW name, IsDir(parent),
         name \in Entries(parent), Child(parent, name) = ino, Entries(ino) = {},
         Erase(ino, parent, name), UNCHANGED <<nextFile, nextDir>>
  PROVE  TreeInv'
<1>1. /\ ino \in DOMAIN inode_map /\ parent \in DOMAIN inode_map
      /\ inode_map[ino].parent = parent /\ ino # Root /\ ino # parent
  BY DEF TreeInv, TreeIsSound, ChildrenAreFound, RootIsNoEntry, IsDir, Found
<1>2. /\ DOMAIN inode_map' = DOMAIN inode_map \ {ino}
      /\ inode_map'[parent] = Without(inode_map[parent], name)
      /\ \A i \in DOMAIN inode_map \ {ino, parent} : inode_map'[i] = inode_map[i]
  BY <1>1 DEF Erase
<1>3. /\ IsNode(inode_map'[parent])
      /\ inode_map'[parent].dir = inode_map[parent].dir
      /\ inode_map'[parent].parent = inode_map[parent].parent
      /\ Entries(parent)' = Entries(parent) \ {name}
      /\ \A n \in Entries(parent)' : Child(parent, n)' = Child(parent, n)
  <2>1. IsNode(inode_map[parent])
    BY <1>1 DEF TreeInv, TableShape
  <2> QED BY <1>2, <2>1, WithoutName DEF Entries, Child
<1>4. /\ \A i \in DOMAIN inode_map' :
           /\ inode_map'[i].dir = inode_map[i].dir
           /\ inode_map'[i].parent = inode_map[i].parent
           /\ Entries(i)' \subseteq Entries(i)
           /\ \A n \in Entries(i)' : Child(i, n)' = Child(i, n)
      /\ \A i \in DOMAIN inode_map' \ {parent} : Entries(i)' = Entries(i)
  BY <1>2, <1>3 DEF Entries, Child
<1>5. \A n \in Entries(parent) : Child(parent, n) = ino => n = name
  BY <1>1 DEF TreeInv, TreeIsSound, NodesAreNamed
<1>6. TableShape'
  <2>1. ASSUME NEW i \in DOMAIN inode_map' PROVE IsNode(inode_map'[i])
    BY <1>2, <1>3 DEF TreeInv, TableShape
  <2>2. Numbers' = Numbers
    BY DEF Numbers
  <2> QED BY <1>2, <2>1, <2>2 DEF TreeInv, TableShape
<1>7. IsDir(Root)'
  BY <1>1, <1>2, <1>4 DEF TreeInv, TreeIsSound, IsDir, Found
<1>8. ChildrenAreFound'
  <2> SUFFICES ASSUME NEW d \in DOMAIN inode_map', NEW n \in Entries(d)'
               PROVE  Found(Child(d, n))' /\ inode_map'[Child(d, n)'].parent = d
    BY DEF ChildrenAreFound
  <2>1. d \in DOMAIN inode_map /\ n \in Entries(d) /\ Child(d, n)' = Child(d, n)
    BY <1>2, <1>4
  <2>2. Child(d, n) \in DOMAIN inode_map /\ inode_map[Child(d, n)].parent = d
    BY <2>1 DEF TreeInv, TreeIsSound, ChildrenAreFound, Found
  <2>3. Child(d, n) # ino
    BY <1>1, <1>3, <1>5, <2>1, <2>2
  <2> QED BY <1>2, <1>4, <2>1, <2>2, <2>3 DEF Found
<1>9. NodesAreNamed'
  <2> SUFFICES ASSUME NEW i \in DOMAIN inode_map' \ {Root}
               PROVE  /\ IsDir(inode_map[i].parent)'
                      /\ \E n \in Entries(inode_map[i].parent)' :
                           \A m \in Entries(inode_map[i].parent)' :
                             Child(inode_map[i].parent, m)' = i <=> m = n
    BY DEF NodesAreNamed
  <2>1. PICK p : p = inode_map[i].parent
    OBVIOUS
  <2>2. IsDir(p) /\ inode_map'[i].parent = p /\ i # ino
    BY <1>2, <1>4, <2>1 DEF TreeInv, TreeIsSound, NodesAreNamed
  <2>3. PICK n \in Entries(p) : \A m \in Entries(p) : Child(p, m) = i <=> m = n
    BY <1>2, <2>1 DEF TreeInv, TreeIsSound, NodesAreNamed
  <2>4. p \in DOMAIN inode_map' /\ IsDir(p)'
    BY <1>2, <1>4, <2>2, <2>3 DEF IsDir, Found
  <2>5. n \in Entries(p)'
    BY <1>3, <1>4, <2>2, <2>3, <2>4
  <2>6. \A m \in Entries(p)' : Child(p, m)' = i <=> m = n
    BY <1>4, <2>3, <2>4
  <2> QED BY <2>2, <2>4, <2>5, <2>6
<1>10. FilesAreLeaves'
  BY <1>2, <1>4 DEF TreeInv, FilesAreLeaves
<1>11. RootIsNoEntry'
  BY <1>2, <1>4 DEF TreeInv, RootIsNoEntry
<1> QED BY <1>6, <1>7, <1>8, <1>9, <1>10, <1>11 DEF TreeInv, TreeIsSound

(* write() and setattr(): only the data of a node changes. *)
LEMMA DataKeepsTree ==
  ASSUME TreeInv, NEW ino \in DOMAIN inode_map, NEW data,
         inode_map' = [inode_map EXCEPT ![ino].data = data],
         UNCHANGED <<nextFile, nextDir>>
  PROVE  TreeInv'
<1>1. /\ DOMAIN inode_map' = DOMAIN inode_map
      /\ inode_map'[ino] = [inode_map[ino] EXCEPT !.data = data]
      /\ \A i \in DOMAIN inode_map \ {ino} : inode_map'[i] = inode_map[i]
  OBVIOUS
<1>2. /\ IsNode(inode_map'[ino])
      /\ inode_map'[ino].dir = inode_map[ino].dir
      /\ inode_map'[ino].parent = inode_map[ino].parent
      /\ inode_map'[ino].children = inode_map[ino].children
  <2>1. IsNode(inode_map[ino])
    BY DEF TreeInv, TableShape
  <2> QED BY <1>1, <2>1 DEF IsNode
<1>3. \A i \in DOMAIN inode_map :
        /\ IsNode(inode_map'[i])
        /\ inode_map'[i].dir = inode_map[i].dir
        /\ inode_map'[i].parent = inode_map[i].parent
        /\ inode_map'[i].children = inode_map[i].children
  BY <1>1, <1>2 DEF TreeInv, TableShape
<1>4. TableShape'
  <2>1. Numbers' = Numbers
    BY DEF Numbers
  <2> QED BY <1>1, <1>3, <2>1 DEF TreeInv, TableShape
<1>5. IsDir(Root)'
  BY <1>1, <1>3 DEF TreeInv, TreeIsSound, IsDir, Found
<1>6. ChildrenAreFound'
  BY <1>1, <1>3 DEF TreeInv, TreeIsSound, ChildrenAreFound, Entries, Child, Found
<1>7. NodesAreNamed'
  <2> SUFFICES ASSUME NEW i \in DOMAIN inode_map' \ {Root}
               PROVE  /\ IsDir(inode_map[i].parent)'
                      /\ \E n \in Entries(inode_map[i].parent)' :
                           \A m \in Entries(inode_map[i].parent)' :
                             Child(inode_map[i].parent, m)' = i <=> m = n
    BY DEF NodesAreNamed
  <2>1. PICK p : p = inode_map[i].parent
    OBVIOUS
  <2>2. IsDir(p) /\ inode_map'[i].parent = p
    BY <1>1, <1>3, <2>1 DEF TreeInv, TreeIsSound, NodesAreNamed
  <2>3. PICK n \in Entries(p) : \A m \in Entries(p) : Child(p, m) = i <=> m = n
    BY <1>1, <2>1 DEF TreeInv, TreeIsSound, NodesAreNamed
  <2>4. IsDir(p)' /\ inode_map'[p].children = inode_map[p].children
    BY <1>1, <1>3, <2>2 DEF IsDir, Found
  <2> QED BY <2>2, <2>3, <2>4 DEF Entries, Child
<1>8. FilesAreLeaves' /\ RootIsNoEntry'
  BY <1>1, <1>3 DEF TreeInv, FilesAreLeaves, RootIsNoEntry, Entries, Child
<1> QED BY <1>4, <1>5, <1>6, <1>7, <1>8 DEF TreeInv, TreeIsSound

(* Steps that leave the table alone. *)
LEMMA TableKeepsTree ==
  ASSUME TreeInv, UNCHANGED <<inode_map, nextFile, nextDir>>
  PROVE  TreeInv'
BY DEF TreeInv, TableShape, Numbers, TreeIsSound, IsDir, Found, ChildrenAreFound,
   NodesAreNamed, Entries, Child, FilesAreLeaves, RootIsNoEntry

-----------------------------------------------------------------------------
(* The requests.                                                           *)

LEMMA MakeKeepsTree ==
  ASSUME TreeInv, NEW parent, NEW name, NEW dir \in BOOLEAN, Make(parent, name, dir)
  PROVE  TreeInv'
<1>1. CASE UNCHANGED <<inode_map, nextFile, nextDir>>
  BY <1>1, TableKeepsTree
<1>2. CASE /\ IsDir(parent) /\ name \notin Entries(parent)
           /\ AllocateInode(parent, dir, name)
  BY <1>2, AllocateKeepsTree
<1> QED BY <1>1, <1>2 DEF Make, Rejects

(* The guard is the kernel's: what it unlinks is no directory. *)
LEMMA UnlinkKeepsTree ==
  ASSUME TreeInv, NEW parent, NEW name, Unlink(parent, name),
         IsDir(parent) /\ name \in Entries(parent) => ~IsDir(Child(parent, name))
  PROVE  TreeInv'
<1>1. CASE UNCHANGED <<inode_map, nextFile, nextDir>>
  BY <1>1, TableKeepsTree
<1>2. CASE /\ IsDir(parent) /\ name \in Entries(parent)
           /\ Erase(Child(parent, name), parent, name)
           /\ UNCHANGED <<nextFile, nextDir>>
  <2>1. Child(parent, name) \in DOMAIN inode_map
    BY <1>2 DEF TreeInv, TreeIsSound, ChildrenAreFound, IsDir, Found
  <2>2. Entries(Child(parent, name)) = {}
    BY <1>2, <2>1 DEF TreeInv, FilesAreLeaves, IsDir, Found
  <2> QED BY <1>2, <2>2, EraseKeepsTree
<1> QED BY <1>1, <1>2 DEF Unlink, Rejects

LEMMA RmDirKeepsTree ==
  ASSUME TreeInv, NEW parent, NEW name, RmDir(parent, name)
  PROVE  TreeInv'
<1>1. CASE UNCHANGED <<inode_map, nextFile, nextDir>>
  BY <1>1, TableKeepsTree
<1>2. CASE /\ IsDir(parent) /\ name \in Entries(parent)
           /\ Empty(Child(parent, name)) /\ ForgetInode(Child(parent, name))
           /\ UNCHANGED <<nextFile, nextDir>>
  <2>1. PICK ino : ino = Child(parent, name)
    OBVIOUS
  <2>2. inode_map[ino].parent = parent
    BY <1>2, <2>1 DEF TreeInv, TreeIsSound, ChildrenAreFound, IsDir, Found
  <2>3. PICK n \in Entries(parent) : Child(parent, n) = ino /\ Erase(ino, parent, n)
    BY <1>2, <2>1, <2>2 DEF ForgetInode
  <2> QED BY <1>2, <2>1, <2>3, EraseKeepsTree DEF Empty
<1> QED BY <1>1, <1>2 DEF RmDir, Rejects

LEMMA NameRequestKeepsTree ==
  ASSUME TreeInv, NEW ino, NEW name, NameRequest(ino, name)
  PROVE  TreeInv'
<1>1. CASE Lookup(ino, name)
  BY <1>1, TableKeepsTree DEF Lookup, Rejects, Replies
<1>2. CASE Make(ino, name, FALSE) \/ Make(ino, name, TRUE)
  BY <1>2, MakeKeepsTree
<1>3. CASE /\ IsDir(ino) /\ name \in Entries(ino) => ~IsDir(Child(ino, name))
           /\ Unlink(ino, name)
  BY <1>3, UnlinkKeepsTree
<1>4. CASE RmDir(ino, name)
  BY <1>4, RmDirKeepsTree
<1> QED BY <1>1, <1>2, <1>3, <1>4 DEF NameRequest, Create, MkDir

LEMMA InodeRequestKeepsTree ==
  ASSUME TreeInv, NEW ino, InodeRequest(ino)
  PROVE  TreeInv'
<1>1. CASE UNCHANGED <<inode_map, nextFile, nextDir>>
  BY <1>1, TableKeepsTree
<1>2. CASE IsFile(ino) /\ (\E data : inode_map' = [inode_map EXCEPT ![ino].data = data])
           /\ UNCHANGED <<nextFile, nextDir>>
  BY <1>2, DataKeepsTree DEF IsFile, Found
<1>3. ASSUME NEW off, NEW size, Read(ino, off, size)
      PROVE  UNCHANGED <<inode_map, nextFile, nextDir>>
  BY <1>3 DEF Read, NoFile, Rejects, Replies
<1>4. ASSUME NEW off, NEW buf, Write(ino, off, buf) PROVE TreeInv'
  <2>1. CASE NoFile(ino)
    BY <1>1, <2>1 DEF NoFile, Rejects
  <2>2. CASE ~NoFile(ino)
    <3> DEFINE data == Overwrite(inode_map[ino].data, buf, off)
    <3>1. /\ IsFile(ino) /\ inode_map' = [inode_map EXCEPT ![ino].data = data]
          /\ UNCHANGED <<nextFile, nextDir>>
      BY <1>4, <2>2 DEF Write
    <3> HIDE DEF data
    <3> QED BY <1>2, <3>1
  <2> QED BY <2>1, <2>2
<1>5. ASSUME NEW size, Truncate(ino, size) PROVE TreeInv'
  <2>1. CASE NoFile(ino)
    BY <1>1, <2>1 DEF NoFile, Rejects
  <2>2. CASE ~NoFile(ino)
    <3> DEFINE data == Resize(inode_map[ino].data, size)
    <3>1. /\ IsFile(ino) /\ inode_map' = [inode_map EXCEPT ![ino].data = data]
          /\ UNCHANGED <<nextFile, nextDir>>
      BY <1>5, <2>2 DEF Truncate
    <3> HIDE DEF data
    <3> QED BY <1>2, <3>1
  <2> QED BY <2>1, <2>2
<1>6. Open(ino) \/ GetAttr(ino) \/ GetXAttr \/ Statfs =>
        UNCHANGED <<inode_map, nextFile, nextDir>>
  BY DEF Open, GetAttr, GetXAttr, Statfs, NoFile, Rejects, Replies
<1> QED BY <1>1, <1>3, <1>4, <1>5, <1>6 DEF InodeRequest

LEMMA TreeInductive == TreeInv /\ [Next]_vars => TreeInv'
<1> SUFFICES ASSUME TreeInv, [Next]_vars PROVE TreeInv'
  OBVIOUS
<1>1. CASE \E ino \in Numbers : InodeRequest(ino)
  BY <1>1, InodeRequestKeepsTree
<1>2. CASE \E ino \in Numbers : \E name \in Names : NameRequest(ino, name)
  BY <1>2, NameRequestKeepsTree
<1>3. CASE Listing
  BY <1>3, TableKeepsTree DEF Listing, ReadDir, OpenDir
<1>4. CASE UNCHANGED vars
  BY <1>4, TableKeepsTree DEF vars
<1> QED BY <1>1, <1>2, <1>3, <1>4 DEF Next

LEMMA TreeInvHolds == Spec => []TreeInv
<1>1. Init => TreeInv
  <2> SUFFICES ASSUME Init PROVE TreeInv
    OBVIOUS
  <2>1. /\ DOMAIN inode_map = {Root} /\ inode_map[Root] = NewNode(TRUE, Root)
        /\ Root \in Numbers /\ Entries(Root) = {}
    BY DEF Init, NewNode, Numbers, Entries
  <2>2. TableShape
    <3>1. IsNode(inode_map[Root])
      BY <2>1 DEF IsNode, NewNode
    <3>2. \A i \in DOMAIN inode_map : IsNode(inode_map[i]) /\ i \in Numbers
      BY <2>1, <3>1
    <3>3. /\ nextFile \in Nat /\ nextFile >= 2 /\ nextFile % 2 = 0
          /\ nextDir \in Nat /\ nextDir >= 3 /\ nextDir % 2 = 1
      <4>1. nextFile = 2 /\ nextDir = 3
        BY DEF Init
      <4> QED BY <4>1
    <3> QED BY <3>2, <3>3 DEF TableShape
  <2> QED BY <2>1, <2>2 DEF TreeInv, TreeIsSound, ChildrenAreFound, NodesAreNamed,
             FilesAreLeaves, RootIsNoEntry, IsDir, Found, NewNode
<1> QED BY <1>1, TreeInductive, PTL DEF Spec

-----------------------------------------------------------------------------
(* myfs_server.cpp: whatever is created and removed, under whatever names    *)
(* and however deep, every entry leads to a node that remembers the         *)
(* directory it is in, and every node but the root has exactly one name.    *)
THEOREM TreeStaysSound == Spec => []TreeIsSound
BY TreeInvHolds, PTL DEF TreeInv

(* myfs_server.hpp:47-64: the number of what was removed is never given to   *)
(* anything else, so a handle the kernel kept cannot reach another file.    *)
THEOREM RemovedStaysRemoved == Spec => NumbersAreNotReused
<1>1. TreeInv /\ [Next]_vars => [\A i \in Numbers : ~Found(i) => ~Found(i)']_vars
  <2> SUFFICES ASSUME TreeInv, Next, NEW i \in Numbers, ~Found(i)
               PROVE  ~Found(i)'
    BY DEF vars
  <2> USE DEF Found
  <2>1. CASE \E ino \in Numbers : InodeRequest(ino)
    BY <2>1 DEF InodeRequest, Open, GetAttr, GetXAttr, Statfs, Read, Write,
       Truncate, NoFile, Rejects, Replies
  <2>2. CASE Listing
    BY <2>2 DEF Listing, ReadDir, OpenDir
  <2>3. ASSUME NEW ino, NEW name, NameRequest(ino, name) PROVE i \notin DOMAIN inode_map'
    <3>1. ASSUME NEW dir \in BOOLEAN, Make(ino, name, dir) PROVE i \notin DOMAIN inode_map'
      <4>1. i # Allocate(dir)
        BY FreshNumber DEF TreeInv
      <4> QED BY <3>1, <4>1 DEF Make, AllocateInode, Rejects
    <3>2. Lookup(ino, name) \/ Unlink(ino, name) \/ RmDir(ino, name) =>
            i \notin DOMAIN inode_map'
      BY DEF Lookup, Unlink, RmDir, ForgetInode, Erase, Rejects, Replies
    <3> QED BY <2>3, <3>1, <3>2 DEF NameRequest, Create, MkDir
  <2> QED BY <2>1, <2>2, <2>3 DEF Next
<1> QED BY <1>1, TreeInvHolds, PTL DEF Spec, NumbersAreNotReused

-----------------------------------------------------------------------------
(* Nodes and walks.                                                        *)

(* A node of its type, with the numbers of N handed out. *)
NodeIn(node, N) ==
  /\ node.dir \in BOOLEAN
  /\ node.parent \in N
  /\ node.data \in Seq(Bytes \cup {Zero}) /\ Len(node.data) <= MaxSize
  /\ DOMAIN node.children \subseteq Names
  /\ \A n \in DOMAIN node.children : node.children[n] \in N
  /\ node.order \in Orders(DOMAIN node.children)
  /\ node.dir => node.data = <<>>
  /\ ~node.dir => node.order = <<>>

Nodes == \A i \in DOMAIN inode_map : NodeIn(inode_map[i], Numbers)

Streams(N) ==
  [open : BOOLEAN, ino : N, off : 0..Cardinality(Names) + 2,
   got : Seq(Names \cup Dots), clean : BOOLEAN]

(* What the user got of a directory that was left alone is what comes first *)
(* on its walk, up to the offset.                                          *)
ListedSoFar ==
  stream.open /\ stream.clean /\ IsDir(stream.ino) =>
    /\ stream.off <= Len(Walk(stream.ino))
    /\ stream.got = SubSeq(Walk(stream.ino), 1, stream.off)

FsInv == TreeInv /\ Nodes /\ stream \in Streams(Numbers) /\ ListedSoFar

LEMMA NodeIsOK == \A node : NodeOK(node) <=> NodeIn(node, Numbers)
BY DEF NodeOK, NodeIn

(* A set of names is finite, and a walk of it meets every name. *)
LEMMA OrderMeetsAll ==
  ASSUME NEW S, S \subseteq Names, NEW order \in Orders(S)
  PROVE  /\ IsFiniteSet(S) /\ Cardinality(S) \in Nat
         /\ Cardinality(S) <= Cardinality(Names) /\ Cardinality(Names) \in Nat
         /\ order \in [1..Cardinality(S) -> S]
         /\ order \in Seq(S) /\ Len(order) = Cardinality(S)
         /\ \A x \in S : \E i \in DOMAIN order : order[i] = x
         /\ \A i, j \in DOMAIN order : order[i] = order[j] => i = j
<1>1. /\ IsFiniteSet(S) /\ Cardinality(S) <= Cardinality(Names)
      /\ Cardinality(S) \in Nat /\ Cardinality(Names) \in Nat
  BY MyFsAssumptions, FS_Subset, FS_CardinalityType
<1>2. PICK n : n = Cardinality(S)
  OBVIOUS
<1>3. n \in Nat /\ order \in [1..n -> S] /\ order \in Injection(1..n, S)
  <2>1. order \in [1..n -> S] /\ \A i, j \in DOMAIN order : order[i] = order[j] => i = j
    BY <1>2 DEF Orders
  <2>2. DOMAIN order = 1..n
    BY <2>1
  <2> QED BY <1>1, <1>2, <2>1, <2>2 DEF Injection, IsInjective
<1>4. IsFiniteSet(1..n) /\ Cardinality(1..n) = n
  BY <1>3, FS_Interval
<1>5. order \in Surjection(1..n, S)
  BY <1>1, <1>2, <1>3, <1>4, FS_Injection
<1>6. order \in Seq(S) /\ Len(order) = n
  BY <1>3
<1> QED BY <1>1, <1>2, <1>3, <1>5, <1>6 DEF Surjection, Orders

(* children_.erase() leaves a walk of what is left. *)
LEMMA SkippingIsOrder ==
  ASSUME NEW S, S \subseteq Names, NEW order \in Orders(S), NEW x \in S
  PROVE  Skipping(order, x) \in Orders(S \ {x})
<1>1. PICK n : n = Cardinality(S)
  OBVIOUS
<1>2. /\ IsFiniteSet(S) /\ n \in Nat /\ order \in [1..n -> S] /\ Len(order) = n
      /\ \A i, j \in 1..n : order[i] = order[j] => i = j
      /\ \E i \in 1..n : order[i] = x
  BY <1>1, OrderMeetsAll
<1>3. PICK k : k = CHOOSE i \in DOMAIN order : order[i] = x
  OBVIOUS
<1>4. k \in 1..n /\ order[k] = x
  BY <1>2, <1>3
<1>5. PICK t : t = Skipping(order, x)
  OBVIOUS
<1>6. t = [i \in 1..n - 1 |-> order[IF i < k THEN i ELSE i + 1]]
  BY <1>2, <1>3, <1>5 DEF Skipping
<1>7. Cardinality(S \ {x}) = n - 1
  BY <1>1, <1>2, FS_RemoveElement
<1>8. ASSUME NEW i \in 1..n - 1
      PROVE  \E j \in 1..n : j = (IF i < k THEN i ELSE i + 1) /\ j # k /\ t[i] = order[j]
  BY <1>2, <1>4, <1>6
<1>9. ASSUME NEW i \in 1..n - 1 PROVE t[i] \in S \ {x}
  BY <1>2, <1>4, <1>8
<1>10. t \in [1..n - 1 -> S \ {x}]
  BY <1>6, <1>9
<1>11. ASSUME NEW i \in 1..n - 1, NEW j \in 1..n - 1, t[i] = t[j] PROVE i = j
  <2>1. PICK a \in 1..n : a = (IF i < k THEN i ELSE i + 1) /\ t[i] = order[a]
    BY <1>8
  <2>2. PICK b \in 1..n : b = (IF j < k THEN j ELSE j + 1) /\ t[j] = order[b]
    BY <1>8
  <2>3. a = b
    BY <1>2, <1>11, <2>1, <2>2
  <2> QED BY <1>2, <1>4, <2>1, <2>2, <2>3
<1> QED BY <1>5, <1>7, <1>10, <1>11 DEF Orders

(* The walk of a directory: the dots, and its entries. *)
LEMMA WalkLength ==
  ASSUME NEW S, S \subseteq Names, NEW order \in Orders(S)
  PROVE  LET w == <<".", "..">> \o order
         IN  /\ w \in Seq(Names \cup Dots)
             /\ Len(w) \in Nat /\ Len(w) >= 2 /\ Len(w) <= Cardinality(Names) + 2
<1>1. /\ order \in Seq(S) /\ Len(order) = Cardinality(S) /\ Cardinality(S) \in Nat
      /\ Cardinality(S) <= Cardinality(Names) /\ Cardinality(Names) \in Nat
  BY OrderMeetsAll
<1>2. order \in Seq(Names \cup Dots)
  BY <1>1
<1>3. <<".", "..">> \in Seq(Names \cup Dots) /\ Len(<<".", "..">>) = 2
  BY DEF Dots
<1> QED BY <1>1, <1>2, <1>3, ConcatProperties

LEMMA NewNodeIn ==
  ASSUME NEW N, NEW dir \in BOOLEAN, NEW parent \in N
  PROVE  NodeIn(NewNode(dir, parent), N)
<1>1. PICK none : none = [n \in {} |-> Root]
  OBVIOUS
<1>2. DOMAIN none = {}
  BY <1>1
<1>3. Cardinality({}) = 0
  BY FS_EmptySet
<1>4. <<>> \in Orders({})
  BY <1>3 DEF Orders
<1>5. <<>> \in Seq(Bytes \cup {Zero}) /\ Len(<<>>) <= MaxSize
  BY MyFsAssumptions
<1>6. PICK node : node = NewNode(dir, parent)
  OBVIOUS
<1>7. /\ node.dir = dir /\ node.parent = parent /\ node.data = <<>>
      /\ node.children = none /\ node.order = <<>>
  BY <1>1, <1>6 DEF NewNode
<1> QED BY <1>2, <1>4, <1>5, <1>6, <1>7 DEF NodeIn

(* More numbers do no harm. *)
LEMMA NodeInMore ==
  ASSUME NEW N, NEW M, N \subseteq M, NEW node, NodeIn(node, N)
  PROVE  NodeIn(node, M)
BY DEF NodeIn

LEMMA WithoutIn ==
  ASSUME NEW N, NEW node, IsNode(node), node.dir, NodeIn(node, N),
         NEW name \in DOMAIN node.children
  PROVE  NodeIn(Without(node, name), N)
<1>1. PICK t : t = Without(node, name)
  OBVIOUS
<1>2. /\ t.dir = node.dir /\ t.parent = node.parent
      /\ DOMAIN t.children = DOMAIN node.children \ {name}
      /\ \A n \in DOMAIN node.children \ {name} : t.children[n] = node.children[n]
  BY <1>1, WithoutName
<1>3. t.data = node.data /\ t.order = Skipping(node.order, name)
  BY <1>1 DEF Without, IsNode
<1>4. t.order \in Orders(DOMAIN t.children)
  BY <1>2, <1>3, SkippingIsOrder DEF NodeIn
<1> QED BY <1>1, <1>2, <1>3, <1>4 DEF NodeIn

(* write() and setattr() keep a file's bytes bytes and its size in bounds. *)
LEMMA ResizeTyped ==
  ASSUME NEW data \in Seq(Bytes \cup {Zero}), NEW n \in Nat
  PROVE  Resize(data, n) \in Seq(Bytes \cup {Zero}) /\ Len(Resize(data, n)) = n
<1>1. PICK t : t = Resize(data, n)
  OBVIOUS
<1>2. t = [i \in 1..n |-> IF i <= Len(data) THEN data[i] ELSE Zero]
  BY <1>1 DEF Resize
<1>3. ASSUME NEW i \in 1..n PROVE t[i] \in Bytes \cup {Zero}
  BY <1>2
<1>4. t \in [1..n -> Bytes \cup {Zero}]
  BY <1>2, <1>3
<1> QED BY <1>1, <1>4

LEMMA OverwriteTyped ==
  ASSUME NEW data \in Seq(Bytes \cup {Zero}), Len(data) <= MaxSize,
         NEW off \in 0..MaxSize - 1, NEW buf \in Buffers(off)
  PROVE  /\ Overwrite(data, buf, off) \in Seq(Bytes \cup {Zero})
         /\ Len(Overwrite(data, buf, off)) <= MaxSize
<1>0. PICK n \in 1..MaxSize - off : buf \in [1..n -> Bytes]
  BY DEF Buffers
<1>1. PICK end, d : /\ end = off + Len(buf)
                    /\ d = IF end > Len(data) THEN Resize(data, end) ELSE data
  OBVIOUS
<1>2. MaxSize \in Nat /\ off \in Nat /\ end \in Nat /\ end <= MaxSize /\ end = off + n
  <2>1. n \in Nat /\ Len(buf) = n
    BY <1>0, MyFsAssumptions
  <2> QED BY <1>0, <1>1, <2>1, MyFsAssumptions
<1>3. d \in Seq(Bytes \cup {Zero}) /\ Len(d) <= MaxSize /\ Len(d) \in Nat
  <2>1. Resize(data, end) \in Seq(Bytes \cup {Zero}) /\ Len(Resize(data, end)) = end
    BY <1>2, ResizeTyped
  <2>2. CASE end > Len(data)
    BY <1>1, <1>2, <2>1, <2>2
  <2>3. CASE ~(end > Len(data))
    BY <1>1, <1>2, <2>3
  <2> QED BY <2>2, <2>3
<1>4. PICK t : t = Overwrite(data, buf, off)
  OBVIOUS
<1>5. t = [i \in 1..Len(d) |-> IF i \in off + 1..end THEN buf[i - off] ELSE d[i]]
  BY <1>1, <1>4 DEF Overwrite
<1>6. ASSUME NEW i \in 1..Len(d) PROVE t[i] \in Bytes \cup {Zero}
  <2>1. CASE i \in off + 1..end
    <3>1. i - off \in 1..n
      BY <1>0, <1>2, <2>1
    <3> QED BY <1>0, <1>5, <2>1, <3>1
  <2>2. CASE i \notin off + 1..end
    BY <1>3, <1>5, <2>2
  <2> QED BY <2>1, <2>2
<1>7. t \in [1..Len(d) -> Bytes \cup {Zero}]
  BY <1>5, <1>6
<1> QED BY <1>3, <1>4, <1>7

LEMMA DataIn ==
  ASSUME NEW N, NEW node, IsNode(node), ~node.dir, NodeIn(node, N),
         NEW data \in Seq(Bytes \cup {Zero}), Len(data) <= MaxSize
  PROVE  NodeIn([node EXCEPT !.data = data], N)
<1>1. PICK t : t = [node EXCEPT !.data = data]
  OBVIOUS
<1>2. /\ t.dir = node.dir /\ t.parent = node.parent /\ t.data = data
      /\ t.children = node.children /\ t.order = node.order
  BY <1>1 DEF IsNode
<1> QED BY <1>1, <1>2 DEF NodeIn

-----------------------------------------------------------------------------
(* What a listing has, step by step.                                       *)

LEMMA WalkOf ==
  ASSUME Nodes, NEW ino \in DOMAIN inode_map
  PROVE  /\ Walk(ino) \in Seq(Names \cup Dots)
         /\ Len(Walk(ino)) \in Nat /\ Len(Walk(ino)) >= 2
         /\ Len(Walk(ino)) <= Cardinality(Names) + 2
BY WalkLength DEF Nodes, NodeIn, Walk

LEMMA ClosedTyped ==
  /\ Closed \in Streams(Numbers)
  /\ Closed.open = FALSE /\ Closed.clean = TRUE /\ Closed.off = 0 /\ Closed.got = <<>>
<1>1. Cardinality(Names) + 2 \in Nat
  BY MyFsAssumptions, FS_CardinalityType
<1>2. 0 \in 0..Cardinality(Names) + 2 /\ Root \in Numbers /\ <<>> \in Seq(Names \cup Dots)
  BY <1>1 DEF Numbers
<1> QED BY <1>2 DEF Closed, Streams

(* A listing whose directory stays as it is has what it had. *)
LEMMA SameWalk ==
  ASSUME ListedSoFar, UNCHANGED stream,
         IsDir(stream.ino)' =>
           /\ stream.ino \in DOMAIN inode_map
           /\ inode_map'[stream.ino].dir = inode_map[stream.ino].dir
           /\ inode_map'[stream.ino].order = inode_map[stream.ino].order
  PROVE  ListedSoFar'
<1> SUFFICES ASSUME stream.open, stream.clean, IsDir(stream.ino)'
             PROVE  /\ stream.off <= Len(Walk(stream.ino)')
                    /\ stream.got = SubSeq(Walk(stream.ino)', 1, stream.off)
  BY DEF ListedSoFar
<1>1. IsDir(stream.ino) /\ Walk(stream.ino)' = Walk(stream.ino)
  BY DEF IsDir, Found, Walk
<1> QED BY <1>1 DEF ListedSoFar

(* A directory that changes ends the interest in its listing, and the others *)
(* stay as they are.                                                       *)
LEMMA DisturbedListing ==
  ASSUME FsInv, NEW parent, Disturbs(parent), Numbers \subseteq Numbers',
         \A i \in DOMAIN inode_map' \ {parent} : i \in Numbers =>
           i \in DOMAIN inode_map /\ inode_map'[i] = inode_map[i]
  PROVE  stream' \in Streams(Numbers)' /\ ListedSoFar'
<1>1. stream \in Streams(Numbers)
  BY DEF FsInv
<1>2. CASE stream.open /\ stream.ino = parent
  <2>1. PICK t : t = [stream EXCEPT !.clean = FALSE, !.got = <<>>]
    OBVIOUS
  <2>2. stream' = t
    BY <1>2, <2>1 DEF Disturbs
  <2>3. <<>> \in Seq(Names \cup Dots)
    OBVIOUS
  <2>4. t \in Streams(Numbers) /\ ~t.clean
    BY <1>1, <2>1, <2>3 DEF Streams
  <2>5. t \in Streams(Numbers')
    BY <2>4 DEF Streams
  <2> QED BY <2>2, <2>4, <2>5 DEF ListedSoFar, Streams
<1>3. CASE ~(stream.open /\ stream.ino = parent)
  <2>1. UNCHANGED stream
    BY <1>3 DEF Disturbs
  <2>2. stream' \in Streams(Numbers)'
    BY <1>1, <2>1 DEF Streams
  <2>3. CASE stream.ino # parent
    <3>1. stream.ino \in Numbers
      BY <1>1 DEF Streams
    <3> QED BY <2>1, <2>2, <2>3, <3>1, SameWalk DEF FsInv, IsDir, Found
  <2>4. CASE ~stream.open
    BY <2>1, <2>2, <2>4 DEF ListedSoFar
  <2> QED BY <1>3, <2>3, <2>4
<1> QED BY <1>2, <1>3

LEMMA AllocateKeepsFs ==
  ASSUME FsInv, NEW parent, IsDir(parent), NEW name \in Names,
         name \notin Entries(parent), NEW dir \in BOOLEAN,
         AllocateInode(parent, dir, name), Disturbs(parent)
  PROVE  FsInv'
<1>0. PICK ino, names : ino = Allocate(dir) /\ names = Entries(parent) \cup {name}
  OBVIOUS
<1>1. PICK order \in Orders(names) :
        inode_map' =
          [i \in DOMAIN inode_map \cup {ino} |->
             IF i = ino THEN NewNode(dir, parent)
             ELSE IF i = parent
             THEN [inode_map[parent] EXCEPT
                     !.children = [n \in names |-> IF n = name THEN ino
                                                   ELSE Child(parent, n)],
                     !.order = order]
             ELSE inode_map[i]]
  <2>1. PICK order \in Orders(Entries(parent) \cup {name}) :
          inode_map' =
            [i \in DOMAIN inode_map \cup {Allocate(dir)} |->
               IF i = Allocate(dir) THEN NewNode(dir, parent)
               ELSE IF i = parent
               THEN [inode_map[parent] EXCEPT
                       !.children = [n \in Entries(parent) \cup {name} |->
                                       IF n = name THEN Allocate(dir)
                                       ELSE Child(parent, n)],
                       !.order = order]
               ELSE inode_map[i]]
    BY DEF AllocateInode
  <2> QED BY <1>0, <2>1
<1>2. /\ ino \notin Numbers /\ ino # parent /\ parent \in DOMAIN inode_map
      /\ DOMAIN inode_map \subseteq Numbers
  BY <1>0, FreshNumber DEF FsInv, TreeInv, TableShape, IsDir, Found
<1>3. /\ DOMAIN inode_map' = DOMAIN inode_map \cup {ino}
      /\ inode_map'[ino] = NewNode(dir, parent)
      /\ \A i \in DOMAIN inode_map \ {parent} : inode_map'[i] = inode_map[i]
  BY <1>1, <1>2
<1>4. Numbers \subseteq Numbers' /\ ino \in Numbers'
  <2>1. TableShape /\ nextFile' = (IF dir THEN nextFile ELSE nextFile + 2)
          /\ nextDir' = (IF dir THEN nextDir + 2 ELSE nextDir)
    BY DEF AllocateInode, FsInv, TreeInv
  <2> QED BY <1>0, <2>1, NumbersGrow
<1>5. NodeIn(inode_map'[parent], Numbers')
  <2>1. PICK node, t : node = inode_map[parent] /\ t = inode_map'[parent]
    OBVIOUS
  <2>2. IsNode(node) /\ node.dir /\ NodeIn(node, Numbers)
    BY <1>2, <2>1 DEF FsInv, TreeInv, TableShape, Nodes, IsDir
  <2>3. PICK new : new = [n \in names |-> IF n = name THEN ino ELSE Child(parent, n)]
    OBVIOUS
  <2>4. t = [node EXCEPT !.children = new, !.order = order]
    BY <1>1, <1>2, <2>1, <2>3
  <2>5. /\ t.dir = node.dir /\ t.parent = node.parent /\ t.data = node.data
        /\ t.children = new /\ t.order = order
    BY <2>2, <2>4 DEF IsNode
  <2>6. DOMAIN new = names /\ names \subseteq Names
    BY <1>0, <2>1, <2>2, <2>3 DEF NodeIn, Entries
  <2>7. \A n \in names : new[n] \in Numbers'
    BY <1>0, <1>4, <2>1, <2>2, <2>3 DEF NodeIn, Entries, Child
  <2> QED BY <1>4, <2>1, <2>2, <2>5, <2>6, <2>7 DEF NodeIn
<1>6. Nodes'
  <2> SUFFICES ASSUME NEW i \in DOMAIN inode_map'
               PROVE  NodeIn(inode_map'[i], Numbers')
    BY DEF Nodes
  <2>1. CASE i = ino
    <3>1. parent \in Numbers'
      BY <1>2, <1>4
    <3> QED BY <1>3, <2>1, <3>1, NewNodeIn
  <2>2. CASE i = parent
    BY <1>5, <2>2
  <2>3. CASE i \in DOMAIN inode_map \ {parent}
    BY <1>3, <1>4, <2>3, NodeInMore DEF FsInv, Nodes
  <2> QED BY <1>3, <2>1, <2>2, <2>3
<1>7. stream' \in Streams(Numbers)' /\ ListedSoFar'
  BY <1>2, <1>3, <1>4, DisturbedListing
<1>8. TreeInv'
  BY AllocateKeepsTree DEF FsInv
<1> QED BY <1>6, <1>7, <1>8 DEF FsInv

LEMMA EraseKeepsFs ==
  ASSUME FsInv, NEW parent, NEW ino, NEW name, IsDir(parent),
         name \in Entries(parent), Child(parent, name) = ino, Entries(ino) = {},
         Erase(ino, parent, name), UNCHANGED <<nextFile, nextDir>>, Disturbs(parent)
  PROVE  FsInv'
<1>1. /\ ino \in DOMAIN inode_map /\ parent \in DOMAIN inode_map
      /\ inode_map[ino].parent = parent /\ ino # parent
  BY DEF FsInv, TreeInv, TreeIsSound, ChildrenAreFound, RootIsNoEntry, IsDir, Found
<1>2. /\ DOMAIN inode_map' = DOMAIN inode_map \ {ino}
      /\ inode_map'[parent] = Without(inode_map[parent], name)
      /\ \A i \in DOMAIN inode_map \ {ino, parent} : inode_map'[i] = inode_map[i]
  BY <1>1 DEF Erase
<1>3. Numbers' = Numbers
  BY DEF Numbers
<1>4. NodeIn(inode_map'[parent], Numbers)
  <2>1. PICK node : node = inode_map[parent]
    OBVIOUS
  <2>2. /\ IsNode(node) /\ node.dir /\ NodeIn(node, Numbers)
        /\ name \in DOMAIN node.children
    BY <1>1, <2>1 DEF FsInv, TreeInv, TableShape, Nodes, IsDir, Entries
  <2> QED BY <1>2, <2>1, <2>2, WithoutIn
<1>5. Nodes'
  BY <1>2, <1>3, <1>4 DEF FsInv, Nodes
<1>6. stream' \in Streams(Numbers)' /\ ListedSoFar'
  BY <1>2, <1>3, DisturbedListing
<1>7. TreeInv'
  BY EraseKeepsTree DEF FsInv
<1> QED BY <1>5, <1>6, <1>7 DEF FsInv

LEMMA DataKeepsFs ==
  ASSUME FsInv, NEW ino, IsFile(ino), NEW data \in Seq(Bytes \cup {Zero}),
         Len(data) <= MaxSize, inode_map' = [inode_map EXCEPT ![ino].data = data],
         UNCHANGED <<nextFile, nextDir, stream>>
  PROVE  FsInv'
<1>1. /\ ino \in DOMAIN inode_map /\ ~inode_map[ino].dir
      /\ DOMAIN inode_map' = DOMAIN inode_map
      /\ inode_map'[ino] = [inode_map[ino] EXCEPT !.data = data]
      /\ \A i \in DOMAIN inode_map \ {ino} : inode_map'[i] = inode_map[i]
  BY DEF IsFile, Found
<1>2. Numbers' = Numbers
  BY DEF Numbers
<1>3. IsNode(inode_map[ino]) /\ NodeIn(inode_map[ino], Numbers)
  BY <1>1 DEF FsInv, TreeInv, TableShape, Nodes
<1>4. NodeIn(inode_map'[ino], Numbers)
  <2>1. PICK node : node = inode_map[ino]
    OBVIOUS
  <2> QED BY <1>1, <1>3, <2>1, DataIn
<1>5. Nodes'
  BY <1>1, <1>2, <1>4 DEF FsInv, Nodes
<1>6. stream' \in Streams(Numbers)'
  BY <1>2 DEF FsInv, Streams
<1>7. ListedSoFar'
  <2>1. inode_map'[ino].dir = inode_map[ino].dir /\ inode_map'[ino].order = inode_map[ino].order
    BY <1>1, <1>3 DEF IsNode
  <2> QED BY <1>1, <2>1, SameWalk DEF FsInv, IsDir, Found
<1>8. TreeInv'
  BY <1>1, DataKeepsTree DEF FsInv
<1> QED BY <1>5, <1>6, <1>7, <1>8 DEF FsInv

(* Steps that leave the table alone. *)
LEMMA TableKeepsNodes ==
  ASSUME FsInv, UNCHANGED <<inode_map, nextFile, nextDir>>
  PROVE  TreeInv' /\ Nodes' /\ Numbers' = Numbers
<1>1. TreeInv'
  BY TableKeepsTree DEF FsInv
<1>2. Numbers' = Numbers
  BY DEF Numbers
<1> QED BY <1>1, <1>2 DEF FsInv, Nodes

LEMMA TableKeepsFs ==
  ASSUME FsInv, UNCHANGED <<inode_map, nextFile, nextDir, stream>>
  PROVE  FsInv'
<1>1. TreeInv' /\ Nodes' /\ Numbers' = Numbers
  BY TableKeepsNodes
<1>2. stream' \in Streams(Numbers)'
  BY <1>1 DEF FsInv, Streams
<1>3. ListedSoFar'
  BY SameWalk DEF FsInv, IsDir, Found
<1> QED BY <1>1, <1>2, <1>3 DEF FsInv

-----------------------------------------------------------------------------
(* Listing a directory.                                                    *)

LEMMA LastPlaceIn ==
  ASSUME NEW w, Len(w) \in Nat, NEW first \in Nat, first <= Len(w)
  PROVE  LastPlace(w, first) \in first..Len(w)
<1> DEFINE stop == {k \in first..Len(w) :
                      \/ k = Len(w)
                      \/ k > 2 /\ Taken(w)[k] - Taken(w)[first - 1] >= PageSize}
<1>1. LastPlace(w, first) = CHOOSE k \in stop : \A j \in stop : k <= j
  BY DEF LastPlace
<1>2. stop \subseteq Nat /\ Len(w) \in stop /\ stop \subseteq first..Len(w)
  OBVIOUS
<1> HIDE DEF stop
<1>3. \E k \in stop : \A j \in stop : k <= j
  BY <1>2, LeastExists
<1>4. LastPlace(w, first) \in stop
  BY <1>1, <1>3
<1> QED BY <1>2, <1>4

LEMMA ReplyInside ==
  ASSUME NEW ino, NEW off, ~(off + 1 > Len(Walk(ino)))
  PROVE  /\ ReaddirReply(ino, off).names
              = SubSeq(Walk(ino), off + 1, LastPlace(Walk(ino), off + 1))
         /\ ReaddirReply(ino, off).last = LastPlace(Walk(ino), off + 1)
BY DEF ReaddirReply, FirstPlace

LEMMA OpenDirKeepsFs ==
  ASSUME FsInv, NEW ino, OpenDir(ino)
  PROVE  FsInv'
<1>1. TreeInv' /\ Nodes' /\ Numbers' = Numbers
  BY TableKeepsNodes DEF OpenDir
<1>2. PICK t : t = [Closed EXCEPT !.open = TRUE, !.ino = ino]
  OBVIOUS
<1>3. stream' = t /\ IsDir(ino)
  BY <1>2 DEF OpenDir
<1>4. ino \in Numbers /\ ino \in DOMAIN inode_map
  BY <1>3 DEF FsInv, TreeInv, TableShape, IsDir, Found
<1>5. t \in Streams(Numbers) /\ t.ino = ino /\ t.off = 0 /\ t.got = <<>>
  BY <1>2, <1>4, ClosedTyped DEF Streams, Closed
<1>6. ListedSoFar'
  <2>1. /\ Walk(ino) \in Seq(Names \cup Dots) /\ Len(Walk(ino)) \in Nat
        /\ Walk(ino)' = Walk(ino)
    BY <1>4, WalkOf DEF FsInv, OpenDir, Walk
  <2>2. SubSeq(Walk(ino), 1, 0) = <<>>
    BY <2>1, SubSeqEmpty
  <2> QED BY <1>3, <1>5, <2>1, <2>2 DEF ListedSoFar
<1>7. stream' \in Streams(Numbers)'
  BY <1>1, <1>3, <1>5 DEF Streams
<1> QED BY <1>1, <1>6, <1>7 DEF FsInv

LEMMA ReadDirKeepsFs ==
  ASSUME FsInv, ReadDir
  PROVE  FsInv'
<1>1. TreeInv' /\ Nodes' /\ Numbers' = Numbers
  BY TableKeepsNodes DEF ReadDir
<1>2. CASE stream' = Closed
  <2>1. stream' \in Streams(Numbers)'
    BY <1>1, <1>2, ClosedTyped DEF Streams
  <2>2. ListedSoFar'
    BY <1>2, ClosedTyped DEF ListedSoFar
  <2> QED BY <1>1, <2>1, <2>2 DEF FsInv
<1>3. CASE stream' # Closed
  <2>1. PICK ino, off, w, r : /\ ino = stream.ino /\ off = stream.off /\ w = Walk(ino)
                              /\ r = ReaddirReply(ino, off)
    OBVIOUS
  <2>2. /\ IsDir(ino) /\ r.names # <<>>
        /\ stream' = [stream EXCEPT !.off = r.last,
                        !.got = IF stream.clean THEN @ \o r.names ELSE @]
    BY <1>3, <2>1 DEF ReadDir
  <2>3. /\ w \in Seq(Names \cup Dots) /\ Len(w) \in Nat
        /\ Len(w) <= Cardinality(Names) + 2 /\ Cardinality(Names) \in Nat
        /\ off \in Nat /\ stream \in Streams(Numbers)
    <3>1. Cardinality(Names) \in Nat
      BY MyFsAssumptions, FS_CardinalityType
    <3> QED BY <2>1, <2>2, <3>1, WalkOf DEF FsInv, Streams, IsDir, Found
  <2>4. PICK last : last = LastPlace(w, off + 1)
    OBVIOUS
  <2>5. off + 1 <= Len(w) /\ r.names = SubSeq(w, off + 1, last) /\ r.last = last
    <3>1. CASE off + 1 > Len(w)
      BY <2>1, <2>2, <3>1 DEF ReaddirReply, FirstPlace
    <3>2. CASE ~(off + 1 > Len(w))
      <4>1. ~(off + 1 > Len(Walk(ino)))
        BY <2>1, <3>2
      <4>2. /\ ReaddirReply(ino, off).names
                 = SubSeq(Walk(ino), off + 1, LastPlace(Walk(ino), off + 1))
            /\ ReaddirReply(ino, off).last = LastPlace(Walk(ino), off + 1)
        BY <4>1, ReplyInside
      <4>3. r.names = SubSeq(w, off + 1, last) /\ r.last = last
        BY <2>1, <2>4, <4>2
      <4> QED BY <2>3, <3>2, <4>3
    <3> QED BY <3>1, <3>2
  <2>6. last \in off + 1..Len(w)
    BY <2>3, <2>4, <2>5, LastPlaceIn
  <2>7. r.names \in Seq(Names \cup Dots)
    BY <2>3, <2>5, <2>6, SubSeqProperties
  <2>8. PICK got : got = IF stream.clean THEN stream.got \o r.names ELSE stream.got
    OBVIOUS
  <2>9. got \in Seq(Names \cup Dots)
    <3>1. stream.got \in Seq(Names \cup Dots)
      BY <2>3 DEF Streams
    <3>2. stream.got \o r.names \in Seq(Names \cup Dots)
      BY <2>7, <3>1, ConcatProperties
    <3> QED BY <2>8, <3>1, <3>2
  <2>10. PICK t : t = [stream EXCEPT !.off = last, !.got = got]
    OBVIOUS
  <2>11. stream' = t
    BY <2>2, <2>3, <2>5, <2>8, <2>10 DEF Streams
  <2>12. last \in 0..Cardinality(Names) + 2
    BY <2>3, <2>6
  <2>13. /\ t \in Streams(Numbers) /\ t.off = last /\ t.got = got
         /\ t.open = stream.open /\ t.clean = stream.clean /\ t.ino = ino
    BY <2>1, <2>3, <2>9, <2>10, <2>12 DEF Streams
  <2>14. stream' \in Streams(Numbers)'
    BY <1>1, <2>11, <2>13 DEF Streams
  <2>15. ListedSoFar'
    <3> SUFFICES ASSUME stream.open, stream.clean
                 PROVE  last <= Len(w) /\ got = SubSeq(w, 1, last)
      <4>1. Walk(ino)' = w
        BY <2>1 DEF ReadDir, Walk
      <4> QED BY <2>11, <2>13, <4>1 DEF ListedSoFar
    <3>1. stream.got = SubSeq(w, 1, off)
      BY <2>1, <2>2 DEF FsInv, ListedSoFar
    <3>2. got = SubSeq(w, 1, off) \o SubSeq(w, off + 1, last)
      BY <2>5, <2>8, <3>1
    <3>3. SubSeq(w, 1, off) \o SubSeq(w, off + 1, last) = SubSeq(w, 1, last)
      BY <2>3, <2>5, <2>6, ConcatAdjacentSubSeq
    <3> QED BY <2>3, <2>6, <3>2, <3>3
  <2> QED BY <1>1, <2>14, <2>15 DEF FsInv
<1> QED BY <1>2, <1>3

-----------------------------------------------------------------------------
(* The requests again.                                                     *)

LEMMA MakeKeepsFs ==
  ASSUME FsInv, NEW parent, NEW name \in Names, NEW dir \in BOOLEAN,
         Make(parent, name, dir)
  PROVE  FsInv'
<1>1. CASE UNCHANGED <<inode_map, nextFile, nextDir, stream>>
  BY <1>1, TableKeepsFs
<1>2. CASE /\ IsDir(parent) /\ name \notin Entries(parent)
           /\ AllocateInode(parent, dir, name) /\ Disturbs(parent)
  BY <1>2, AllocateKeepsFs
<1> QED BY <1>1, <1>2 DEF Make, Rejects

LEMMA UnlinkKeepsFs ==
  ASSUME FsInv, NEW parent, NEW name, Unlink(parent, name),
         IsDir(parent) /\ name \in Entries(parent) => ~IsDir(Child(parent, name))
  PROVE  FsInv'
<1>1. CASE UNCHANGED <<inode_map, nextFile, nextDir, stream>>
  BY <1>1, TableKeepsFs
<1>2. CASE /\ IsDir(parent) /\ name \in Entries(parent)
           /\ Erase(Child(parent, name), parent, name) /\ Disturbs(parent)
           /\ UNCHANGED <<nextFile, nextDir>>
  <2>1. Child(parent, name) \in DOMAIN inode_map
    BY <1>2 DEF FsInv, TreeInv, TreeIsSound, ChildrenAreFound, IsDir, Found
  <2>2. Entries(Child(parent, name)) = {}
    BY <1>2, <2>1 DEF FsInv, TreeInv, FilesAreLeaves, IsDir, Found
  <2> QED BY <1>2, <2>2, EraseKeepsFs
<1> QED BY <1>1, <1>2 DEF Unlink, Rejects

LEMMA RmDirKeepsFs ==
  ASSUME FsInv, NEW parent, NEW name, RmDir(parent, name)
  PROVE  FsInv'
<1>1. CASE UNCHANGED <<inode_map, nextFile, nextDir, stream>>
  BY <1>1, TableKeepsFs
<1>2. CASE /\ IsDir(parent) /\ name \in Entries(parent)
           /\ Empty(Child(parent, name)) /\ ForgetInode(Child(parent, name))
           /\ Disturbs(inode_map[Child(parent, name)].parent)
           /\ UNCHANGED <<nextFile, nextDir>>
  <2>1. PICK ino : ino = Child(parent, name)
    OBVIOUS
  <2>2. inode_map[ino].parent = parent
    BY <1>2, <2>1 DEF FsInv, TreeInv, TreeIsSound, ChildrenAreFound, IsDir, Found
  <2>3. PICK n \in Entries(parent) : Child(parent, n) = ino /\ Erase(ino, parent, n)
    BY <1>2, <2>1, <2>2 DEF ForgetInode
  <2> QED BY <1>2, <2>1, <2>2, <2>3, EraseKeepsFs DEF Empty
<1> QED BY <1>1, <1>2 DEF RmDir, Rejects

LEMMA NameRequestKeepsFs ==
  ASSUME FsInv, NEW ino, NEW name \in Names, NameRequest(ino, name)
  PROVE  FsInv'
<1>1. CASE Lookup(ino, name)
  BY <1>1, TableKeepsFs DEF Lookup, Rejects, Replies
<1>2. CASE Make(ino, name, FALSE) \/ Make(ino, name, TRUE)
  BY <1>2, MakeKeepsFs
<1>3. CASE /\ IsDir(ino) /\ name \in Entries(ino) => ~IsDir(Child(ino, name))
           /\ Unlink(ino, name)
  BY <1>3, UnlinkKeepsFs
<1>4. CASE RmDir(ino, name)
  BY <1>4, RmDirKeepsFs
<1> QED BY <1>1, <1>2, <1>3, <1>4 DEF NameRequest, Create, MkDir

LEMMA InodeRequestKeepsFs ==
  ASSUME FsInv, NEW ino, InodeRequest(ino)
  PROVE  FsInv'
<1>1. CASE UNCHANGED <<inode_map, nextFile, nextDir, stream>>
  BY <1>1, TableKeepsFs
<1>2. ASSUME NEW off, NEW size, Read(ino, off, size)
      PROVE  UNCHANGED <<inode_map, nextFile, nextDir, stream>>
  BY <1>2 DEF Read, NoFile, Rejects, Replies
<1>3. PICK old : old = inode_map[ino].data
  OBVIOUS
<1>4. ASSUME IsFile(ino) PROVE old \in Seq(Bytes \cup {Zero}) /\ Len(old) <= MaxSize
  BY <1>3, <1>4 DEF FsInv, Nodes, NodeIn, IsFile, Found
<1>5. ASSUME NEW off \in 0..MaxSize - 1, NEW buf \in Buffers(off), Write(ino, off, buf)
      PROVE  FsInv'
  <2>1. CASE NoFile(ino)
    BY <1>1, <1>5, <2>1 DEF NoFile, Rejects
  <2>2. CASE ~NoFile(ino)
    <3>1. PICK data : data = Overwrite(old, buf, off)
      OBVIOUS
    <3>2. /\ IsFile(ino) /\ inode_map' = [inode_map EXCEPT ![ino].data = data]
          /\ UNCHANGED <<nextFile, nextDir, stream>>
      BY <1>3, <1>5, <2>2, <3>1 DEF Write
    <3>3. data \in Seq(Bytes \cup {Zero}) /\ Len(data) <= MaxSize
      BY <1>4, <3>1, <3>2, OverwriteTyped
    <3> QED BY <3>2, <3>3, DataKeepsFs
  <2> QED BY <2>1, <2>2
<1>6. ASSUME NEW size \in 0..MaxSize, Truncate(ino, size) PROVE FsInv'
  <2>1. CASE NoFile(ino)
    BY <1>1, <1>6, <2>1 DEF NoFile, Rejects
  <2>2. CASE ~NoFile(ino)
    <3>1. PICK data : data = Resize(old, size)
      OBVIOUS
    <3>2. /\ IsFile(ino) /\ inode_map' = [inode_map EXCEPT ![ino].data = data]
          /\ UNCHANGED <<nextFile, nextDir, stream>>
      BY <1>3, <1>6, <2>2, <3>1 DEF Truncate
    <3>3. data \in Seq(Bytes \cup {Zero}) /\ Len(data) <= MaxSize
      <4>1. size \in Nat /\ size <= MaxSize
        BY MyFsAssumptions
      <4> QED BY <1>4, <3>1, <3>2, <4>1, ResizeTyped
    <3> QED BY <3>2, <3>3, DataKeepsFs
  <2> QED BY <2>1, <2>2
<1>7. Open(ino) \/ GetAttr(ino) \/ GetXAttr \/ Statfs =>
        UNCHANGED <<inode_map, nextFile, nextDir, stream>>
  BY DEF Open, GetAttr, GetXAttr, Statfs, NoFile, Rejects, Replies
<1> QED BY <1>1, <1>2, <1>5, <1>6, <1>7 DEF InodeRequest

LEMMA FsInductive == FsInv /\ [Next]_vars => FsInv'
<1> SUFFICES ASSUME FsInv, [Next]_vars PROVE FsInv'
  OBVIOUS
<1>1. CASE \E ino \in Numbers : InodeRequest(ino)
  BY <1>1, InodeRequestKeepsFs
<1>2. CASE \E ino \in Numbers : \E name \in Names : NameRequest(ino, name)
  BY <1>2, NameRequestKeepsFs
<1>3. CASE Listing
  BY <1>3, ReadDirKeepsFs, OpenDirKeepsFs DEF Listing
<1>4. CASE UNCHANGED vars
  BY <1>4, TableKeepsFs DEF vars
<1> QED BY <1>1, <1>2, <1>3, <1>4 DEF Next

LEMMA FsInvHolds == Spec => []FsInv
<1>1. Init /\ TreeInv => FsInv
  <2> SUFFICES ASSUME Init, TreeInv PROVE FsInv
    OBVIOUS
  <2>1. DOMAIN inode_map = {Root} /\ inode_map[Root] = NewNode(TRUE, Root)
    BY DEF Init
  <2>2. Root \in Numbers
    BY DEF Numbers
  <2>3. Nodes
    BY <2>1, <2>2, NewNodeIn DEF Nodes
  <2>4. stream = Closed
    BY DEF Init
  <2> QED BY <2>3, <2>4, ClosedTyped DEF FsInv, ListedSoFar
<1> QED BY <1>1, FsInductive, TreeInvHolds, PTL DEF Spec

(* myfs_server.cpp: whatever the requests, every node is of its type and     *)
(* within its bounds, and the order children_ is walked in meets each name   *)
(* of the directory exactly once.                                          *)
THEOREM NodesAreTyped == Spec => []TypeOK
<1>1. FsInv => TypeOK
  <2> SUFFICES ASSUME FsInv PROVE TypeOK
    OBVIOUS
  <2>1. /\ nextFile \in Nat /\ nextFile % 2 = 0 /\ nextDir \in Nat /\ nextDir % 2 = 1
        /\ DOMAIN inode_map \subseteq Numbers
    BY DEF FsInv, TreeInv, TableShape
  <2>2. \A i \in DOMAIN inode_map : NodeOK(inode_map[i])
    BY NodeIsOK DEF FsInv, Nodes
  <2> QED BY <2>1, <2>2 DEF FsInv, Streams, TypeOK
<1> QED BY <1>1, FsInvHolds, PTL

(* myfs_server.cpp, readdir(): however many entries a directory has, however *)
(* long they are and in whatever pieces they are asked for, a listing that   *)
(* comes to its end has every entry of the directory once, unless the        *)
(* directory was changed meanwhile.                                        *)
THEOREM ListingsAreExact == Spec => []ListingIsExact
<1>1. FsInv => ListingIsExact
  <2> SUFFICES ASSUME FsInv, stream.open, stream.clean, IsDir(stream.ino),
                      ReaddirReply(stream.ino, stream.off).names = <<>>
               PROVE  stream.got = Walk(stream.ino)
    BY DEF ListingIsExact
  <2>1. PICK off, w : off = stream.off /\ w = Walk(stream.ino)
    OBVIOUS
  <2>2. /\ w \in Seq(Names \cup Dots) /\ Len(w) \in Nat /\ off \in Nat
        /\ off <= Len(w) /\ stream.got = SubSeq(w, 1, off)
    <3>1. Cardinality(Names) \in Nat
      BY MyFsAssumptions, FS_CardinalityType
    <3> QED BY <2>1, <3>1, WalkOf DEF FsInv, Streams, ListedSoFar, IsDir, Found
  <2>3. off = Len(w)
    <3> SUFFICES ASSUME off + 1 <= Len(w) PROVE FALSE
      BY <2>2
    <3>1. PICK last : last = LastPlace(w, off + 1)
      OBVIOUS
    <3>2. last \in off + 1..Len(w)
      BY <2>2, <3>1, LastPlaceIn
    <3>3. SubSeq(w, off + 1, last) = <<>>
      BY <2>1, <2>2, <3>1 DEF ReaddirReply, FirstPlace
    <3>4. Len(SubSeq(w, off + 1, last)) = last - (off + 1) + 1
      BY <2>2, <3>2, SubSeqProperties
    <3>5. last - (off + 1) + 1 = 0
      BY <3>3, <3>4, EmptySeq
    <3>6. off \in Nat /\ Len(w) \in Nat
      BY <2>2
    <3> QED BY <3>2, <3>5, <3>6
  <2> QED BY <2>1, <2>2, <2>3, SubSeqFull
<1> QED BY <1>1, FsInvHolds, PTL
=============================================================================
