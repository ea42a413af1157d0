--------------------------- MODULE TecnicoFSProofs ---------------------------
(***************************************************************************)
(* For any number of threads, inodes, blocks, handles and names, and for   *)
(* any lengths: the variables keep their types; a handle belongs to one    *)
(* thread and leads to a file that the directory names; no block serves    *)
(* two purposes unless a number was torn; and every byte of a file lies in *)
(* a block the file has unless an allocation failed or a write left its    *)
(* block.                                                                  *)
(*                                                                         *)
(* None is inductive.  IInv, for the first two: a thread that is about to  *)
(* enter a handle must have a file that is named (PlaceInv), one that is   *)
(* about to name an inode must be alone with it, and a truncation gives    *)
(* back an index block that is not the directory's (IndexInv).             *)
(* BlockInv, for the third, speaks of every place that may name a block,   *)
(* the entries in blocks that are free included: they are read again when  *)
(* their block is allocated.  WholeInv, for the last, of what those        *)
(* entries are, and of what a writer has allocated so far.                 *)
(***************************************************************************)
EXTENDS TecnicoFS, SequenceTheorems, WellFoundedInduction, TLAPS

Named(i) == \E j \in DOMAIN dir : dir[j].inum = i

HandleInv(t) ==
  \A h \in thread[t].own : /\ openFiles[h].taken /\ Named(openFiles[h].inum)
                           /\ \A u \in Thread \ {t} : h \notin thread[u].own

\* Where thread t is in an operation.
PlaceInv(t) ==
  LET c == thread[t] IN
    /\ c.pc \in {"create", "link"} => c.name \in Name
    /\ c.pc \in {"truncate", "enter"} => Named(c.inum)
    /\ c.pc = "link" => /\ c.inum \in File /\ inode[c.inum].taken /\ ~Named(c.inum)
                        /\ \A u \in Thread \ {t} : thread[u].pc = "link" => thread[u].inum # c.inum
    /\ c.pc = "write" => c.h \in c.own

NameInv == \A j \in DOMAIN dir : /\ inode[dir[j].inum].taken
                                 /\ \A k \in DOMAIN dir : dir[k].inum = dir[j].inum => k = j

IndexInv == \A i \in File : inode[i].taken \/ inode[i].size > 0 => inode[i].index # 0

OpenInv == NameInv /\ \A t \in Thread : HandleInv(t) /\ PlaceInv(t)

IInv == Typed /\ IndexInv /\ OpenInv

-----------------------------------------------------------------------------
(* The operators of the model. *)

\* A set of natural numbers that is not empty has a least one.
LEMMA LeastNumber ==
  ASSUME NEW S \in SUBSET Nat, S # {}
  PROVE  Min(S) \in S /\ \A y \in S : Min(S) <= y
<1> DEFINE R == OpToRel(<, Nat)
<1>1. IsWellFoundedOn(R, Nat) BY NatLessThanWellFounded
<1>2. \A x, y \in Nat : x < y => <<x, y>> \in R BY Zenon DEF OpToRel
<1> HIDE DEF R
<1>3. PICK x \in S : \A y \in S : ~(<<y, x>> \in R) BY <1>1, WFMin
<1>4. \A y \in S : x \in Nat /\ y \in Nat /\ ~(y < x) BY <1>2, <1>3, Zenon
<1>5. \A y \in S : x <= y BY <1>4
<1> QED BY <1>5 DEF Min

\* The first free one, or none.
LEMMA LowestIsIn ==
  ASSUME NEW S \in SUBSET Nat
  PROVE  /\ LowestOr(S, -1) \in S \cup {-1}
         /\ LowestOr(S, -1) # -1 => LowestOr(S, -1) \in S
BY LeastNumber DEF LowestOr

\* The block that is allocated is a free one, and not the directory's.
LEMMA BlockAllocated ==
  ASSUME Typed
  PROVE  NextBlock \in (freeBlocks \cup {-1}) /\ NextBlock \in Block \cup {-1} /\ NextBlock # 0
<1>1. freeBlocks \in SUBSET Nat /\ freeBlocks \subseteq Block \ {0} BY DEF Typed, Block
<1>2. NextBlock \in freeBlocks \cup {-1} BY <1>1, LowestIsIn, Zenon DEF NextBlock
<1>3. -1 # 0 OBVIOUS
<1> QED BY <1>1, <1>2, <1>3, Zenon

\* An entry of the directory has a name and the number of a file.
LEMMA EntryTyped ==
  ASSUME Typed, NEW j \in DOMAIN dir
  PROVE  j \in Nat /\ dir[j] \in [name : Name, inum : File] /\ dir[j].inum \in File
<1>1. dir \in Seq([name : Name, inum : File]) BY DEF Typed
<1>2. j \in 1..Len(dir) BY <1>1
<1>3. dir[j] \in [name : Name, inum : File] BY <1>1, <1>2, ElementOfSeq
<1> QED BY <1>2, <1>3

\* A name that is found leads to a file that is named.
LEMMA Found ==
  ASSUME Typed, NEW name \in Name, Find(name) # -1
  PROVE  Named(Find(name)) /\ Find(name) \in File
<1> DEFINE S == {j \in DOMAIN dir : dir[j].name = name}
<1>1. S \in SUBSET Nat BY EntryTyped
<1>2. S # {} /\ Find(name) = dir[Min(S)].inum BY DEF Find
<1> HIDE DEF S
<1>3. Min(S) \in S BY <1>1, <1>2, LeastNumber
<1>4. Min(S) \in DOMAIN dir BY <1>3 DEF S
<1> QED BY <1>2, <1>4, EntryTyped DEF Named

\* What is named is a file, and it is taken.
LEMMA NamedIsFile ==
  ASSUME Typed, NameInv, NEW i, Named(i)
  PROVE  i \in File /\ i \in 0..(Inodes - 1) /\ inode[i].taken
<1>1. PICK j \in DOMAIN dir : dir[j].inum = i BY DEF Named
<1>2. i \in File BY <1>1, EntryTyped
<1> QED BY <1>1, <1>2, SizeAssumption DEF NameInv, File

\* An open handle leads to a file that is taken.
LEMMA HandleIsFile ==
  ASSUME IInv, NEW t \in Thread, NEW h \in thread[t].own
  PROVE  /\ h \in Handle /\ openFiles[h].inum \in File /\ inode[openFiles[h].inum].taken
         /\ openFiles[h] \in [taken : BOOLEAN, inum : 0..(Inodes - 1), offset : Nat]
         /\ inode[openFiles[h].inum] \in Inode
         /\ inode[openFiles[h].inum].index # 0
<1>1. Named(openFiles[h].inum) BY DEF IInv, OpenInv, HandleInv
<1>2. openFiles[h].inum \in File /\ inode[openFiles[h].inum].taken
  BY <1>1, NamedIsFile DEF IInv, OpenInv
<1>3. h \in Handle BY DEF IInv, Typed, Local
<1> QED BY <1>2, <1>3 DEF IInv, Typed, IndexInv

-----------------------------------------------------------------------------
(* What most steps keep. *)

\* A step of one thread that opens and closes no handle and names no file.
LEMMA OpenKept ==
  ASSUME IInv, NEW t \in Thread, \A u \in Thread \ {t} : thread'[u] = thread[u],
         UNCHANGED dir,
         \A h \in Handle : /\ openFiles'[h].taken = openFiles[h].taken
                           /\ openFiles'[h].inum = openFiles[h].inum,
         \A i \in File : inode[i].taken => inode'[i].taken,
         thread'[t].own = thread[t].own, PlaceInv(t)'
  PROVE  OpenInv'
<1>1. NameInv'
  <2>1. \A j \in DOMAIN dir : dir[j].inum \in File BY EntryTyped DEF IInv
  <2> QED BY <2>1 DEF IInv, OpenInv, NameInv
<1>2. ASSUME NEW u \in Thread PROVE HandleInv(u)'
  <2>1. \A v \in Thread : thread'[v].own = thread[v].own OBVIOUS
  <2>2. \A h \in thread[u].own : h \in Handle BY DEF IInv, Typed, Local
  <2> QED BY <2>1, <2>2 DEF IInv, OpenInv, HandleInv, Named
<1>3. ASSUME NEW u \in Thread, u # t PROVE PlaceInv(u)'
  <2>1. thread'[u] = thread[u] /\ PlaceInv(u) BY <1>3 DEF IInv, OpenInv
  <2>2. \A i : Named(i)' <=> Named(i) BY DEF Named
  <2>3. thread'[u].pc = "link" =>
          \A v \in Thread \ {u} : thread'[v].pc = "link" => thread'[v].inum # thread'[u].inum
    BY <1>3, <2>1 DEF PlaceInv
  <2> QED BY <2>1, <2>2, <2>3 DEF PlaceInv
<1> QED BY <1>1, <1>2, <1>3 DEF OpenInv

\* The product of natural numbers is one, and grows with them.
LEMMA Products ==
  ASSUME NEW a \in Nat, NEW b \in Nat
  PROVE  a * b \in Nat /\ (a + 1) * b = a * b + b
OBVIOUS

\* The sizes are positive numbers.
LEMMA Sizes ==
  /\ Inodes \in Nat /\ Inodes > 0 /\ Blocks \in Nat /\ Blocks > 0
  /\ Handles \in Nat /\ Handles > 0 /\ DirSize \in Nat /\ DirSize > 0
  /\ Entries \in Nat /\ Entries > 0 /\ IntSize \in Nat /\ IntSize > 0
  /\ BlockSize \in Nat /\ BlockSize > 0 /\ Direct \in Nat /\ Direct > 0
<1>1. /\ Inodes \in Nat /\ Inodes > 0 /\ Blocks \in Nat /\ Blocks > 0
      /\ Handles \in Nat /\ Handles > 0 /\ DirSize \in Nat /\ DirSize > 0
      /\ Entries \in Nat /\ Entries > 0 /\ IntSize \in Nat /\ IntSize > 0
      /\ Direct \in Nat /\ Direct > 0
  BY SizeAssumption
<1>2. PICK k \in Nat : Entries = k + 1
  <2>1. Entries - 1 \in Nat /\ Entries = (Entries - 1) + 1 BY <1>1
  <2> QED BY <2>1
<1>3. Entries * IntSize = k * IntSize + IntSize /\ k * IntSize \in Nat BY <1>1, <1>2, Products
<1>4. Entries * IntSize \in Nat /\ Entries * IntSize > 0 BY <1>1, <1>3
<1> QED BY <1>1, <1>4 DEF BlockSize

\* The operation a thread is in has the types of its fields.
LEMMA ThreadTyped ==
  ASSUME Typed, NEW t \in Thread
  PROVE  /\ thread[t] \in Local
         /\ thread[t].inum \in 0..(Inodes - 1) /\ thread[t].offset \in Nat
         /\ thread[t].h \in Handle /\ thread[t].n \in Nat /\ thread[t].i \in Nat
         /\ thread[t].own \in SUBSET Handle /\ thread[t].ops \in 0..MaxOps
BY DEF Typed, Local

\* A thread that ends its operation keeps the handles it is said to keep.
LEMMA EndTyped ==
  ASSUME Typed, NEW t \in Thread, NEW own \in SUBSET Handle, End(t, own)
  PROVE  /\ thread' \in [Thread -> Local]
         /\ thread'[t].pc = "idle" /\ thread'[t].own = own
         /\ \A u \in Thread \ {t} : thread'[u] = thread[u]
<1> DEFINE e == [Idle EXCEPT !.own = own, !.ops = thread[t].ops]
<1>1. thread \in [Thread -> Local] BY DEF Typed
<1>2. thread[t].ops \in 0..MaxOps BY ThreadTyped
<1>3. 0 \in 0..(Inodes - 1) /\ 0 \in Handle BY Sizes DEF Handle
<1>4. Idle \in Local BY <1>3, SizeAssumption DEF Local, Idle
<1>5. e \in Local /\ e.pc = "idle" /\ e.own = own BY <1>2, <1>4 DEF Local, Idle
<1>6. thread' = [thread EXCEPT ![t] = e] BY DEF End
<1> HIDE DEF e
<1> QED BY <1>1, <1>5, <1>6

\* A thread that did one operation more, and nothing else.
LEMMA CountedTyped ==
  ASSUME IInv, NEW t \in Thread, Starts(t), Counted(t)
  PROVE  /\ thread' \in [Thread -> Local]
         /\ thread'[t].own = thread[t].own /\ PlaceInv(t)'
         /\ \A u \in Thread \ {t} : thread'[u] = thread[u]
<1>1. thread \in [Thread -> Local] /\ thread[t] \in Local BY DEF IInv, Typed
<1>2. thread[t].ops + 1 \in 0..MaxOps BY ThreadTyped, SizeAssumption DEF IInv, Starts
<1>3. thread' = [thread EXCEPT ![t] = [thread[t] EXCEPT !.ops = thread[t].ops + 1]]
  BY DEF Counted
<1>4. [thread[t] EXCEPT !.ops = thread[t].ops + 1] \in Local BY <1>1, <1>2 DEF Local
<1>5. thread'[t] = [thread[t] EXCEPT !.ops = thread[t].ops + 1] BY <1>1, <1>3
<1>6. thread'[t].pc = "idle" /\ thread'[t].own = thread[t].own
  BY <1>1, <1>5 DEF Local, Starts
<1> QED BY <1>1, <1>3, <1>4, <1>6 DEF PlaceInv

\* The part of IInv that speaks of the files is kept by a step that leaves them alone.
LEMMA FilesKept ==
  ASSUME IndexInv, UNCHANGED inode
  PROVE  IndexInv'
BY DEF IndexInv

-----------------------------------------------------------------------------
(* The steps. *)

\* The first part of tfs_open leads to a name that is there, or to one to be made.
LEMMA LookupStep ==
  ASSUME IInv, NEW t \in Thread, NEW name \in Name, NEW flags \in Flags,
         Lookup(t, name, flags)
  PROVE  IInv'
<1> DEFINE i == Find(name)
           kept == UNCHANGED <<inode, dir, freeBlocks, fsData, openFiles, crashed, damaged>>
<1>1. kept /\ Starts(t) BY DEF Lookup
<1>2. thread \in [Thread -> Local] /\ thread[t] \in Local BY DEF IInv, Typed
<1>3. thread[t].ops + 1 \in 0..MaxOps BY <1>1, ThreadTyped, SizeAssumption DEF IInv, Starts
<1>4. CASE Counted(t)
  <2>1. Typed' BY <1>1, <1>4, CountedTyped DEF IInv, Typed
  <2>2. OpenInv' BY <1>1, <1>4, CountedTyped, OpenKept
  <2> QED BY <2>1, <2>2, <1>1, FilesKept DEF IInv
<1>5. CASE thread' = [thread EXCEPT ![t] =
             [thread[t] EXCEPT !.ops = @ + 1, !.pc = "create", !.name = name]]
  <2> DEFINE e == [thread[t] EXCEPT !.ops = thread[t].ops + 1, !.pc = "create", !.name = name]
  <2>1. e \in Local /\ e.pc = "create" /\ e.name \in Name /\ e.own = thread[t].own
    BY <1>2, <1>3 DEF Local
  <2>2. thread' = [thread EXCEPT ![t] = e] BY <1>5
  <2> HIDE DEF e
  <2>3. thread' \in [Thread -> Local] /\ thread'[t] = e
        /\ \A u \in Thread \ {t} : thread'[u] = thread[u] BY <1>2, <2>1, <2>2
  <2>4. PlaceInv(t)' BY <2>1, <2>3 DEF PlaceInv
  <2>5. Typed' BY <1>1, <2>3 DEF IInv, Typed
  <2>6. OpenInv' BY <1>1, <2>1, <2>3, <2>4, OpenKept
  <2> QED BY <2>5, <2>6, <1>1, FilesKept DEF IInv
<1>6. CASE i # -1 /\ thread' = [thread EXCEPT ![t] =
             [thread[t] EXCEPT !.ops = @ + 1, !.pc = "truncate", !.flags = flags, !.inum = i]]
  <2> DEFINE e == [thread[t] EXCEPT !.ops = thread[t].ops + 1, !.pc = "truncate",
                                    !.flags = flags, !.inum = i]
  <2>1. Named(i) /\ i \in 0..(Inodes - 1) BY <1>6, Found, NamedIsFile DEF IInv, OpenInv
  <2>2. e \in Local /\ e.pc = "truncate" /\ e.inum = i /\ e.own = thread[t].own
    BY <1>2, <1>3, <2>1, SizeAssumption DEF Local
  <2>3. thread' = [thread EXCEPT ![t] = e] BY <1>6
  <2> HIDE DEF e, i
  <2>4. thread' \in [Thread -> Local] /\ thread'[t] = e
        /\ \A u \in Thread \ {t} : thread'[u] = thread[u] BY <1>2, <2>2, <2>3
  <2>5. PICK k : k = i OBVIOUS
  <2>6. thread'[t].pc = "truncate" /\ thread'[t].inum = k /\ Named(k)'
    BY <1>1, <2>1, <2>2, <2>4, <2>5 DEF Named
  <2>7. PlaceInv(t)' BY <2>6 DEF PlaceInv
  <2>8. Typed' BY <1>1, <2>4 DEF IInv, Typed
  <2>9. OpenInv' BY <1>1, <2>2, <2>4, <2>7, OpenKept
  <2> QED BY <2>8, <2>9, <1>1, FilesKept DEF IInv
<1> QED BY <1>4, <1>5, <1>6 DEF Lookup

\* A thread that is given another operation, with the handles it had.
LEMMA ThreadSet ==
  ASSUME Typed, NEW t \in Thread, NEW e \in Local, thread' = [thread EXCEPT ![t] = e]
  PROVE  /\ thread' \in [Thread -> Local] /\ thread'[t] = e
         /\ \A u \in Thread \ {t} : thread'[u] = thread[u]
BY DEF Typed

\* A step that ends an operation and closes no handle.
LEMMA LeaveKeeps ==
  ASSUME IInv, NEW t \in Thread, Leave(t)
  PROVE  /\ thread' \in [Thread -> Local] /\ PlaceInv(t)'
         /\ thread'[t].own = thread[t].own
         /\ \A u \in Thread \ {t} : thread'[u] = thread[u]
<1>1. thread[t].own \in SUBSET Handle BY ThreadTyped DEF IInv
<1>2. /\ thread' \in [Thread -> Local] /\ thread'[t].pc = "idle"
      /\ thread'[t].own = thread[t].own
      /\ \A u \in Thread \ {t} : thread'[u] = thread[u]
  BY <1>1, EndTyped DEF IInv, Leave
<1> QED BY <1>2 DEF PlaceInv

\* A truncation gives back a block that is not the directory's.
LEMMA TruncateStep ==
  ASSUME IInv, NEW t \in Thread, Truncate(t)
  PROVE  IInv'
<1> DEFINE c == thread[t]
           f == inode[c.inum]
           cut == "trunc" \in c.flags /\ f.size > 0
           o == IF "append" \in c.flags /\ ~cut THEN f.size ELSE 0
<1>1. UNCHANGED <<dir, fsData, openFiles, crashed, damaged>> /\ c.pc = "truncate"
  BY DEF Truncate
<1>2. Typed /\ IndexInv /\ NameInv /\ PlaceInv(t) BY DEF IInv, OpenInv
<1>3. Named(c.inum) BY <1>1, <1>2 DEF PlaceInv
<1>4. c.inum \in File /\ f \in Inode /\ f.taken BY <1>2, <1>3, NamedIsFile DEF Typed
<1>5. c \in Local BY <1>2, ThreadTyped
<1>6. CASE cut /\ f.index = -1
  <2>1. Leave(t) /\ UNCHANGED <<inode, freeBlocks>> BY <1>6 DEF Truncate
  <2>2. Typed' BY <1>1, <1>2, <2>1, LeaveKeeps DEF Typed
  <2>3. OpenInv' BY <1>1, <2>1, LeaveKeeps, OpenKept
  <2> QED BY <1>2, <2>1, <2>2, <2>3, FilesKept DEF IInv
<1>7. CASE ~(cut /\ f.index = -1)
  <2>1. /\ inode' = IF cut THEN [inode EXCEPT ![c.inum].size = 0] ELSE inode
        /\ freeBlocks' = IF cut THEN freeBlocks \cup {f.index} ELSE freeBlocks
        /\ thread' = [thread EXCEPT ![t].pc = "enter", ![t].offset = o]
    BY <1>7 DEF Truncate
  <2>2. cut => f.index \in Block \ {0}
    BY <1>2, <1>4, <1>7 DEF IndexInv, Inode
  <2>3. /\ inode' \in [File -> Inode] /\ freeBlocks' \subseteq Block \ {0}
        /\ \A j \in File : /\ inode'[j].taken = inode[j].taken
                           /\ inode'[j].index = inode[j].index
                           /\ inode'[j].size = inode[j].size \/ inode'[j].size = 0
    <3>1. inode \in [File -> Inode] /\ freeBlocks \subseteq Block \ {0} BY <1>2 DEF Typed
    <3>2. [f EXCEPT !.size = 0] \in Inode BY <1>4 DEF Inode
    <3>3. inode' = IF cut THEN [inode EXCEPT ![c.inum] = [f EXCEPT !.size = 0]] ELSE inode
      BY <2>1
    <3> DEFINE g == [f EXCEPT !.size = 0]
    <3>4. g.taken = f.taken /\ g.index = f.index /\ g.size = 0 BY <1>4 DEF Inode
    <3>5. f = inode[c.inum] OBVIOUS
    <3> HIDE DEF cut, c, f, g
    <3>6. CASE cut BY <1>4, <2>1, <2>2, <3>1, <3>2, <3>3, <3>4, <3>5, <3>6 DEF g
    <3>7. CASE ~cut BY <2>1, <3>1, <3>3, <3>7
    <3> QED BY <3>6, <3>7
  <2>4. o \in Nat BY <1>4 DEF Inode
  <2> DEFINE e == [thread[t] EXCEPT !.pc = "enter", !.offset = o]
  <2>5. e \in Local /\ e.pc = "enter" /\ e.inum = c.inum /\ e.own = thread[t].own
    BY <1>5, <2>4 DEF Local
  <2>6. thread' = [thread EXCEPT ![t] = e] BY <2>1
  <2> HIDE DEF e, o, cut
  <2>7. thread' \in [Thread -> Local] /\ thread'[t] = e
        /\ \A u \in Thread \ {t} : thread'[u] = thread[u] BY <1>2, <2>5, <2>6, ThreadSet
  <2>8. Typed' BY <1>1, <1>2, <2>3, <2>7 DEF Typed
  <2>9. PICK k : k = c.inum OBVIOUS
  <2>10. thread'[t].pc = "enter" /\ thread'[t].inum = k /\ Named(k)'
    BY <1>1, <1>3, <2>5, <2>7, <2>9 DEF Named
  <2>11. PlaceInv(t)' BY <2>10 DEF PlaceInv
  <2>12. OpenInv' BY <1>1, <2>3, <2>5, <2>7, <2>11, OpenKept
  <2>13. IndexInv' BY <1>2, <2>3 DEF IndexInv
  <2> QED BY <2>8, <2>12, <2>13 DEF IInv
<1> QED BY <1>6, <1>7

\* A new inode is named by nobody, and no other thread is about to name it.
LEMMA CreateInodeStep ==
  ASSUME IInv, NEW t \in Thread, CreateInode(t)
  PROVE  IInv'
<1> DEFINE i == LowestOr({j \in File : ~inode[j].taken}, -1)
           b == NextBlock
<1>1. UNCHANGED <<dir, openFiles, crashed>> /\ thread[t].pc = "create" BY DEF CreateInode
<1>2. Typed /\ IndexInv /\ OpenInv /\ NameInv /\ PlaceInv(t) BY DEF IInv, OpenInv
<1>3. CASE i = -1 \/ b = -1
  <2>1. /\ Leave(t) /\ UNCHANGED <<inode, freeBlocks, fsData>>
        /\ damaged' = (damaged \/ i # -1)
    BY <1>3 DEF CreateInode
  <2> HIDE DEF i
  <2>2. damaged' \in BOOLEAN BY <2>1, Zenon
  <2>3. Typed' BY <1>1, <1>2, <2>1, <2>2, LeaveKeeps DEF Typed
  <2>4. OpenInv' BY <1>1, <2>1, LeaveKeeps, OpenKept
  <2> QED BY <1>2, <2>1, <2>3, <2>4, FilesKept DEF IInv
<1>4. CASE ~(i = -1 \/ b = -1)
  <2>1. i \in File /\ ~inode[i].taken
    <3>1. {j \in File : ~inode[j].taken} \in SUBSET Nat BY Sizes DEF File
    <3> QED BY <1>4, <3>1, LowestIsIn
  <2>2. b \in freeBlocks /\ b \in Block /\ b # 0 BY <1>2, <1>4, BlockAllocated DEF Typed
  <2> DEFINE new == [inode[i] EXCEPT !.taken = TRUE, !.size = 0, !.index = b,
                                     !.direct = [k \in 0..(Direct - 1) |-> -1]]
             e == [thread[t] EXCEPT !.pc = "link", !.inum = i]
  <2>3. /\ inode' = [inode EXCEPT ![i] = new]
        /\ fsData' = [a \in Address |-> IF a \div Entries = b THEN -1 ELSE fsData[a]]
        /\ Allocated(b)
        /\ thread' = [thread EXCEPT ![t].pc = "link", ![t].inum = i]
    BY <1>4 DEF CreateInode
  <2>4. inode \in [File -> Inode] /\ inode[i] \in Inode BY <1>2, <2>1 DEF Typed
  <2>5. new \in Inode /\ new.taken /\ new.index = b /\ new.size = 0
    BY <2>2, <2>4 DEF Inode
  <2>6. i \in 0..(Inodes - 1) BY <2>1, Sizes DEF File
  <2>7. thread[t] \in Local BY <1>2, ThreadTyped
  <2>8. e \in Local /\ e.pc = "link" /\ e.inum = i /\ e.own = thread[t].own
        /\ e.name = thread[t].name
    BY <2>6, <2>7 DEF Local
  <2>9. thread' = [thread EXCEPT ![t] = e] BY <2>3
  <2>10. freeBlocks' \subseteq Block \ {0} /\ damaged' \in BOOLEAN
    BY <1>2, <2>3, Zenon DEF Typed, Allocated
  <2>11. fsData' \in [Address -> Block \cup {-1, Data}]
    <3>1. fsData \in [Address -> Block \cup {-1, Data}] BY <1>2 DEF Typed
    <3> HIDE DEF b
    <3> QED BY <2>3, <3>1, Zenon
  <2> HIDE DEF new, e
  <2>12. thread' \in [Thread -> Local] /\ thread'[t] = e
        /\ \A u \in Thread \ {t} : thread'[u] = thread[u] BY <1>2, <2>8, <2>9, ThreadSet
  <2>13. PICK k : k = i OBVIOUS
  <2> HIDE DEF i, b
  <2>14. /\ inode' \in [File -> Inode] /\ inode'[k].taken /\ inode'[k].index # 0
         /\ \A j \in File \ {k} : inode'[j] = inode[j]
    BY <2>1, <2>2, <2>3, <2>4, <2>5, <2>13
  <2>15. Typed' BY <1>1, <1>2, <2>10, <2>11, <2>12, <2>14 DEF Typed
  <2>16. IndexInv' BY <1>2, <2>14 DEF IndexInv
  <2>17. PlaceInv(t)'
    <3>1. ~Named(k) /\ k \in File BY <1>2, <2>1, <2>13, NamedIsFile
    <3>2. \A u \in Thread \ {t} : thread[u].pc = "link" => thread[u].inum # k
      BY <1>2, <2>1, <2>13 DEF OpenInv, PlaceInv
    <3>3. thread'[t].inum = k /\ thread'[t].pc = "link" /\ thread'[t].name \in Name
      BY <1>1, <1>2, <2>8, <2>12, <2>13 DEF PlaceInv
    <3>4. ~Named(k)' BY <1>1, <3>1 DEF Named
    <3> QED BY <2>12, <2>14, <3>1, <3>2, <3>3, <3>4 DEF PlaceInv
  <2>18. OpenInv'
    <3>1. \A j \in File : inode[j].taken => inode'[j].taken BY <2>1, <2>13, <2>14
    <3> QED BY <1>1, <2>8, <2>12, <2>17, <3>1, OpenKept
  <2> QED BY <2>15, <2>16, <2>18 DEF IInv
<1> QED BY <1>3, <1>4

\* What an entry more does to a directory.
LEMMA EntryAdded ==
  ASSUME Typed, NEW name \in Name, NEW k \in File, Len(dir) < DirSize,
         dir' = Append(dir, [name |-> name, inum |-> k])
  PROVE  /\ dir' \in Seq([name : Name, inum : File]) /\ Len(dir') <= DirSize
         /\ DOMAIN dir' = (DOMAIN dir) \cup {Len(dir) + 1}
         /\ \A j \in DOMAIN dir : dir'[j] = dir[j]
         /\ dir'[Len(dir) + 1].inum = k
         /\ Len(dir) + 1 \notin DOMAIN dir
<1> DEFINE e == [name |-> name, inum |-> k]
<1>1. dir \in Seq([name : Name, inum : File]) /\ Len(dir) \in Nat BY DEF Typed
<1>2. e \in [name : Name, inum : File] /\ e.inum = k OBVIOUS
<1>3. dir' = Append(dir, e) OBVIOUS
<1> HIDE DEF e
<1>4. /\ dir' \in Seq([name : Name, inum : File]) /\ Len(dir') = Len(dir) + 1
      /\ \A j \in 1..Len(dir) : dir'[j] = dir[j]
      /\ dir'[Len(dir) + 1] = e
  BY <1>1, <1>2, <1>3, AppendProperties
<1>5. DOMAIN dir = 1..Len(dir) /\ DOMAIN dir' = 1..Len(dir') BY <1>1, <1>4
<1>6. DOMAIN dir' = (DOMAIN dir) \cup {Len(dir) + 1} /\ Len(dir) + 1 \notin DOMAIN dir
  BY <1>1, <1>4, <1>5
<1>7. Len(dir') <= DirSize BY <1>1, <1>4, Sizes
<1> QED BY <1>2, <1>4, <1>5, <1>6, <1>7

\* The inode gets its name, or goes back; nobody else was about to name it.
LEMMA LinkNameStep ==
  ASSUME IInv, NEW t \in Thread, LinkName(t)
  PROVE  IInv'
<1> DEFINE c == thread[t]
<1>1. UNCHANGED <<freeBlocks, fsData, openFiles, crashed, damaged>> /\ c.pc = "link"
  BY DEF LinkName
<1>2. Typed /\ IndexInv /\ OpenInv /\ NameInv /\ PlaceInv(t) BY DEF IInv, OpenInv
<1>3. PICK k : k = c.inum OBVIOUS
<1>4. k \in File /\ inode[k].taken /\ ~Named(k) /\ c.name \in Name
      /\ \A u \in Thread \ {t} : thread[u].pc = "link" => thread[u].inum # k
  BY <1>1, <1>2, <1>3 DEF PlaceInv
<1>5. CASE Len(dir) < DirSize
  <2> DEFINE e == [thread[t] EXCEPT !.pc = "enter"]
  <2>1. PICK name \in Name : name = c.name BY <1>4
  <2>2. dir' = Append(dir, [name |-> name, inum |-> k]) /\ GoTo(t, "enter") /\ UNCHANGED inode
    BY <1>3, <1>5, <2>1 DEF LinkName
  <2>3. /\ dir' \in Seq([name : Name, inum : File]) /\ Len(dir') <= DirSize
        /\ DOMAIN dir' = (DOMAIN dir) \cup {Len(dir) + 1}
        /\ \A j \in DOMAIN dir : dir'[j] = dir[j]
        /\ dir'[Len(dir) + 1].inum = k /\ Len(dir) + 1 \notin DOMAIN dir
    BY <1>2, <1>4, <1>5, <2>2, EntryAdded
  <2>4. \A i : Named(i)' <=> Named(i) \/ i = k BY <2>3 DEF Named
  <2>5. thread[t] \in Local /\ thread' = [thread EXCEPT ![t] = e]
    BY <1>2, <2>2, ThreadTyped DEF GoTo
  <2>6. e \in Local /\ e.pc = "enter" /\ e.inum = k /\ e.own = thread[t].own
    BY <1>3, <2>5 DEF Local
  <2> HIDE DEF e
  <2>7. thread' \in [Thread -> Local] /\ thread'[t] = e
        /\ \A u \in Thread \ {t} : thread'[u] = thread[u] BY <1>2, <2>5, <2>6, ThreadSet
  <2>8. Typed' BY <1>1, <1>2, <2>2, <2>3, <2>7 DEF Typed
  <2>9. NameInv'
    <3>1. \A j \in DOMAIN dir : dir[j].inum # k BY <1>4 DEF Named
    <3>2. \A j \in DOMAIN dir' : inode'[dir'[j].inum].taken
      BY <1>2, <1>4, <2>2, <2>3 DEF NameInv
    <3>3. ASSUME NEW j \in DOMAIN dir', NEW l \in DOMAIN dir', dir'[l].inum = dir'[j].inum
          PROVE  l = j
      BY <1>2, <2>3, <3>1, <3>3 DEF NameInv
    <3> QED BY <3>2, <3>3 DEF NameInv
  <2>10. \A u \in Thread : HandleInv(u)'
    <3>1. \A u \in Thread : thread'[u].own = thread[u].own BY <2>6, <2>7
    <3>2. ASSUME NEW u \in Thread PROVE HandleInv(u)'
      <4>1. HandleInv(u) BY <1>2 DEF OpenInv
      <4>2. ASSUME NEW h \in thread'[u].own
            PROVE  /\ openFiles'[h].taken /\ Named(openFiles[h].inum)'
                   /\ \A v \in Thread \ {u} : h \notin thread'[v].own
        <5>1. h \in thread[u].own BY <3>1, <4>2
        <5>2. PICK i : i = openFiles[h].inum OBVIOUS
        <5>3. Named(i)' BY <2>4, <4>1, <5>1, <5>2 DEF HandleInv
        <5> QED BY <1>1, <3>1, <4>1, <5>1, <5>2, <5>3 DEF HandleInv, Named
      <4> QED BY <1>1, <4>2 DEF HandleInv, Named
    <3> QED BY <3>2
  <2>11. PlaceInv(t)'
    <3>1. thread'[t].pc = "enter" /\ thread'[t].inum = k /\ Named(k)' BY <2>4, <2>6, <2>7
    <3> QED BY <3>1 DEF PlaceInv
  <2>12. ASSUME NEW u \in Thread \ {t} PROVE PlaceInv(u)'
    <3>1. PlaceInv(u) /\ thread'[u] = thread[u] BY <1>2, <2>7 DEF OpenInv
    <3>2. PICK i : i = thread[u].inum OBVIOUS
    <3>3. thread[u].pc = "link" => ~Named(i)'
      BY <1>4, <2>4, <3>1, <3>2 DEF PlaceInv
    <3>4. thread[u].pc \in {"truncate", "enter"} => Named(i)'
      BY <2>4, <3>1, <3>2 DEF PlaceInv
    <3>5. thread'[u].pc = "link" =>
            \A v \in Thread \ {u} : thread'[v].pc = "link" => thread'[v].inum # thread'[u].inum
      BY <2>6, <2>7, <3>1 DEF PlaceInv
    <3>6. thread'[u].inum = i BY <3>1, <3>2
    <3>7. thread'[u].pc = "link" => thread'[u].inum \in File /\ inode'[thread'[u].inum].taken
      BY <2>2, <3>1 DEF PlaceInv
    <3>8. thread'[u].pc = "write" => thread'[u].h \in thread'[u].own BY <3>1 DEF PlaceInv
    <3>9. thread'[u].pc \in {"create", "link"} => thread'[u].name \in Name
      BY <3>1 DEF PlaceInv
    <3> QED BY <3>1, <3>3, <3>4, <3>5, <3>6, <3>7, <3>8, <3>9 DEF PlaceInv
  <2>13. OpenInv' BY <2>9, <2>10, <2>11, <2>12 DEF OpenInv
  <2> QED BY <1>2, <2>2, <2>8, <2>13, FilesKept DEF IInv
<1>6. CASE ~(Len(dir) < DirSize)
  <2>1. inode' = [inode EXCEPT ![k] = [inode[k] EXCEPT !.taken = FALSE]]
        /\ Leave(t) /\ UNCHANGED dir
    BY <1>3, <1>6 DEF LinkName
  <2>2. inode \in [File -> Inode] /\ inode[k] \in Inode BY <1>2, <1>4 DEF Typed
  <2>3. /\ inode' \in [File -> Inode]
        /\ \A j \in File : /\ inode'[j].index = inode[j].index
                           /\ inode'[j].size = inode[j].size
                           /\ inode'[j].taken = (inode[j].taken /\ j # k)
    <3> DEFINE g == [inode[k] EXCEPT !.taken = FALSE]
    <3>1. g \in Inode /\ g.taken = FALSE /\ g.index = inode[k].index /\ g.size = inode[k].size
      BY <2>2 DEF Inode
    <3> HIDE DEF g
    <3>2. inode' = [inode EXCEPT ![k] = g] BY <2>1 DEF g
    <3>3. inode' \in [File -> Inode] /\ inode'[k] = g /\ \A j \in File \ {k} : inode'[j] = inode[j]
      BY <1>4, <2>2, <3>1, <3>2
    <3>4. \A j \in File : inode[j].taken \in BOOLEAN BY <2>2 DEF Inode
    <3> QED BY <3>1, <3>3, <3>4
  <2>4. /\ thread' \in [Thread -> Local] /\ PlaceInv(t)'
        /\ thread'[t].own = thread[t].own
        /\ \A u \in Thread \ {t} : thread'[u] = thread[u]
    BY <2>1, LeaveKeeps
  <2>5. Typed' BY <1>1, <1>2, <2>1, <2>3, <2>4 DEF Typed
  <2>6. IndexInv' BY <1>2, <1>4, <2>3 DEF IndexInv
  <2>7. NameInv'
    <3>1. \A j \in DOMAIN dir : dir[j].inum # k /\ dir[j].inum \in File
      BY <1>2, <1>4, EntryTyped DEF Named
    <3> QED BY <1>2, <2>1, <2>3, <3>1 DEF NameInv
  <2>8. \A u \in Thread : HandleInv(u)'
    BY <1>1, <1>2, <2>1, <2>4 DEF OpenInv, HandleInv, Named
  <2>9. ASSUME NEW u \in Thread \ {t} PROVE PlaceInv(u)'
    <3>1. PlaceInv(u) /\ thread'[u] = thread[u] BY <1>2, <2>4 DEF OpenInv
    <3>2. thread'[t].pc = "idle"
      <4>1. thread[t].own \in SUBSET Handle BY <1>2, ThreadTyped
      <4> QED BY <1>2, <2>1, <4>1, EndTyped DEF Leave
    <3>3. thread'[u].pc = "link" => /\ thread'[u].inum \in File
                                    /\ inode'[thread'[u].inum].taken
      BY <1>4, <2>3, <3>1 DEF PlaceInv
    <3>4. thread'[u].pc = "link" =>
            \A v \in Thread \ {u} : thread'[v].pc = "link" => thread'[v].inum # thread'[u].inum
      BY <2>4, <3>1, <3>2 DEF PlaceInv
    <3> QED BY <2>1, <3>1, <3>3, <3>4 DEF PlaceInv, Named
  <2>10. OpenInv' BY <2>4, <2>7, <2>8, <2>9 DEF OpenInv
  <2> QED BY <2>5, <2>6, <2>10 DEF IInv
<1> QED BY <1>5, <1>6

\* A handle that is free is nobody's: the thread that enters it is alone with it.
LEMMA EnterTableStep ==
  ASSUME IInv, NEW t \in Thread, EnterTable(t)
  PROVE  IInv'
<1> DEFINE h == LowestOr({j \in Handle : ~openFiles[j].taken}, -1)
           c == thread[t]
<1>1. UNCHANGED <<inode, dir, freeBlocks, fsData, crashed, damaged>> /\ c.pc = "enter"
  BY DEF EnterTable
<1>2. Typed /\ IndexInv /\ OpenInv /\ NameInv /\ PlaceInv(t) BY DEF IInv, OpenInv
<1>3. Named(c.inum) BY <1>1, <1>2 DEF PlaceInv
<1>4. CASE h = -1
  <2>1. Leave(t) /\ UNCHANGED openFiles BY <1>4 DEF EnterTable
  <2>2. Typed' BY <1>1, <1>2, <2>1, LeaveKeeps DEF Typed
  <2>3. OpenInv' BY <1>1, <2>1, LeaveKeeps, OpenKept
  <2> QED BY <1>1, <1>2, <2>2, <2>3, FilesKept DEF IInv
<1>5. CASE h # -1
  <2>1. h \in Handle /\ ~openFiles[h].taken
    <3>1. {j \in Handle : ~openFiles[j].taken} \in SUBSET Nat BY Sizes DEF Handle
    <3> QED BY <1>5, <3>1, LowestIsIn
  <2>2. PICK k \in Handle : k = h BY <2>1
  <2> DEFINE e == [taken |-> TRUE, inum |-> c.inum, offset |-> c.offset]
  <2>3. openFiles' = [openFiles EXCEPT ![k] = e] /\ End(t, c.own \cup {k})
    BY <1>5, <2>2 DEF EnterTable
  <2>4. /\ e \in [taken : BOOLEAN, inum : 0..(Inodes - 1), offset : Nat]
        /\ e.taken /\ e.inum = c.inum
    BY <1>2, ThreadTyped
  <2> HIDE DEF e, h
  <2>5. openFiles \in [Handle -> [taken : BOOLEAN, inum : 0..(Inodes - 1), offset : Nat]]
    BY <1>2 DEF Typed
  <2>6. /\ openFiles' \in [Handle -> [taken : BOOLEAN, inum : 0..(Inodes - 1), offset : Nat]]
        /\ openFiles'[k] = e /\ \A j \in Handle \ {k} : openFiles'[j] = openFiles[j]
    BY <2>3, <2>4, <2>5
  <2>7. c.own \cup {k} \in SUBSET Handle BY <1>2, ThreadTyped
  <2>8. /\ thread' \in [Thread -> Local]
        /\ thread'[t].pc = "idle" /\ thread'[t].own = c.own \cup {k}
        /\ \A u \in Thread \ {t} : thread'[u] = thread[u]
    BY <1>2, <2>3, <2>7, EndTyped
  <2>9. Typed' BY <1>1, <1>2, <2>6, <2>8 DEF Typed
  <2>10. \A u \in Thread : k \notin thread[u].own
    BY <1>2, <2>1, <2>2 DEF OpenInv, HandleInv
  <2>11. NameInv' BY <1>1, <1>2 DEF NameInv
  <2>12. \A i : Named(i)' <=> Named(i) BY <1>1 DEF Named
  <2>13. ASSUME NEW u \in Thread PROVE HandleInv(u)'
    <3>1. HandleInv(u) /\ thread[u].own \in SUBSET Handle
      BY <1>2, ThreadTyped DEF OpenInv
    <3>2. ASSUME NEW j \in thread'[u].own
          PROVE  /\ openFiles'[j].taken /\ \E l \in DOMAIN dir' : dir'[l].inum = openFiles'[j].inum
                 /\ \A v \in Thread \ {u} : j \notin thread'[v].own
      <4>1. CASE j = k
        <5>1. u = t BY <2>8, <2>10, <4>1, <3>2
        <5>2. \A v \in Thread \ {u} : j \notin thread'[v].own BY <2>8, <2>10, <4>1, <5>1
        <5>3. openFiles'[j].taken /\ openFiles'[j].inum = c.inum BY <2>4, <2>6, <4>1
        <5> QED BY <1>1, <1>3, <5>2, <5>3 DEF Named
      <4>2. CASE j # k
        <5>1. j \in thread[u].own BY <2>8, <3>2, <4>2
        <5>2. openFiles'[j] = openFiles[j] BY <2>6, <3>1, <4>2, <5>1
        <5>3. /\ openFiles[j].taken /\ Named(openFiles[j].inum)
              /\ \A v \in Thread \ {u} : j \notin thread[v].own
          BY <3>1, <5>1 DEF HandleInv
        <5>4. \A v \in Thread \ {u} : j \notin thread'[v].own BY <2>8, <4>2, <5>3
        <5> QED BY <1>1, <5>2, <5>3, <5>4 DEF Named
      <4> QED BY <4>1, <4>2
    <3> QED BY <3>2 DEF HandleInv, Named
  <2>14. ASSUME NEW u \in Thread \ {t} PROVE PlaceInv(u)'
    <3>1. PlaceInv(u) /\ thread'[u] = thread[u] BY <1>2, <2>8 DEF OpenInv
    <3>2. thread'[u].pc = "link" =>
            \A v \in Thread \ {u} : thread'[v].pc = "link" => thread'[v].inum # thread'[u].inum
      BY <2>8, <3>1 DEF PlaceInv
    <3> QED BY <1>1, <3>1, <3>2 DEF PlaceInv, Named
  <2>15. PlaceInv(t)' BY <2>8 DEF PlaceInv
  <2>16. OpenInv' BY <2>11, <2>13, <2>14, <2>15 DEF OpenInv
  <2> QED BY <1>1, <1>2, <2>9, <2>16, FilesKept DEF IInv
<1> QED BY <1>4, <1>5

\* Closing a handle takes it from the thread that had it.
LEMMA CloseStep ==
  ASSUME IInv, NEW t \in Thread, NEW h \in Handle, Close(t, h)
  PROVE  IInv'
<1>1. /\ UNCHANGED <<inode, dir, freeBlocks, fsData, crashed, damaged>>
      /\ Starts(t) /\ h \in thread[t].own
      /\ openFiles' = [openFiles EXCEPT ![h] = [openFiles[h] EXCEPT !.taken = FALSE]]
      /\ thread' = [thread EXCEPT ![t] = [thread[t] EXCEPT !.own = thread[t].own \ {h},
                                                           !.ops = thread[t].ops + 1]]
  BY DEF Close
<1>2. Typed /\ IndexInv /\ OpenInv /\ NameInv BY DEF IInv, OpenInv
<1> DEFINE e == [openFiles[h] EXCEPT !.taken = FALSE]
           c == [thread[t] EXCEPT !.own = thread[t].own \ {h}, !.ops = thread[t].ops + 1]
<1>3. openFiles \in [Handle -> [taken : BOOLEAN, inum : 0..(Inodes - 1), offset : Nat]]
  BY <1>2 DEF Typed
<1>4. e \in [taken : BOOLEAN, inum : 0..(Inodes - 1), offset : Nat] BY <1>3
<1>5. thread[t].ops + 1 \in 0..MaxOps BY <1>1, <1>2, ThreadTyped, SizeAssumption DEF Starts
<1>6. thread[t] \in Local /\ thread[t].own \ {h} \in SUBSET Handle BY <1>2, ThreadTyped
<1>7. c \in Local /\ c.pc = "idle" /\ c.own = thread[t].own \ {h}
  BY <1>1, <1>5, <1>6 DEF Local, Starts
<1> HIDE DEF e, c
<1>8. thread' = [thread EXCEPT ![t] = c] BY <1>1 DEF c
<1>9. thread' \in [Thread -> Local] /\ thread'[t] = c
      /\ \A u \in Thread \ {t} : thread'[u] = thread[u] BY <1>2, <1>7, <1>8, ThreadSet
<1>10. openFiles' = [openFiles EXCEPT ![h] = e] BY <1>1 DEF e
<1>11. /\ openFiles' \in [Handle -> [taken : BOOLEAN, inum : 0..(Inodes - 1), offset : Nat]]
       /\ \A j \in Handle \ {h} : openFiles'[j] = openFiles[j]
  BY <1>3, <1>4, <1>10
<1>12. Typed' BY <1>1, <1>2, <1>9, <1>11 DEF Typed
<1>13. ASSUME NEW u \in Thread PROVE HandleInv(u)'
  <2>1. HandleInv(u) /\ HandleInv(t) /\ thread[u].own \in SUBSET Handle
    BY <1>2, ThreadTyped DEF OpenInv
  <2>2. h \notin thread'[u].own /\ \A j \in thread'[u].own : j \in thread[u].own
    BY <1>1, <1>7, <1>9, <2>1 DEF HandleInv
  <2>3. \A v \in Thread : \A j : j \notin thread[v].own => j \notin thread'[v].own
    BY <1>7, <1>9
  <2>4. ASSUME NEW j \in thread'[u].own
        PROVE  /\ openFiles'[j].taken /\ \E l \in DOMAIN dir' : dir'[l].inum = openFiles'[j].inum
               /\ \A v \in Thread \ {u} : j \notin thread'[v].own
    <3>1. openFiles'[j] = openFiles[j] /\ j \in thread[u].own BY <1>11, <2>1, <2>2, <2>4
    <3>2. /\ openFiles[j].taken /\ Named(openFiles[j].inum)
          /\ \A v \in Thread \ {u} : j \notin thread[v].own
      BY <2>1, <3>1 DEF HandleInv
    <3> QED BY <1>1, <2>3, <3>1, <3>2 DEF Named
  <2> QED BY <2>4 DEF HandleInv, Named
<1>14. ASSUME NEW u \in Thread \ {t} PROVE PlaceInv(u)'
  <2>1. PlaceInv(u) /\ thread'[u] = thread[u] BY <1>2, <1>9 DEF OpenInv
  <2>2. thread'[u].pc = "link" =>
          \A v \in Thread \ {u} : thread'[v].pc = "link" => thread'[v].inum # thread'[u].inum
    BY <1>7, <1>9, <2>1 DEF PlaceInv
  <2> QED BY <1>1, <2>1, <2>2 DEF PlaceInv, Named
<1>15. PlaceInv(t)' BY <1>7, <1>9 DEF PlaceInv
<1>16. NameInv' BY <1>1, <1>2 DEF NameInv
<1>17. OpenInv' BY <1>13, <1>14, <1>15, <1>16 DEF OpenInv
<1> QED BY <1>1, <1>2, <1>12, <1>17, FilesKept DEF IInv

\* The smaller of two numbers, and the larger.
LEMMA SmallerOf ==
  ASSUME NEW a \in Nat, NEW b \in Nat
  PROVE  Min({a, b}) \in Nat /\ Min({a, b}) <= a /\ Min({a, b}) <= b
<1>1. {a, b} \in SUBSET Nat /\ {a, b} # {} OBVIOUS
<1>2. Min({a, b}) \in {a, b} /\ \A y \in {a, b} : Min({a, b}) <= y
  BY <1>1, LeastNumber, Zenon
<1> QED BY <1>2

LEMMA LargerOf ==
  ASSUME NEW a \in Nat, NEW b \in Nat
  PROVE  Max({a, b}) \in {a, b} /\ Max({a, b}) \in Nat
<1>1. \E x \in {a, b} : \A y \in {a, b} : x >= y
  <2>1. CASE a >= b BY <2>1
  <2>2. CASE b >= a BY <2>2
  <2> QED BY <2>1, <2>2
<1>2. Max({a, b}) \in {a, b} BY <1>1, Zenon DEF Max
<1> QED BY <1>2

\* A process that has crashed has kept the types.
LEMMA CrashKeeps ==
  ASSUME IInv, NEW t \in Thread, Crash, thread' \in [Thread -> Local],
         thread'[t].own = thread[t].own, PlaceInv(t)',
         \A u \in Thread \ {t} : thread'[u] = thread[u]
  PROVE  IInv'
<1>1. Typed' BY DEF IInv, Typed, Crash
<1>2. OpenInv'
  <2>1. UNCHANGED <<inode, dir, openFiles>> BY DEF Crash
  <2> QED BY <2>1, OpenKept
<1>3. IndexInv' BY FilesKept DEF IInv, Crash
<1> QED BY <1>1, <1>2, <1>3 DEF IInv

\* A write to an empty file gives it an index block that is not the directory's.
LEMMA BeginWriteStep ==
  ASSUME IInv, NEW t \in Thread, NEW h \in Handle, NEW len \in Lengths, BeginWrite(t, h, len)
  PROVE  IInv'
<1> DEFINE i == openFiles[h].inum
           off == openFiles[h].offset
           n == IF len + off > MaxSize THEN MaxSize - off ELSE len
           b == NextBlock
<1>1. Typed /\ IndexInv /\ OpenInv BY DEF IInv
<1>2. Starts(t) /\ h \in thread[t].own BY DEF BeginWrite
<1>3. i \in File /\ inode[i] \in Inode /\ inode[i].taken /\ off \in Nat
  BY <1>2, HandleIsFile
<1>4. CASE n < 0 /\ Counted(t) /\ Crash BY <1>2, <1>4, CountedTyped, CrashKeeps
<1>5. CASE n = 0 /\ Counted(t)
           /\ UNCHANGED <<inode, dir, freeBlocks, fsData, openFiles, crashed, damaged>>
  <2>1. Typed' BY <1>1, <1>2, <1>5, CountedTyped DEF Typed
  <2>2. OpenInv' BY <1>2, <1>5, CountedTyped, OpenKept
  <2> QED BY <2>1, <2>2, <1>1, <1>5, FilesKept DEF IInv
<1>6. CASE /\ n > 0
           /\ thread' = [thread EXCEPT ![t] =
                [thread[t] EXCEPT !.ops = @ + 1, !.pc = "write", !.h = h, !.n = n, !.i = 0]]
           /\ IF inode[i].size = 0
              THEN inode' = [inode EXCEPT ![i].index = b] /\ Allocated(b)
              ELSE UNCHANGED <<inode, freeBlocks, damaged>>
           /\ UNCHANGED <<dir, fsData, openFiles, crashed>>
  <2> DEFINE e == [thread[t] EXCEPT !.ops = thread[t].ops + 1, !.pc = "write",
                                    !.h = h, !.n = n, !.i = 0]
  <2>1. n \in Nat
    <3>1. len \in Nat BY SizeAssumption
    <3>2. (Entries + Direct) * BlockSize \in Nat BY Sizes
    <3>3. MaxSize \in Nat BY <3>2, Zenon DEF MaxSize
    <3> QED BY <1>3, <1>6, <3>1, <3>3
  <2>2. thread[t].ops + 1 \in 0..MaxOps BY <1>1, <1>2, ThreadTyped, SizeAssumption DEF Starts
  <2>3. thread[t] \in Local BY <1>1, ThreadTyped
  <2> HIDE DEF n
  <2>4. e \in Local /\ e.pc = "write" /\ e.h = h /\ e.own = thread[t].own
    BY <2>1, <2>2, <2>3 DEF Local
  <2>5. thread' = [thread EXCEPT ![t] = e] BY <1>6
  <2> HIDE DEF e
  <2>6. thread' \in [Thread -> Local] /\ thread'[t] = e
        /\ \A u \in Thread \ {t} : thread'[u] = thread[u] BY <1>1, <2>4, <2>5, ThreadSet
  <2>7. PlaceInv(t)' BY <1>2, <2>4, <2>6 DEF PlaceInv
  <2>8. /\ inode' \in [File -> Inode] /\ freeBlocks' \subseteq Block \ {0}
        /\ damaged' \in BOOLEAN /\ IndexInv'
        /\ \A j \in File : inode[j].taken => inode'[j].taken
    <3>1. /\ inode \in [File -> Inode] /\ freeBlocks \subseteq Block \ {0}
          /\ damaged \in BOOLEAN
      BY <1>1 DEF Typed
    <3>2. CASE inode[i].size # 0 BY <1>1, <1>6, <3>1, <3>2 DEF IndexInv
    <3>3. CASE inode[i].size = 0
      <4> DEFINE g == [inode[i] EXCEPT !.index = b]
      <4>1. PICK k \in File : k = i BY <1>3
      <4>2. inode' = [inode EXCEPT ![k] = g] /\ Allocated(b) BY <1>6, <3>3, <4>1
      <4>3. b \in Block \cup {-1} /\ b # 0 BY <1>1, BlockAllocated
      <4>4. g \in Inode /\ g.taken = inode[i].taken /\ g.index = b
        BY <1>3, <4>3 DEF Inode
      <4>5. freeBlocks' \subseteq Block \ {0} /\ damaged' \in BOOLEAN
        BY <3>1, <4>2, Zenon DEF Allocated
      <4> HIDE DEF g, b, i
      <4>6. /\ inode' \in [File -> Inode] /\ inode'[k] = g
            /\ \A j \in File \ {k} : inode'[j] = inode[j]
        BY <3>1, <4>2, <4>4
      <4>7. IndexInv' BY <1>1, <4>3, <4>4, <4>6 DEF IndexInv
      <4> QED BY <4>1, <4>4, <4>5, <4>6, <4>7
    <3> QED BY <3>2, <3>3
  <2>9. Typed' BY <1>1, <1>6, <2>6, <2>8 DEF Typed
  <2>10. OpenInv' BY <1>6, <2>4, <2>6, <2>7, <2>8, OpenKept
  <2> QED BY <2>8, <2>9, <2>10 DEF IInv
<1> QED BY <1>4, <1>5, <1>6 DEF BeginWrite

\* The writer goes on to the next block, with its handle.
LEMMA NextIKeeps ==
  ASSUME IInv, NEW t \in Thread, thread[t].pc = "write", NextI(t)
  PROVE  /\ thread' \in [Thread -> Local] /\ PlaceInv(t)'
         /\ thread'[t].own = thread[t].own
         /\ \A u \in Thread \ {t} : thread'[u] = thread[u]
<1> DEFINE e == [thread[t] EXCEPT !.i = thread[t].i + 1]
<1>1. Typed /\ PlaceInv(t) BY DEF IInv, OpenInv
<1>2. thread[t] \in Local /\ thread[t].i + 1 \in Nat BY <1>1, ThreadTyped
<1>3. /\ e \in Local /\ e.pc = "write" /\ e.h = thread[t].h /\ e.own = thread[t].own
  BY <1>2 DEF Local
<1>4. thread' = [thread EXCEPT ![t] = e] BY DEF NextI
<1> HIDE DEF e
<1>5. thread' \in [Thread -> Local] /\ thread'[t] = e
      /\ \A u \in Thread \ {t} : thread'[u] = thread[u] BY <1>1, <1>3, <1>4, ThreadSet
<1> QED BY <1>1, <1>3, <1>5 DEF PlaceInv

\* A writer has its handle, and the handle leads to a file.
LEMMA WriterHasFile ==
  ASSUME IInv, NEW t \in Thread, thread[t].pc = "write"
  PROVE  /\ thread[t].h \in thread[t].own /\ thread[t].h \in Handle
         /\ openFiles[thread[t].h].inum \in File /\ openFiles[thread[t].h].offset \in Nat
         /\ inode[openFiles[thread[t].h].inum] \in Inode
         /\ inode[openFiles[thread[t].h].inum].index # 0
<1>1. thread[t].h \in thread[t].own BY DEF IInv, OpenInv, PlaceInv
<1> QED BY <1>1, HandleIsFile

\* A direct block is allocated, or was there.
LEMMA AllocateDirectStep ==
  ASSUME IInv, NEW t \in Thread, AllocateDirect(t)
  PROVE  IInv'
<1> DEFINE c == thread[t]
           i == openFiles[c.h].inum
           b == NextBlock
<1>1. Typed /\ IndexInv /\ OpenInv BY DEF IInv
<1>2. /\ c.pc = "write" /\ c.i < Direct /\ NextI(t)
      /\ UNCHANGED <<dir, fsData, openFiles, crashed>>
      /\ IF inode[i].direct[c.i] = -1
         THEN inode' = [inode EXCEPT ![i].direct[c.i] = b] /\ Allocated(b)
         ELSE UNCHANGED <<inode, freeBlocks, damaged>>
  BY DEF AllocateDirect
<1>3. /\ inode \in [File -> Inode] /\ freeBlocks \subseteq Block \ {0} /\ damaged \in BOOLEAN
      /\ i \in File /\ inode[i] \in Inode /\ c.i \in 0..(Direct - 1)
  BY <1>1, <1>2, WriterHasFile, ThreadTyped, Sizes DEF Typed
<1>4. /\ inode' \in [File -> Inode] /\ freeBlocks' \subseteq Block \ {0} /\ damaged' \in BOOLEAN
      /\ \A j \in File : /\ inode'[j].taken = inode[j].taken
                         /\ inode'[j].size = inode[j].size
                         /\ inode'[j].index = inode[j].index
  <2>1. CASE inode[i].direct[c.i] # -1 BY <1>2, <1>3, <2>1
  <2>2. CASE inode[i].direct[c.i] = -1
    <3> DEFINE d == [inode[i].direct EXCEPT ![c.i] = b]
               g == [inode[i] EXCEPT !.direct = d]
    <3>1. inode' = [inode EXCEPT ![i] = g] /\ Allocated(b) BY <1>2, <2>2
    <3>2. b \in Block \cup {-1} BY <1>1, BlockAllocated
    <3>3. inode[i].direct \in [0..(Direct - 1) -> Block \cup {-1}] BY <1>3 DEF Inode
    <3> HIDE DEF b
    <3>4. d \in [0..(Direct - 1) -> Block \cup {-1}] BY <1>3, <3>2, <3>3
    <3> HIDE DEF d
    <3>5. /\ g \in Inode /\ g.taken = inode[i].taken /\ g.size = inode[i].size
          /\ g.index = inode[i].index
      BY <1>3, <3>4 DEF Inode
    <3>6. freeBlocks' \subseteq Block \ {0} /\ damaged' \in BOOLEAN
      BY <1>3, <3>1, Zenon DEF Allocated
    <3>7. PICK k \in File : k = i BY <1>3
    <3> HIDE DEF g, i
    <3>8. /\ inode' \in [File -> Inode] /\ inode'[k] = g
          /\ \A j \in File \ {k} : inode'[j] = inode[j]
      BY <1>3, <3>1, <3>5, <3>7
    <3> QED BY <3>5, <3>6, <3>7, <3>8
  <2> QED BY <2>1, <2>2
<1>5. /\ thread' \in [Thread -> Local] /\ PlaceInv(t)'
      /\ thread'[t].own = thread[t].own
      /\ \A u \in Thread \ {t} : thread'[u] = thread[u]
  BY <1>2, NextIKeeps
<1>6. Typed' BY <1>1, <1>2, <1>4, <1>5 DEF Typed
<1>7. IndexInv' BY <1>1, <1>4 DEF IndexInv
<1>8. OpenInv' BY <1>2, <1>4, <1>5, OpenKept
<1> QED BY <1>6, <1>7, <1>8 DEF IInv

\* An entry of the index block is filled, or was set.
LEMMA AllocateIndirectStep ==
  ASSUME IInv, NEW t \in Thread, AllocateIndirect(t)
  PROVE  IInv'
<1> DEFINE x == inode[openFiles[thread[t].h].inum].index
           a == Entry(x, thread[t].i - Direct)
           b == NextBlock
<1>1. Typed /\ IndexInv /\ OpenInv BY DEF IInv
<1>2. thread[t].pc = "write" /\ NextI(t) BY DEF AllocateIndirect
<1>3. /\ thread' \in [Thread -> Local] /\ PlaceInv(t)'
      /\ thread'[t].own = thread[t].own
      /\ \A u \in Thread \ {t} : thread'[u] = thread[u]
  BY <1>2, NextIKeeps
<1>4. CASE Crash BY <1>3, <1>4, CrashKeeps
<1>5. CASE UNCHANGED <<inode, dir, openFiles, crashed, fsData, freeBlocks, damaged>>
  <2>1. Typed' BY <1>1, <1>3, <1>5 DEF Typed
  <2>2. OpenInv' BY <1>3, <1>5, OpenKept
  <2> QED BY <2>1, <2>2, <1>1, <1>5, FilesKept DEF IInv
<1>6. CASE /\ UNCHANGED <<inode, dir, openFiles, crashed>>
           /\ fsData' = IF a \in Address THEN [fsData EXCEPT ![a] = b] ELSE fsData
           /\ Allocated(b)
  <2>1. b \in Block \cup {-1} BY <1>1, BlockAllocated
  <2>2. /\ fsData \in [Address -> Block \cup {-1, Data}] /\ freeBlocks \subseteq Block \ {0}
        /\ damaged \in BOOLEAN
    BY <1>1 DEF Typed
  <2> HIDE DEF a, b
  <2>3. freeBlocks' \subseteq Block \ {0} /\ damaged' \in BOOLEAN
    BY <1>6, <2>2, Zenon DEF Allocated
  <2>4. fsData' \in [Address -> Block \cup {-1, Data}] BY <1>6, <2>1, <2>2
  <2>5. Typed' BY <1>1, <1>3, <1>6, <2>3, <2>4 DEF Typed
  <2>6. OpenInv' BY <1>3, <1>6, OpenKept
  <2> QED BY <2>5, <2>6, <1>1, <1>6, FilesKept DEF IInv
<1> QED BY <1>4, <1>5, <1>6 DEF AllocateIndirect

\* A handle moves on in its file.
LEMMA OffsetSet ==
  ASSUME Typed, NEW h \in Handle, NEW o \in Nat,
         openFiles' = [openFiles EXCEPT ![h].offset = o]
  PROVE  /\ openFiles' \in [Handle -> [taken : BOOLEAN, inum : 0..(Inodes - 1), offset : Nat]]
         /\ \A j \in Handle : /\ openFiles'[j].taken = openFiles[j].taken
                              /\ openFiles'[j].inum = openFiles[j].inum
BY DEF Typed

\* A piece is no longer than what is left to write, nor than what its block had left.
LEMMA CopyPieceStep ==
  ASSUME IInv, NEW t \in Thread, CopyPiece(t)
  PROVE  IInv'
<1> DEFINE c == thread[t]
           i == openFiles[c.h].inum
           off == openFiles[c.h].offset
           fill == BlockSize - inode[i].last
           n == Min({fill, c.n})
           b == BlockOf(inode[i], off \div BlockSize)
           from == off % BlockSize
           to == {Entry(b, p \div IntSize) : p \in from..(from + n - 1)}
           edge == Entry(b, (from + n - 1) \div IntSize)
           done == c.n <= fill
           over == from + n > BlockSize
           larger == Max({inode[i].size, off + n})
<1>1. Typed /\ IndexInv /\ OpenInv BY DEF IInv
<1>2. c.pc = "write"
      /\ IF done THEN Leave(t) ELSE thread' = [thread EXCEPT ![t].n = c.n - n]
  BY DEF CopyPiece
<1>3. /\ c \in Local /\ c.h \in Handle /\ c.h \in c.own /\ c.n \in Nat
      /\ i \in File /\ off \in Nat /\ inode[i] \in Inode
  BY <1>1, <1>2, WriterHasFile, ThreadTyped
<1>4. inode[i].last \in 0..BlockSize /\ inode[i].size \in Nat BY <1>3 DEF Inode
<1>5. fill \in Nat BY <1>4, Sizes
<1>6. n \in Nat /\ n <= fill /\ n <= c.n BY <1>3, <1>5, SmallerOf
<1> HIDE DEF n
<1>7. off + n \in Nat BY <1>3, <1>6
<1>8. larger \in Nat BY <1>4, <1>7, LargerOf
<1>9. /\ thread' \in [Thread -> Local] /\ PlaceInv(t)'
      /\ thread'[t].own = thread[t].own
      /\ \A u \in Thread \ {t} : thread'[u] = thread[u]
  <2>1. CASE done BY <1>2, <2>1, LeaveKeeps
  <2>2. CASE ~done
    <3> DEFINE e == [thread[t] EXCEPT !.n = c.n - n]
    <3>1. c.n - n \in Nat BY <1>3, <1>6
    <3>2. /\ e \in Local /\ e.pc = "write" /\ e.h = c.h /\ e.own = thread[t].own
      BY <1>2, <1>3, <3>1 DEF Local
    <3>3. thread' = [thread EXCEPT ![t] = e] BY <1>2, <2>2
    <3> HIDE DEF e
    <3>4. thread' \in [Thread -> Local] /\ thread'[t] = e
          /\ \A u \in Thread \ {t} : thread'[u] = thread[u] BY <1>1, <3>2, <3>3, ThreadSet
    <3> QED BY <1>3, <3>2, <3>4 DEF PlaceInv
  <2> QED BY <2>1, <2>2
<1>10. CASE Crash BY <1>9, <1>10, CrashKeeps
<1>11. CASE /\ \E v \in Overwritten(b, from, from + n, edge) :
                 fsData' = [a \in Address |-> IF a \notin to THEN fsData[a]
                                             ELSE IF a = edge THEN v ELSE Data]
            /\ openFiles' = [openFiles EXCEPT ![c.h].offset = off + n]
            /\ inode' = [inode EXCEPT ![i].last = IF done THEN inode[i].last + n ELSE 0,
                                      ![i].size = IF done THEN larger ELSE inode[i].size]
            /\ damaged' = (damaged \/ over)
            /\ UNCHANGED <<dir, freeBlocks, crashed>>
  <2>1. /\ inode \in [File -> Inode] /\ fsData \in [Address -> Block \cup {-1, Data}]
        /\ damaged \in BOOLEAN
    BY <1>1 DEF Typed
  <2> DEFINE l == IF done THEN inode[i].last + n ELSE 0
             z == IF done THEN larger ELSE inode[i].size
             g == [inode[i] EXCEPT !.last = l, !.size = z]
  <2>2. l \in 0..BlockSize BY <1>4, <1>6, Sizes
  <2>3. z \in Nat BY <1>4, <1>8
  <2>4. inode' = [inode EXCEPT ![i] = g] BY <1>11
  <2>5. inode[i].index # 0 BY <1>2, WriterHasFile
  <2>6. PICK k \in File : k = i BY <1>3
  <2> HIDE DEF l, z
  <2>7. g \in Inode /\ g.taken = inode[i].taken /\ g.index = inode[i].index
    BY <1>3, <2>2, <2>3 DEF Inode
  <2>8. fsData' \in [Address -> Block \cup {-1, Data}]
    <3>1. PICK v \in Overwritten(b, from, from + n, edge) :
                fsData' = [a \in Address |-> IF a \notin to THEN fsData[a]
                                            ELSE IF a = edge THEN v ELSE Data]
      BY <1>11
    <3> HIDE DEF to, from, b
    <3>2. v \in Block \cup {Data} BY <3>1 DEF Overwritten
    <3> HIDE DEF edge
    <3> QED BY <2>1, <3>1, <3>2
  <2> HIDE DEF over
  <2>9. damaged' \in BOOLEAN BY <1>11, <2>1, Zenon
  <2>10. /\ openFiles' \in [Handle -> [taken : BOOLEAN, inum : 0..(Inodes - 1), offset : Nat]]
         /\ \A j \in Handle : /\ openFiles'[j].taken = openFiles[j].taken
                              /\ openFiles'[j].inum = openFiles[j].inum
    BY <1>1, <1>3, <1>7, <1>11, OffsetSet
  <2> HIDE DEF g, i
  <2>11. /\ inode' \in [File -> Inode] /\ inode'[k] = g
         /\ \A j \in File \ {k} : inode'[j] = inode[j]
    BY <2>1, <2>4, <2>6, <2>7
  <2>12. Typed' BY <1>1, <1>9, <1>11, <2>8, <2>9, <2>10, <2>11 DEF Typed
  <2>13. IndexInv' BY <1>1, <2>5, <2>6, <2>7, <2>11 DEF IndexInv
  <2>14. \A j \in File : inode[j].taken => inode'[j].taken BY <2>6, <2>7, <2>11
  <2>15. OpenInv' BY <1>9, <1>11, <2>10, <2>14, OpenKept
  <2> QED BY <2>12, <2>13, <2>15 DEF IInv
<1>12. Crash \/ /\ \E v \in Overwritten(b, from, from + n, edge) :
                     fsData' = [a \in Address |-> IF a \notin to THEN fsData[a]
                                                 ELSE IF a = edge THEN v ELSE Data]
                /\ openFiles' = [openFiles EXCEPT ![c.h].offset = off + n]
                /\ inode' = [inode EXCEPT ![i].last = IF done THEN inode[i].last + n ELSE 0,
                                          ![i].size = IF done THEN larger ELSE inode[i].size]
                /\ damaged' = (damaged \/ over)
                /\ UNCHANGED <<dir, freeBlocks, crashed>>
  BY Zenon DEF CopyPiece, n
<1> QED BY <1>10, <1>11, <1>12

\* A read moves the offset of its handle, forwards, or brings the process down.
LEMMA ReadStep ==
  ASSUME IInv, NEW t \in Thread, NEW h \in Handle, NEW len \in Lengths, Read(t, h, len)
  PROVE  IInv'
<1> DEFINE off == openFiles[h].offset
           f == inode[openFiles[h].inum]
           n == IF off > f.size THEN len ELSE Min({len, f.size - off})
           rest == UNCHANGED <<inode, dir, freeBlocks, fsData, crashed, damaged>>
<1>1. Typed /\ IndexInv /\ OpenInv BY DEF IInv
<1>2. Starts(t) /\ h \in thread[t].own /\ Counted(t) BY DEF Read
<1>3. f \in Inode /\ off \in Nat BY <1>2, HandleIsFile
<1>4. n \in Nat
  <2>1. len \in Nat /\ f.size \in Nat BY <1>3, SizeAssumption DEF Inode
  <2>2. CASE off > f.size BY <2>1, <2>2
  <2>3. CASE ~(off > f.size)
    <3>1. f.size - off \in Nat BY <1>3, <2>1, <2>3
    <3> QED BY <2>1, <2>3, <3>1, SmallerOf
  <2> QED BY <2>2, <2>3
<1>5. CASE Crash BY <1>2, <1>5, CountedTyped, CrashKeeps
<1>6. CASE rest /\ UNCHANGED openFiles
  <2>1. Typed' BY <1>1, <1>2, <1>6, CountedTyped DEF Typed
  <2>2. OpenInv' BY <1>2, <1>6, CountedTyped, OpenKept
  <2> QED BY <2>1, <2>2, <1>1, <1>6, FilesKept DEF IInv
<1>7. CASE rest /\ openFiles' = [openFiles EXCEPT ![h].offset = off + n]
  <2> HIDE DEF n
  <2>1. off + n \in Nat BY <1>3, <1>4
  <2>2. /\ openFiles' \in [Handle -> [taken : BOOLEAN, inum : 0..(Inodes - 1), offset : Nat]]
        /\ \A j \in Handle : /\ openFiles'[j].taken = openFiles[j].taken
                             /\ openFiles'[j].inum = openFiles[j].inum
    BY <1>1, <1>7, <2>1, OffsetSet
  <2>3. Typed' BY <1>1, <1>2, <1>7, <2>2, CountedTyped DEF Typed
  <2>4. OpenInv' BY <1>2, <1>7, <2>2, CountedTyped, OpenKept
  <2> QED BY <2>3, <2>4, <1>1, <1>7, FilesKept DEF IInv
<1> QED BY <1>5, <1>6, <1>7 DEF Read

-----------------------------------------------------------------------------
(* Types and handles. *)

\* A mounted file system is empty, and nobody uses it.
LEMMA InitIInv == Init => IInv
<1> SUFFICES ASSUME Init PROVE IInv OBVIOUS
<1>1. 0 \in 0..(Inodes - 1) /\ 0 \in Handle /\ 0 \in Block /\ 0 \in 0..BlockSize
  BY Sizes DEF Handle, Block
<1>2. Idle \in Local /\ Idle.pc = "idle" /\ Idle.own = {}
  BY <1>1, SizeAssumption DEF Local, Idle
<1>3. inode \in [File -> Inode] BY <1>1 DEF Init, Inode
<1>4. fsData \in [Address -> Block \cup {-1, Data}] BY <1>1 DEF Init
<1>5. openFiles \in [Handle -> [taken : BOOLEAN, inum : 0..(Inodes - 1), offset : Nat]]
  BY <1>1 DEF Init
<1>6. dir \in Seq([name : Name, inum : File]) /\ Len(dir) <= DirSize /\ DOMAIN dir = {}
  BY Sizes DEF Init
<1>7. thread \in [Thread -> Local] /\ \A t \in Thread : thread[t].pc = "idle" /\ thread[t].own = {}
  BY <1>2 DEF Init
<1>8. Typed BY <1>3, <1>4, <1>5, <1>6, <1>7 DEF Init, Typed
<1>9. IndexInv BY DEF Init, IndexInv
<1>10. OpenInv BY <1>6, <1>7 DEF OpenInv, NameInv, HandleInv, PlaceInv
<1> QED BY <1>8, <1>9, <1>10 DEF IInv

\* Every step of every thread keeps the invariant.
LEMMA NextIInv == IInv /\ [Next]_vars => IInv'
<1> SUFFICES ASSUME IInv, [Next]_vars PROVE IInv' OBVIOUS
<1>1. CASE UNCHANGED vars
  BY <1>1 DEF vars, IInv, Typed, IndexInv, OpenInv, NameInv, HandleInv, PlaceInv, Named
<1>2. ASSUME NEW t \in Thread, NEW name \in Name, NEW flags \in Flags, Lookup(t, name, flags)
      PROVE  IInv' BY <1>2, LookupStep
<1>3. ASSUME NEW t \in Thread, Truncate(t) PROVE IInv' BY <1>3, TruncateStep
<1>4. ASSUME NEW t \in Thread, CreateInode(t) PROVE IInv' BY <1>4, CreateInodeStep
<1>5. ASSUME NEW t \in Thread, LinkName(t) PROVE IInv' BY <1>5, LinkNameStep
<1>6. ASSUME NEW t \in Thread, EnterTable(t) PROVE IInv' BY <1>6, EnterTableStep
<1>7. ASSUME NEW t \in Thread, NEW h \in Handle, Close(t, h) PROVE IInv' BY <1>7, CloseStep
<1>8. ASSUME NEW t \in Thread, NEW h \in Handle, NEW len \in Lengths, BeginWrite(t, h, len)
      PROVE  IInv' BY <1>8, BeginWriteStep
<1>9. ASSUME NEW t \in Thread, NEW h \in Handle, NEW len \in Lengths, Read(t, h, len)
      PROVE  IInv' BY <1>9, ReadStep
<1>10. ASSUME NEW t \in Thread, AllocateDirect(t) PROVE IInv' BY <1>10, AllocateDirectStep
<1>11. ASSUME NEW t \in Thread, AllocateIndirect(t) PROVE IInv' BY <1>11, AllocateIndirectStep
<1>12. ASSUME NEW t \in Thread, CopyPiece(t) PROVE IInv' BY <1>12, CopyPieceStep
<1> QED BY <1>1, <1>2, <1>3, <1>4, <1>5, <1>6, <1>7, <1>8, <1>9, <1>10, <1>11, <1>12
        DEF Next

\* The invariant holds in every state the threads reach.
LEMMA Invariant == Spec => []IInv
BY InitIInv, NextIInv, PTL DEF Spec

\* A number is only torn by a write that leaves its block.
TearInv == torn \in BOOLEAN /\ (torn => damaged)

\* No step forgets that a number was torn, or that a write left its block.
LEMMA MarksStay ==
  ASSUME TearInv, [Next]_vars
  PROVE  TearInv' /\ (torn => torn') /\ (damaged => damaged')
<1>1. ASSUME UNCHANGED torn, damaged => damaged'
      PROVE  TearInv' /\ (torn => torn') /\ (damaged => damaged')
  <2>1. torn' \in BOOLEAN BY <1>1 DEF TearInv
  <2>2. torn' => damaged' BY <1>1, Zenon DEF TearInv
  <2> QED BY <1>1, <2>1, <2>2, Zenon DEF TearInv
<1>2. CASE UNCHANGED vars
  <2>1. UNCHANGED <<torn, damaged>> BY <1>2 DEF vars
  <2> QED BY <1>1, <2>1, Zenon
<1>3. ASSUME NEW t \in Thread,
             \/ \E name \in Name, flags \in Flags : Lookup(t, name, flags)
             \/ Truncate(t) \/ LinkName(t) \/ EnterTable(t)
             \/ \E h \in Handle : Close(t, h)
             \/ \E h \in Handle, len \in Lengths : Read(t, h, len)
      PROVE  UNCHANGED torn /\ (damaged => damaged')
  <2>1. UNCHANGED <<damaged, torn>>
    BY <1>3 DEF Lookup, Truncate, LinkName, EnterTable, Close, Read, Crash
  <2> QED BY <2>1, Zenon
<1>4. ASSUME NEW t \in Thread,
             \/ CreateInode(t) \/ AllocateDirect(t) \/ AllocateIndirect(t)
             \/ \E h \in Handle, len \in Lengths : BeginWrite(t, h, len)
      PROVE  UNCHANGED torn /\ (damaged => damaged')
  <2>1. UNCHANGED torn
    BY <1>4 DEF CreateInode, AllocateDirect, AllocateIndirect, BeginWrite, Crash
  <2>2. ASSUME damaged PROVE damaged'
    <3>1. CASE CreateInode(t) BY <2>2, <3>1, Zenon DEF CreateInode, Allocated
    <3>2. CASE AllocateDirect(t) BY <2>2, <3>2, Zenon DEF AllocateDirect, Allocated
    <3>3. CASE AllocateIndirect(t)
      BY <2>2, <3>3, Zenon DEF AllocateIndirect, Allocated, Crash
    <3>4. CASE \E h \in Handle, len \in Lengths : BeginWrite(t, h, len)
      BY <2>2, <3>4, Zenon DEF BeginWrite, Allocated, Crash
    <3> QED BY <1>4, <3>1, <3>2, <3>3, <3>4
  <2> QED BY <2>1, <2>2
<1>5. ASSUME NEW t \in Thread, CopyPiece(t)
      PROVE  TearInv' /\ (torn => torn') /\ (damaged => damaged')
  <2>1. CASE Crash
    <3>1. UNCHANGED <<torn, damaged>> BY <2>1 DEF Crash
    <3> QED BY <1>1, <3>1, Zenon
  <2>2. ASSUME NEW b, NEW from, NEW end, NEW a, NEW v \in Overwritten(b, from, end, a),
               torn' = (torn \/ v # Data), damaged' = (damaged \/ end > BlockSize)
        PROVE  TearInv' /\ (torn => torn') /\ (damaged => damaged')
    <3>1. v # Data => end > BlockSize BY <2>2 DEF Overwritten
    <3>2. torn' \in BOOLEAN BY <2>2, Zenon DEF TearInv
    <3> QED BY <2>2, <3>1, <3>2, Zenon DEF TearInv
  <2>3. Crash \/ \E b, from, end, a : \E v \in Overwritten(b, from, end, a) :
                    torn' = (torn \/ v # Data) /\ damaged' = (damaged \/ end > BlockSize)
    BY <1>5, Zenon DEF CopyPiece
  <2> QED BY <2>1, <2>2, <2>3, Zenon
<1>6. CASE Next
  <2>1. PICK t \in Thread :
          \/ \E name \in Name, flags \in Flags : Lookup(t, name, flags)
          \/ Truncate(t) \/ CreateInode(t) \/ LinkName(t) \/ EnterTable(t)
          \/ \E h \in Handle : Close(t, h)
          \/ \E h \in Handle, len \in Lengths : BeginWrite(t, h, len) \/ Read(t, h, len)
          \/ AllocateDirect(t) \/ AllocateIndirect(t) \/ CopyPiece(t)
    BY <1>6 DEF Next
  <2> QED BY <1>1, <1>3, <1>4, <1>5, <2>1, Zenon
<1> QED BY <1>2, <1>6

\* A mounted file system has no torn numbers.
LEMMA Marks == Spec => []TearInv
<1>1. Init => TearInv BY DEF Init, TearInv
<1>2. TearInv /\ [Next]_vars => TearInv' BY MarksStay
<1> QED BY <1>1, <1>2, PTL DEF Spec

\* However many threads open, write and close files, and whatever fails, the
\* tables keep their types: a directory is never overfull and an inode never
\* names a block that does not exist.
THEOREM TypeCorrect == Spec => []TypeOK
<1>1. IInv /\ TearInv => TypeOK BY DEF IInv, TearInv, TypeOK
<1> QED BY <1>1, Invariant, Marks, PTL

\* A handle that tfs_open returned is its thread's alone until it is closed, and
\* leads to a file that the directory names, under one name only, even when
\* another thread ran out of entries or handles half way through its own open.
THEOREM HandlesAreFiles == Spec => []HandlesLeadToFiles
<1>1. IInv => HandlesLeadToFiles
  BY DEF IInv, OpenInv, NameInv, HandleInv, HandlesLeadToFiles, Named
<1> QED BY <1>1, Invariant, PTL

-----------------------------------------------------------------------------
(* The blocks. *)

\* The places of the whole file system that may name a block: direct block k of
\* file n, the index block of file n, and what lies at address n, be it in an
\* index block, in a free block or in a block of text.
Place(d, n, k) == \/ d = "direct" /\ n \in File /\ k \in 0..(Direct - 1)
                  \/ d = "index" /\ n \in File /\ k = 0 /\ Indexed(n)
                  \/ d = "cell" /\ n \in Address /\ k = 0
Value(d, n, k) == CASE d = "direct" -> inode[n].direct[k]
                    [] d = "index"  -> inode[n].index
                    [] d = "cell"   -> fsData[n]
Holds(d, n, k, x) == Place(d, n, k) /\ Value(d, n, k) = x /\ x \in Block \ {0}

\* A block that a place names is not free, and no other place names it.
AloneInv ==
  \A d, n, k, x : Holds(d, n, k, x) =>
    /\ x \notin freeBlocks
    /\ \A e, m, l : Holds(e, m, l, x) => e = d /\ m = n /\ l = k

\* A file never had the directory's block among its direct ones.
DirectInv == \A i \in File : inode[i].taken => \A k \in 0..(Direct - 1) : inode[i].direct[k] # 0

BlockInv == AloneInv /\ DirectInv

\* A step that takes at most one block from the map, for one place, and leaves
\* the other places as they are or empties them.
LEMMA Allocation ==
  ASSUME AloneInv, NEW b, b \in freeBlocks \cup {-1},
         freeBlocks' \subseteq freeBlocks \ {b}, NEW e, NEW m, NEW l,
         \A d, n, k, x : Holds(d, n, k, x)' =>
           Holds(d, n, k, x) \/ (x = b /\ d = e /\ n = m /\ k = l)
  PROVE  AloneInv'
<1>1. \A d, n, k, x : Holds(d, n, k, x)' => x # -1 BY DEF Holds, Block
<1>2. \A d, n, k, x : Holds(d, n, k, x) => x \notin freeBlocks BY DEF AloneInv
<1>3. \A d, n, k, x : Holds(d, n, k, x)' => x \notin freeBlocks' BY <1>1, <1>2
<1>4. ASSUME NEW d, NEW n, NEW k, NEW x, Holds(d, n, k, x)',
             NEW d2, NEW n2, NEW k2, Holds(d2, n2, k2, x)'
      PROVE  d2 = d /\ n2 = n /\ k2 = k
  <2>1. CASE x = b
    <3>1. x \in freeBlocks BY <1>1, <1>4, <2>1
    <3> QED BY <1>2, <1>4, <3>1
  <2>2. CASE x # b
    <3>1. Holds(d, n, k, x) /\ Holds(d2, n2, k2, x) BY <1>4, <2>2
    <3> QED BY <3>1 DEF AloneInv
  <2> QED BY <2>1, <2>2
<1> QED BY <1>3, <1>4, Zenon DEF AloneInv

\* A step that gives a block back, and takes it from the place that named it.
LEMMA Release ==
  ASSUME AloneInv, NEW x, freeBlocks' \subseteq freeBlocks \cup {x},
         \A d, n, k, y : Holds(d, n, k, y)' => Holds(d, n, k, y) /\ y # x
  PROVE  AloneInv'
BY DEF AloneInv

\* The same, with what becomes of the direct blocks, the index blocks and the
\* addresses.
LEMMA BlocksTaken ==
  ASSUME Typed, AloneInv, NEW b, b \in freeBlocks \cup {-1},
         freeBlocks' \subseteq freeBlocks \ {b}, NEW e, NEW m, NEW l,
         \A i \in File : \A k \in 0..(Direct - 1) :
           \/ inode'[i].direct[k] \in {inode[i].direct[k], -1}
           \/ inode'[i].direct[k] = b /\ e = "direct" /\ m = i /\ l = k,
         \A i \in File : Indexed(i)' =>
           \/ Indexed(i) /\ inode'[i].index = inode[i].index
           \/ inode'[i].index = b /\ e = "index" /\ m = i /\ l = 0,
         \A a \in Address :
           \/ fsData'[a] \in {fsData[a], -1, Data}
           \/ fsData'[a] = b /\ e = "cell" /\ m = a /\ l = 0
  PROVE  AloneInv'
<1>1. ASSUME NEW d, NEW n, NEW k, NEW x, Holds(d, n, k, x)'
      PROVE  Holds(d, n, k, x) \/ (x = b /\ d = e /\ n = m /\ k = l)
  <2>0. x \in Block \ {0} /\ x # -1 /\ x # Data BY <1>1 DEF Holds, Block, Data
  <2>1. CASE d = "direct"
    <3>1. n \in File /\ k \in 0..(Direct - 1) /\ inode'[n].direct[k] = x
      BY <1>1, <2>1 DEF Holds, Place, Value
    <3> QED BY <2>0, <2>1, <3>1 DEF Holds, Place, Value
  <2>2. CASE d = "index"
    <3>1. n \in File /\ k = 0 /\ inode'[n].index = x /\ Indexed(n)'
      BY <1>1, <2>2 DEF Holds, Place, Value
    <3> QED BY <2>0, <2>2, <3>1 DEF Holds, Place, Value
  <2>3. CASE d = "cell"
    <3>1. n \in Address /\ k = 0 /\ fsData'[n] = x
      BY <1>1, <2>3 DEF Holds, Place, Value
    <3> QED BY <2>0, <2>3, <3>1 DEF Holds, Place, Value
  <2> QED BY <1>1, <2>1, <2>2, <2>3 DEF Holds, Place
<1> QED BY <1>1, Allocation

\* No writer comes to an inode by a step of a thread that does not begin to
\* write, and that leaves the open handles to lead where they led.
LEMMA NoWriterCame ==
  ASSUME IInv, NEW t \in Thread, \A u \in Thread \ {t} : thread'[u] = thread[u],
         thread'[t].pc = "write" => thread[t].pc = "write" /\ thread'[t].h = thread[t].h,
         \A h \in Handle : openFiles[h].taken => openFiles'[h].inum = openFiles[h].inum
  PROVE  \A i : Busy(i)' => Busy(i)
<1> SUFFICES ASSUME NEW i, Busy(i)' PROVE Busy(i) OBVIOUS
<1>1. PICK u \in Thread : thread'[u].pc = "write" /\ openFiles'[thread'[u].h].inum = i
  BY DEF Busy
<1>2. thread[u].pc = "write" /\ thread'[u].h = thread[u].h BY <1>1
<1>3. thread[u].h \in thread[u].own /\ thread[u].h \in Handle BY <1>2, WriterHasFile
<1>4. openFiles[thread[u].h].taken BY <1>3 DEF IInv, OpenInv, HandleInv
<1> QED BY <1>1, <1>2, <1>3, <1>4 DEF Busy

\* The inode a thread writes to is locked.
LEMMA WriterIsBusy ==
  ASSUME IInv, NEW t \in Thread, thread[t].pc = "write"
  PROVE  Busy(openFiles[thread[t].h].inum)
BY DEF Busy

\* A step that touches no inode and no block, and starts no write.
LEMMA BlocksKept ==
  ASSUME IInv, BlockInv, UNCHANGED <<inode, freeBlocks, fsData>>, \A i : Busy(i)' => Busy(i)
  PROVE  BlockInv'
<1>1. Typed /\ AloneInv /\ DirectInv BY DEF IInv, BlockInv
<1>2. DirectInv' BY <1>1 DEF DirectInv
<1>3. \A i \in File : Indexed(i)' => Indexed(i) BY DEF Indexed
<1>4. freeBlocks' \subseteq freeBlocks \ {-1} BY <1>1 DEF Typed, Block
<1>5. AloneInv'
  <2>1. -1 \in freeBlocks \cup {-1} OBVIOUS
  <2> QED BY <1>1, <1>3, <1>4, <2>1, BlocksTaken
<1> QED BY <1>2, <1>5 DEF BlockInv

\* What the threads' fields become where the others leave them.
LEMMA PcLeft ==
  ASSUME IInv, NEW t \in Thread
  PROVE  /\ Leave(t) => thread'[t].pc = "idle"
         /\ Starts(t) /\ Counted(t) => thread'[t].pc = "idle"
         /\ NextI(t) => thread'[t].pc = thread[t].pc /\ thread'[t].h = thread[t].h
         /\ Leave(t) \/ Counted(t) \/ NextI(t) => \A u \in Thread \ {t} : thread'[u] = thread[u]
<1>1. thread \in [Thread -> Local] /\ thread[t] \in Local /\ thread[t].own \in SUBSET Handle
  BY ThreadTyped DEF IInv, Typed
<1>2. Leave(t) => thread'[t].pc = "idle" /\ \A u \in Thread \ {t} : thread'[u] = thread[u]
  BY <1>1, EndTyped DEF IInv, Leave
<1>3. NextI(t) => /\ thread'[t].pc = thread[t].pc /\ thread'[t].h = thread[t].h
                  /\ \A u \in Thread \ {t} : thread'[u] = thread[u]
  <2>1. thread[t].i + 1 \in Nat BY ThreadTyped DEF IInv
  <2>2. NextI(t) => thread' = [thread EXCEPT ![t] = [thread[t] EXCEPT !.i = thread[t].i + 1]]
    BY DEF NextI
  <2> QED BY <1>1, <2>1, <2>2 DEF Local
<1>4. Counted(t) => /\ thread'[t].pc = thread[t].pc
                    /\ \A u \in Thread \ {t} : thread'[u] = thread[u]
  <2>2. Counted(t) => thread' = [thread EXCEPT ![t] = [thread[t] EXCEPT !.ops = thread[t].ops + 1]]
    BY DEF Counted
  <2> QED BY <1>1, <2>2 DEF Local
<1> QED BY <1>2, <1>3, <1>4 DEF Starts

\* A step of t that neither begins nor goes on with a write, and is t's alone.
NoWrite(t) == thread'[t].pc # "write" /\ \A u \in Thread \ {t} : thread'[u] = thread[u]

LEMMA PartsOfOpen ==
  ASSUME IInv, NEW t \in Thread,
         \/ \E name \in Name, flags \in Flags : Lookup(t, name, flags)
         \/ Truncate(t) \/ CreateInode(t) \/ LinkName(t)
  PROVE  NoWrite(t)
<1>1. thread \in [Thread -> Local] /\ thread[t] \in Local BY ThreadTyped DEF IInv, Typed
<1>2. CASE Leave(t) BY <1>2, PcLeft DEF NoWrite
<1>3. CASE Starts(t) /\ Counted(t) BY <1>3, PcLeft DEF NoWrite
<1>4. ASSUME NEW name \in Name, NEW flags \in Flags, Lookup(t, name, flags) PROVE NoWrite(t)
  <2>1. CASE Counted(t) BY <1>3, <1>4, <2>1 DEF Lookup
  <2>2. CASE thread' = [thread EXCEPT ![t] =
               [thread[t] EXCEPT !.ops = thread[t].ops + 1, !.pc = "create", !.name = name]]
    BY <1>1, <2>2 DEF Local, NoWrite
  <2>3. CASE thread' = [thread EXCEPT ![t] =
               [thread[t] EXCEPT !.ops = thread[t].ops + 1, !.pc = "truncate",
                                 !.flags = flags, !.inum = Find(name)]]
    <3> DEFINE i == Find(name)
    <3>1. thread' = [thread EXCEPT ![t] =
               [thread[t] EXCEPT !.ops = thread[t].ops + 1, !.pc = "truncate",
                                 !.flags = flags, !.inum = i]] BY <2>3
    <3> HIDE DEF i
    <3> QED BY <1>1, <3>1 DEF Local, NoWrite
  <2> QED BY <1>4, <2>1, <2>2, <2>3 DEF Lookup
<1>5. CASE Truncate(t)
  <2> DEFINE c == thread[t]
             f == inode[c.inum]
             cut == "trunc" \in c.flags /\ f.size > 0
             o == IF "append" \in c.flags /\ ~cut THEN f.size ELSE 0
  <2>1. CASE thread' = [thread EXCEPT ![t].pc = "enter", ![t].offset = o]
    <3> HIDE DEF o
    <3> QED BY <1>1, <2>1 DEF Local, NoWrite
  <2> QED BY <1>2, <1>5, <2>1 DEF Truncate
<1>6. CASE CreateInode(t)
  <2> DEFINE i == LowestOr({j \in File : ~inode[j].taken}, -1)
  <2>1. CASE thread' = [thread EXCEPT ![t].pc = "link", ![t].inum = i]
    <3> HIDE DEF i
    <3> QED BY <1>1, <2>1 DEF Local, NoWrite
  <2> QED BY <1>2, <1>6, <2>1 DEF CreateInode
<1>7. CASE LinkName(t)
  <2>1. CASE GoTo(t, "enter") BY <1>1, <2>1 DEF Local, GoTo, NoWrite
  <2> QED BY <1>2, <1>7, <2>1 DEF LinkName
<1> QED BY <1>4, <1>5, <1>6, <1>7

\* A handle is entered in a place that was free, so no writer uses it.
LEMMA EntersFree ==
  ASSUME IInv, NEW t \in Thread, EnterTable(t)
  PROVE  /\ NoWrite(t)
         /\ \A j \in Handle : openFiles[j].taken => openFiles'[j] = openFiles[j]
<1> DEFINE h == LowestOr({j \in Handle : ~openFiles[j].taken}, -1)
           c == thread[t]
<1>1. Typed BY DEF IInv
<1>2. CASE Leave(t) /\ UNCHANGED openFiles BY <1>2, PcLeft DEF NoWrite
<1>3. CASE /\ h # -1 /\ End(t, c.own \cup {h})
           /\ openFiles' = [openFiles EXCEPT ![h] = [taken |-> TRUE, inum |-> c.inum,
                                                     offset |-> c.offset]]
  <2>1. h \in Handle /\ ~openFiles[h].taken
    <3>1. {j \in Handle : ~openFiles[j].taken} \in SUBSET Nat BY Sizes DEF Handle
    <3> QED BY <1>3, <3>1, LowestIsIn
  <2>2. c.own \cup {h} \in SUBSET Handle BY <1>1, <2>1, ThreadTyped
  <2> HIDE DEF h
  <2>3. \A j \in Handle : openFiles[j].taken => openFiles'[j] = openFiles[j]
    BY <1>1, <1>3, <2>1 DEF Typed
  <2>4. NoWrite(t) BY <1>1, <1>3, <2>2, EndTyped DEF NoWrite
  <2> QED BY <2>3, <2>4
<1> QED BY <1>2, <1>3 DEF EnterTable

\* So do closing and reading.
LEMMA Closes ==
  ASSUME IInv, NEW t \in Thread, NEW h \in Handle, Close(t, h)
  PROVE  /\ NoWrite(t) /\ h \in thread[t].own
         /\ \A j \in Handle : openFiles'[j].inum = openFiles[j].inum
         /\ \A j \in Handle \ {h} : openFiles'[j] = openFiles[j]
<1>1. /\ Starts(t) /\ h \in thread[t].own
      /\ openFiles' = [openFiles EXCEPT ![h] = [openFiles[h] EXCEPT !.taken = FALSE]]
      /\ thread' = [thread EXCEPT ![t] = [thread[t] EXCEPT !.own = thread[t].own \ {h},
                                                           !.ops = thread[t].ops + 1]]
  BY DEF Close
<1>2. thread \in [Thread -> Local] /\ thread[t] \in Local /\ thread[t].pc = "idle"
  BY <1>1 DEF IInv, Typed, Starts
<1>3. NoWrite(t) BY <1>1, <1>2 DEF Local, NoWrite
<1>4. /\ \A j \in Handle : openFiles'[j].inum = openFiles[j].inum
      /\ \A j \in Handle \ {h} : openFiles'[j] = openFiles[j]
  BY <1>1 DEF IInv, Typed
<1> QED BY <1>1, <1>3, <1>4

LEMMA Reads ==
  ASSUME IInv, NEW t \in Thread, NEW h \in Handle, NEW len \in Lengths, Read(t, h, len)
  PROVE  /\ NoWrite(t) /\ h \in thread[t].own
         /\ \A j \in Handle : openFiles'[j].inum = openFiles[j].inum
         /\ \A j \in Handle \ {h} : openFiles'[j] = openFiles[j]
<1> DEFINE off == openFiles[h].offset
           f == inode[openFiles[h].inum]
           n == IF off > f.size THEN len ELSE Min({len, f.size - off})
           o == off + n
<1>1. Starts(t) /\ Counted(t) /\ h \in thread[t].own BY DEF Read
<1>2. UNCHANGED openFiles \/ openFiles' = [openFiles EXCEPT ![h].offset = o]
  BY DEF Read, Crash
<1> HIDE DEF o
<1>3. /\ \A j \in Handle : openFiles'[j].inum = openFiles[j].inum
      /\ \A j \in Handle \ {h} : openFiles'[j] = openFiles[j]
  <2>1. openFiles \in [Handle -> [taken : BOOLEAN, inum : 0..(Inodes - 1), offset : Nat]]
    BY DEF IInv, Typed
  <2>2. CASE openFiles' = [openFiles EXCEPT ![h].offset = o] BY <2>1, <2>2
  <2> QED BY <1>2, <2>2
<1>4. NoWrite(t) BY <1>1, PcLeft DEF NoWrite
<1> QED BY <1>1, <1>3, <1>4

-----------------------------------------------------------------------------
(* The steps and the blocks. *)

LEMMA LookupBlocks ==
  ASSUME IInv, BlockInv, NEW t \in Thread, NEW name \in Name, NEW flags \in Flags,
         Lookup(t, name, flags)
  PROVE  BlockInv'
<1>1. UNCHANGED <<inode, freeBlocks, fsData, openFiles>> BY DEF Lookup
<1>2. NoWrite(t) BY PartsOfOpen
<1> QED BY <1>1, <1>2, NoWriterCame, BlocksKept DEF NoWrite

\* A file that is cut has no writer, and is not indexed any more.
LEMMA TruncateBlocks ==
  ASSUME IInv, BlockInv, NEW t \in Thread, Truncate(t)
  PROVE  BlockInv'
<1> DEFINE c == thread[t]
           i == c.inum
           f == inode[i]
           cut == "trunc" \in c.flags /\ f.size > 0
<1>1. UNCHANGED <<dir, fsData, openFiles>> /\ c.pc = "truncate" /\ ~Busy(i) BY DEF Truncate
<1>2. Typed /\ NameInv /\ PlaceInv(t) /\ AloneInv /\ DirectInv
  BY DEF IInv, OpenInv, BlockInv
<1>3. i \in File /\ f \in Inode /\ f.taken /\ inode \in [File -> Inode]
  <2>1. Named(i) BY <1>1, <1>2 DEF PlaceInv
  <2> QED BY <1>2, <2>1, NamedIsFile DEF Typed
<1>4. NoWrite(t) BY PartsOfOpen
<1>5. \A j : Busy(j)' => Busy(j) BY <1>1, <1>4, NoWriterCame DEF NoWrite
<1>6. CASE UNCHANGED <<inode, freeBlocks>> BY <1>1, <1>5, <1>6, BlocksKept
<1>7. CASE /\ cut /\ f.index # -1
           /\ inode' = [inode EXCEPT ![i].size = 0]
           /\ freeBlocks' = freeBlocks \cup {f.index}
  <2> DEFINE g == [f EXCEPT !.size = 0]
  <2>1. /\ g.taken = f.taken /\ g.index = f.index /\ g.size = 0 /\ g.direct = f.direct
    BY <1>3 DEF Inode
  <2>2. inode' = [inode EXCEPT ![i] = g] BY <1>7
  <2>3. Indexed(i) /\ f.index \in Block \ {0}
    BY <1>3, <1>7 DEF Indexed, IInv, IndexInv, Inode
  <2>4. PICK k \in File : k = i BY <1>3
  <2>5. PICK y : y = f.index OBVIOUS
  <2> HIDE DEF g, cut
  <2>6. \A j \in File \ {k} : inode'[j] = inode[j] BY <1>3, <2>2, <2>4
  <2>7. inode'[k] = g BY <1>3, <2>2, <2>4
  <2>8. /\ \A j \in File : inode'[j].direct = inode[j].direct /\ inode'[j].index = inode[j].index
                           /\ inode'[j].taken = inode[j].taken
        /\ inode'[k].size = 0
    BY <2>1, <2>4, <2>6, <2>7
  <2>9. \A j \in File \ {k} : Indexed(j)' => Indexed(j) BY <1>5, <2>6 DEF Indexed
  <2>10. ~Indexed(k)' BY <1>1, <1>5, <2>4, <2>8 DEF Indexed
  <2>11. Holds("index", k, 0, y)
    BY <2>3, <2>4, <2>5 DEF Holds, Place, Value
  <2> HIDE DEF i
  <2>12. ASSUME NEW d, NEW n, NEW l, NEW x, Holds(d, n, l, x)'
         PROVE  Holds(d, n, l, x) /\ x # y
    <3>1. ~(d = "index" /\ n = k) BY <2>10, <2>12 DEF Holds, Place
    <3>2. Holds(d, n, l, x)
      <4>1. CASE d = "direct" BY <2>8, <2>12, <4>1 DEF Holds, Place, Value
      <4>2. CASE d = "index" BY <2>8, <2>9, <2>12, <3>1, <4>2 DEF Holds, Place, Value
      <4>3. CASE d = "cell" BY <1>1, <2>12, <4>3 DEF Holds, Place, Value
      <4> QED BY <2>12, <4>1, <4>2, <4>3 DEF Holds, Place
    <3>3. x # y BY <1>2, <2>11, <3>1, <3>2 DEF AloneInv
    <3> QED BY <3>2, <3>3
  <2>13. freeBlocks' \subseteq freeBlocks \cup {y} BY <1>7, <2>5
  <2>14. AloneInv' BY <1>2, <2>12, <2>13, Release
  <2>15. DirectInv' BY <1>2, <2>8 DEF DirectInv
  <2> QED BY <2>14, <2>15 DEF BlockInv
<1>8. UNCHANGED <<inode, freeBlocks>>
      \/ /\ cut /\ f.index # -1
         /\ inode' = [inode EXCEPT ![i].size = 0]
         /\ freeBlocks' = freeBlocks \cup {f.index}
  BY DEF Truncate
<1> QED BY <1>6, <1>7, <1>8

\* A new inode has a block that no place names until the first write.
LEMMA CreateInodeBlocks ==
  ASSUME IInv, BlockInv, NEW t \in Thread, CreateInode(t)
  PROVE  BlockInv'
<1> DEFINE i == LowestOr({j \in File : ~inode[j].taken}, -1)
           b == NextBlock
           empty == [k \in 0..(Direct - 1) |-> -1]
           new == [inode[i] EXCEPT !.taken = TRUE, !.size = 0, !.index = b, !.direct = empty]
<1>1. UNCHANGED <<dir, openFiles>> /\ thread[t].pc = "create" BY DEF CreateInode
<1>2. Typed /\ OpenInv /\ AloneInv /\ DirectInv BY DEF IInv, BlockInv
<1>3. NoWrite(t) BY PartsOfOpen
<1>4. \A j : Busy(j)' => Busy(j) BY <1>1, <1>3, NoWriterCame DEF NoWrite
<1>5. CASE UNCHANGED <<inode, freeBlocks, fsData>> BY <1>4, <1>5, BlocksKept
<1>6. CASE /\ i # -1 /\ b # -1
           /\ inode' = [inode EXCEPT ![i] = new]
           /\ fsData' = [a \in Address |-> IF a \div Entries = b THEN -1 ELSE fsData[a]]
           /\ freeBlocks' = freeBlocks \ {b}
  <2>1. i \in File /\ ~inode[i].taken
    <3>1. {j \in File : ~inode[j].taken} \in SUBSET Nat BY Sizes DEF File
    <3> QED BY <1>6, <3>1, LowestIsIn
  <2>2. inode \in [File -> Inode] /\ inode[i] \in Inode BY <1>2, <2>1 DEF Typed
  <2>3. /\ new.taken /\ new.size = 0
        /\ \A l \in 0..(Direct - 1) : new.direct[l] = -1
    BY <2>2 DEF Inode
  <2>4. b \in freeBlocks \cup {-1} BY <1>2, BlockAllocated
  <2>5. ~Busy(i)
    <3>1. ASSUME NEW u \in Thread, thread[u].pc = "write" PROVE openFiles[thread[u].h].inum # i
      <4>1. thread[u].h \in thread[u].own BY <3>1, WriterHasFile
      <4>2. inode[openFiles[thread[u].h].inum].taken BY <4>1, HandleIsFile
      <4> QED BY <2>1, <4>2
    <3> QED BY <3>1 DEF Busy
  <2>6. PICK k \in File : k = i BY <2>1
  <2> HIDE DEF i, b, new, empty
  <2>7. inode'[k] = new /\ \A j \in File \ {k} : inode'[j] = inode[j]
    BY <1>6, <2>2, <2>6
  <2>8. \A l \in 0..(Direct - 1) : inode'[k].direct[l] = -1 BY <2>3, <2>7
  <2>9. \A j \in File : Indexed(j)' => Indexed(j) /\ inode'[j].index = inode[j].index
    BY <1>4, <2>3, <2>5, <2>6, <2>7 DEF Indexed
  <2>10. \A a \in Address : fsData'[a] \in {fsData[a], -1} BY <1>6
  <2>11. freeBlocks' \subseteq freeBlocks \ {b} BY <1>6
  <2>12. \A j \in File : \A l \in 0..(Direct - 1) :
           inode'[j].direct[l] \in {inode[j].direct[l], -1} BY <2>7, <2>8
  <2>13. AloneInv' BY <1>2, <2>4, <2>9, <2>10, <2>11, <2>12, BlocksTaken
  <2>14. DirectInv' BY <1>2, <2>7, <2>8 DEF DirectInv
  <2> QED BY <2>13, <2>14 DEF BlockInv
<1>7. UNCHANGED <<inode, freeBlocks, fsData>>
      \/ /\ i # -1 /\ b # -1
         /\ inode' = [inode EXCEPT ![i] = new]
         /\ fsData' = [a \in Address |-> IF a \div Entries = b THEN -1 ELSE fsData[a]]
         /\ freeBlocks' = freeBlocks \ {b}
  BY DEF CreateInode, Allocated
<1> QED BY <1>5, <1>6, <1>7

\* An inode that goes back takes its place with it.
LEMMA LinkNameBlocks ==
  ASSUME IInv, BlockInv, NEW t \in Thread, LinkName(t)
  PROVE  BlockInv'
<1> DEFINE i == thread[t].inum
<1>1. UNCHANGED <<freeBlocks, fsData, openFiles>> /\ thread[t].pc = "link" BY DEF LinkName
<1>2. Typed /\ AloneInv /\ DirectInv /\ PlaceInv(t) BY DEF IInv, OpenInv, BlockInv
<1>3. NoWrite(t) BY PartsOfOpen
<1>4. \A j : Busy(j)' => Busy(j) BY <1>1, <1>3, NoWriterCame DEF NoWrite
<1>5. CASE UNCHANGED inode BY <1>1, <1>4, <1>5, BlocksKept
<1>6. CASE inode' = [inode EXCEPT ![i].taken = FALSE]
  <2>1. PICK k \in File : k = i BY <1>1, <1>2 DEF PlaceInv
  <2> DEFINE g == [inode[k] EXCEPT !.taken = FALSE]
  <2>2. inode \in [File -> Inode] /\ inode[k] \in Inode BY <1>2 DEF Typed
  <2>3. ~g.taken /\ g.direct = inode[k].direct BY <2>2 DEF Inode
  <2>4. inode' = [inode EXCEPT ![k] = g] BY <1>6, <2>1
  <2> HIDE DEF g
  <2>5. inode'[k] = g /\ \A j \in File \ {k} : inode'[j] = inode[j] BY <2>2, <2>4
  <2>6. \A j \in File : /\ inode'[j].direct = inode[j].direct
                        /\ inode'[j].taken => inode[j].taken
                        /\ Indexed(j)' => Indexed(j) /\ inode'[j].index = inode[j].index
    BY <1>4, <2>3, <2>5 DEF Indexed
  <2>7. freeBlocks' \subseteq freeBlocks \ {-1} BY <1>1, <1>2 DEF Typed, Block
  <2>8. -1 \in freeBlocks \cup {-1} OBVIOUS
  <2>9. AloneInv' BY <1>1, <1>2, <2>6, <2>7, <2>8, BlocksTaken
  <2>10. DirectInv' BY <1>2, <2>6 DEF DirectInv
  <2> QED BY <2>9, <2>10 DEF BlockInv
<1> QED BY <1>5, <1>6 DEF LinkName

LEMMA EnterTableBlocks ==
  ASSUME IInv, BlockInv, NEW t \in Thread, EnterTable(t)
  PROVE  BlockInv'
<1>1. UNCHANGED <<inode, freeBlocks, fsData>> BY DEF EnterTable
<1> QED BY <1>1, EntersFree, NoWriterCame, BlocksKept DEF NoWrite

LEMMA CloseBlocks ==
  ASSUME IInv, BlockInv, NEW t \in Thread, NEW h \in Handle, Close(t, h)
  PROVE  BlockInv'
<1>1. UNCHANGED <<inode, freeBlocks, fsData>> BY DEF Close
<1> QED BY <1>1, Closes, NoWriterCame, BlocksKept DEF NoWrite

\* An empty file that is written to gets the block it has just been given.
LEMMA BeginWriteBlocks ==
  ASSUME IInv, BlockInv, NEW t \in Thread, NEW h \in Handle, NEW len \in Lengths,
         BeginWrite(t, h, len)
  PROVE  BlockInv'
<1> DEFINE i == openFiles[h].inum
           off == openFiles[h].offset
           n == IF len + off > MaxSize THEN MaxSize - off ELSE len
           b == NextBlock
<1>1. Typed /\ AloneInv /\ DirectInv BY DEF IInv, BlockInv
<1>2. /\ Starts(t) /\ h \in thread[t].own /\ ~Busy(i)
      /\ UNCHANGED <<dir, fsData, openFiles>>
  BY DEF BeginWrite, Crash
<1>3. i \in File /\ inode[i] \in Inode /\ inode \in [File -> Inode]
  BY <1>1, <1>2, HandleIsFile DEF Typed
<1>4. CASE Counted(t) /\ UNCHANGED <<inode, freeBlocks>>
  BY <1>2, <1>4, PcLeft, NoWriterCame, BlocksKept
<1>5. CASE /\ thread' = [thread EXCEPT ![t] =
                [thread[t] EXCEPT !.ops = @ + 1, !.pc = "write", !.h = h, !.n = n, !.i = 0]]
           /\ IF inode[i].size = 0
              THEN inode' = [inode EXCEPT ![i].index = b] /\ freeBlocks' = freeBlocks \ {b}
              ELSE UNCHANGED <<inode, freeBlocks>>
  <2>1. thread'[t].h = h /\ \A u \in Thread \ {t} : thread'[u] = thread[u]
    <3> HIDE DEF n
    <3>1. thread \in [Thread -> Local] /\ thread[t] \in Local BY <1>1, ThreadTyped DEF Typed
    <3> QED BY <1>5, <3>1 DEF Local
  <2>2. PICK k \in File : k = i BY <1>3
  <2>3. ASSUME NEW j \in File, j # k, Busy(j)' PROVE Busy(j)
    <3>1. PICK u \in Thread : thread'[u].pc = "write" /\ openFiles[thread'[u].h].inum = j
      BY <1>2, <2>3 DEF Busy
    <3> HIDE DEF i
    <3>2. u # t BY <2>1, <2>2, <2>3, <3>1 DEF i
    <3> QED BY <2>1, <3>1, <3>2 DEF Busy
  <2>4. b \in freeBlocks \cup {-1} /\ -1 \notin freeBlocks BY <1>1, BlockAllocated DEF Typed, Block
  <2>5. CASE inode[i].size # 0
    <3>1. UNCHANGED <<inode, freeBlocks>> BY <1>5, <2>5
    <3>2. \A j \in File : Indexed(j)' => Indexed(j)
      <4>1. inode[k].size > 0 BY <1>3, <2>2, <2>5 DEF Inode
      <4> QED BY <2>3, <3>1, <4>1 DEF Indexed
    <3>3. -1 \in freeBlocks \cup {-1} /\ freeBlocks' \subseteq freeBlocks \ {-1}
      BY <2>4, <3>1
    <3>4. AloneInv' BY <1>1, <1>2, <3>1, <3>2, <3>3, BlocksTaken
    <3>5. DirectInv' BY <1>1, <3>1 DEF DirectInv
    <3> QED BY <3>4, <3>5 DEF BlockInv
  <2>6. CASE inode[i].size = 0
    <3> DEFINE g == [inode[k] EXCEPT !.index = b]
    <3>1. /\ g.index = b /\ g.direct = inode[k].direct /\ g.taken = inode[k].taken
      BY <1>3, <2>2 DEF Inode
    <3>2. inode' = [inode EXCEPT ![k] = g] /\ freeBlocks' = freeBlocks \ {b}
      BY <1>5, <2>2, <2>6
    <3> HIDE DEF g, b
    <3>3. inode'[k] = g /\ \A j \in File \ {k} : inode'[j] = inode[j] BY <1>3, <3>2
    <3>4. \A j \in File : inode'[j].direct = inode[j].direct /\ inode'[j].taken = inode[j].taken
      BY <3>1, <3>3
    <3>5. \A j \in File : Indexed(j)' =>
            \/ Indexed(j) /\ inode'[j].index = inode[j].index
            \/ inode'[j].index = b /\ "index" = "index" /\ k = j /\ 0 = 0
      BY <2>3, <3>1, <3>3 DEF Indexed
    <3>6. freeBlocks' \subseteq freeBlocks \ {b} BY <3>2
    <3>7. AloneInv' BY <1>1, <1>2, <2>4, <3>4, <3>5, <3>6, BlocksTaken
    <3>8. DirectInv' BY <1>1, <3>4 DEF DirectInv
    <3> QED BY <3>7, <3>8 DEF BlockInv
  <2> QED BY <2>5, <2>6
<1> QED BY <1>4, <1>5 DEF BeginWrite, Crash, Allocated

\* A direct block that was missing is allocated.
LEMMA AllocateDirectBlocks ==
  ASSUME IInv, BlockInv, NEW t \in Thread, AllocateDirect(t)
  PROVE  BlockInv'
<1> DEFINE c == thread[t]
           i == openFiles[c.h].inum
           b == NextBlock
<1>1. Typed /\ AloneInv /\ DirectInv BY DEF IInv, BlockInv
<1>2. c.pc = "write" /\ NextI(t) /\ c.i < Direct /\ UNCHANGED <<dir, fsData, openFiles>>
  BY DEF AllocateDirect
<1>3. \A j : Busy(j)' => Busy(j) BY <1>2, PcLeft, NoWriterCame
<1>4. CASE UNCHANGED <<inode, freeBlocks>> BY <1>2, <1>3, <1>4, BlocksKept
<1>5. CASE /\ inode[i].direct[c.i] = -1
           /\ inode' = [inode EXCEPT ![i].direct[c.i] = b]
           /\ freeBlocks' = freeBlocks \ {b}
  <2>1. /\ inode \in [File -> Inode] /\ i \in File /\ inode[i] \in Inode
        /\ c.i \in 0..(Direct - 1)
    BY <1>1, <1>2, WriterHasFile, ThreadTyped, Sizes DEF Typed
  <2>2. PICK k \in File : k = i BY <2>1
  <2>3. PICK q \in 0..(Direct - 1) : q = c.i BY <2>1
  <2>4. inode[k].direct \in [0..(Direct - 1) -> Block \cup {-1}] BY <2>1, <2>2 DEF Inode
  <2>5. b \in freeBlocks \cup {-1} /\ b # 0 BY <1>1, BlockAllocated
  <2> DEFINE d == [inode[k].direct EXCEPT ![q] = b]
             g == [inode[k] EXCEPT !.direct = d]
  <2>6. inode' = [inode EXCEPT ![k] = g] BY <1>5, <2>2, <2>3
  <2> HIDE DEF b, d
  <2>7. d[q] = b /\ \A l \in 0..(Direct - 1) : l # q => d[l] = inode[k].direct[l]
    BY <2>4 DEF d
  <2>8. g.direct = d /\ g.index = inode[k].index /\ g.taken = inode[k].taken
        /\ g.size = inode[k].size
    BY <2>1, <2>2 DEF Inode
  <2> HIDE DEF g, i
  <2>9. inode'[k] = g /\ \A j \in File \ {k} : inode'[j] = inode[j] BY <2>1, <2>6
  <2>10. \A j \in File : /\ inode'[j].index = inode[j].index /\ inode'[j].taken = inode[j].taken
                         /\ Indexed(j)' => Indexed(j)
    BY <1>3, <2>8, <2>9 DEF Indexed
  <2>11. \A j \in File : \A l \in 0..(Direct - 1) :
           \/ inode'[j].direct[l] \in {inode[j].direct[l], -1}
           \/ inode'[j].direct[l] = b /\ "direct" = "direct" /\ k = j /\ q = l
    BY <2>7, <2>8, <2>9
  <2>12. freeBlocks' \subseteq freeBlocks \ {b} BY <1>5
  <2>13. \A r \in Address : fsData'[r] \in {fsData[r], -1, Data} BY <1>2
  <2>14. \A j \in File : Indexed(j)' => Indexed(j) /\ inode'[j].index = inode[j].index
    BY <2>10
  <2>15. AloneInv' BY <1>1, <2>5, <2>11, <2>12, <2>13, <2>14, BlocksTaken
  <2>16. DirectInv' BY <1>1, <2>5, <2>10, <2>11 DEF DirectInv
  <2> QED BY <2>15, <2>16 DEF BlockInv
<1> QED BY <1>4, <1>5 DEF AllocateDirect, Allocated

\* An entry that was not set gets a block, wherever the entry lies.
LEMMA AllocateIndirectBlocks ==
  ASSUME IInv, BlockInv, NEW t \in Thread, AllocateIndirect(t)
  PROVE  BlockInv'
<1> DEFINE x == inode[openFiles[thread[t].h].inum].index
           a == Entry(x, thread[t].i - Direct)
           b == NextBlock
<1>1. Typed /\ AloneInv /\ DirectInv BY DEF IInv, BlockInv
<1>2. thread[t].pc = "write" /\ NextI(t) /\ UNCHANGED <<inode, dir, openFiles>>
  BY DEF AllocateIndirect, Crash
<1>3. \A j : Busy(j)' => Busy(j) BY <1>2, PcLeft, NoWriterCame
<1>4. CASE UNCHANGED <<fsData, freeBlocks>> BY <1>2, <1>3, <1>4, BlocksKept
<1>5. CASE /\ fsData' = IF a \in Address THEN [fsData EXCEPT ![a] = b] ELSE fsData
           /\ freeBlocks' = freeBlocks \ {b}
  <2>1. fsData \in [Address -> Block \cup {-1, Data}] BY <1>1 DEF Typed
  <2>2. b \in freeBlocks \cup {-1} BY <1>1, BlockAllocated
  <2> HIDE DEF a, b
  <2>3. \A r \in Address : \/ fsData'[r] \in {fsData[r], -1, Data}
                           \/ fsData'[r] = b /\ "cell" = "cell" /\ a = r /\ 0 = 0
    BY <1>5, <2>1
  <2>4. \A j \in File : Indexed(j)' => Indexed(j) /\ inode'[j].index = inode[j].index
    BY <1>2, <1>3 DEF Indexed
  <2>5. freeBlocks' \subseteq freeBlocks \ {b} BY <1>5
  <2>6. AloneInv' BY <1>1, <1>2, <2>2, <2>3, <2>4, <2>5, BlocksTaken
  <2>7. DirectInv' BY <1>1, <1>2 DEF DirectInv
  <2> QED BY <2>6, <2>7 DEF BlockInv
<1> QED BY <1>4, <1>5 DEF AllocateIndirect, Allocated, Crash

\* A piece is no longer than its block, nor than what is left; a thread that goes
\* on has something left, and goes on with its handle.
LEMMA PieceCopied ==
  ASSUME IInv, NEW t \in Thread, CopyPiece(t), NEW n,
         n = Min({BlockSize - inode[openFiles[thread[t].h].inum].last, thread[t].n})
  PROVE  /\ n \in Nat /\ n <= thread[t].n
         /\ thread'[t].pc = "write" => /\ thread'[t].h = thread[t].h
                                       /\ thread'[t].i = thread[t].i
                                       /\ thread'[t].n = thread[t].n - n
                                       /\ thread'[t].n > 0
         /\ \A u \in Thread \ {t} : thread'[u] = thread[u]
<1> DEFINE c == thread[t]
           fill == BlockSize - inode[openFiles[c.h].inum].last
<1>1. Typed /\ c.pc = "write" /\ n = Min({fill, c.n})
      /\ IF c.n <= fill THEN Leave(t) ELSE thread' = [thread EXCEPT ![t].n = c.n - n]
  BY DEF IInv, CopyPiece
<1>2. thread \in [Thread -> Local] /\ c \in Local /\ c.n \in Nat BY <1>1, ThreadTyped DEF Typed
<1>3. fill \in Nat
  <2>1. inode[openFiles[c.h].inum].last \in 0..BlockSize BY <1>1, WriterHasFile DEF Inode
  <2> QED BY <2>1, Sizes
<1> HIDE DEF fill
<1>4. n \in Nat /\ n <= fill /\ n <= c.n BY <1>1, <1>2, <1>3, SmallerOf
<1>5. CASE c.n <= fill
  <2>1. Leave(t) BY <1>1, <1>5
  <2> QED BY <1>4, <2>1, PcLeft
<1>6. CASE ~(c.n <= fill)
  <2> DEFINE m == c.n - n
  <2>1. m > 0 /\ m \in Nat BY <1>2, <1>3, <1>4, <1>6
  <2>2. thread' = [thread EXCEPT ![t] = [thread[t] EXCEPT !.n = m]] BY <1>1, <1>6
  <2>3. m = thread[t].n - n OBVIOUS
  <2> HIDE DEF m
  <2> QED BY <1>2, <1>4, <2>1, <2>2, <2>3 DEF Local
<1> QED BY <1>5, <1>6

\* What is copied is text: no address names a block that did not.
LEMMA CopyPieceBlocks ==
  ASSUME IInv, BlockInv, NEW t \in Thread, CopyPiece(t), ~torn'
  PROVE  BlockInv'
<1> DEFINE c == thread[t]
           i == openFiles[c.h].inum
           off == openFiles[c.h].offset
           fill == BlockSize - inode[i].last
           n == Min({fill, c.n})
           b == BlockOf(inode[i], off \div BlockSize)
           from == off % BlockSize
           to == {Entry(b, p \div IntSize) : p \in from..(from + n - 1)}
           edge == Entry(b, (from + n - 1) \div IntSize)
           values == Overwritten(b, from, from + n, edge)
           done == c.n <= fill
           l == IF done THEN inode[i].last + n ELSE 0
           z == IF done THEN Max({inode[i].size, off + n}) ELSE inode[i].size
<1>1. Typed /\ AloneInv /\ DirectInv BY DEF IInv, BlockInv
<1>2. c.pc = "write" BY DEF CopyPiece
<1>3. /\ inode \in [File -> Inode] /\ i \in File /\ inode[i] \in Inode /\ c.h \in Handle
  BY <1>1, <1>2, WriterHasFile DEF Typed
<1>4. /\ thread'[t].pc = "write" => thread'[t].h = thread[t].h
      /\ \A u \in Thread \ {t} : thread'[u] = thread[u]
  BY PieceCopied
<1>5. CASE UNCHANGED <<inode, freeBlocks, fsData, openFiles>>
  BY <1>2, <1>4, <1>5, NoWriterCame, BlocksKept
<1>6. CASE /\ \E v \in values : /\ fsData' = [a \in Address |-> IF a \notin to THEN fsData[a]
                                                       ELSE IF a = edge THEN v ELSE Data]
                         /\ torn' = (torn \/ v # Data)
           /\ openFiles' = [openFiles EXCEPT ![c.h].offset = off + n]
           /\ inode' = [inode EXCEPT ![i].last = l, ![i].size = z]
           /\ UNCHANGED freeBlocks
  <2> DEFINE g == [inode[i] EXCEPT !.last = l, !.size = z]
             o == off + n
  <2>1. inode' = [inode EXCEPT ![i] = g] BY <1>6
  <2>2. openFiles' = [openFiles EXCEPT ![c.h].offset = o] BY <1>6
  <2>3. \A a \in Address : fsData'[a] \in {fsData[a], Data}
    <3> HIDE DEF to, edge, values
    <3>1. PICK v \in values : /\ fsData' = [a \in Address |-> IF a \notin to THEN fsData[a]
                                                       ELSE IF a = edge THEN v ELSE Data]
                         /\ torn' = (torn \/ v # Data)
      BY <1>6
    <3>2. v = Data BY <3>1, Zenon
    <3> QED BY <3>1, <3>2
  <2>4. Busy(i) BY <1>2, WriterIsBusy
  <2>5. PICK k \in File : k = i BY <1>3
  <2> HIDE DEF l, z, o
  <2>6. g.direct = inode[i].direct /\ g.index = inode[i].index /\ g.taken = inode[i].taken
    BY <1>3 DEF Inode
  <2>7. \A j \in Handle : openFiles'[j].inum = openFiles[j].inum
    BY <1>1, <2>2 DEF Typed
  <2>8. \A j : Busy(j)' => Busy(j) BY <1>2, <1>4, <2>7, NoWriterCame
  <2>9. Busy(k) BY <2>4, <2>5
  <2> HIDE DEF g, i
  <2>10. inode'[k] = g /\ \A j \in File \ {k} : inode'[j] = inode[j] BY <1>3, <2>1, <2>5
  <2>11. \A j \in File : /\ inode'[j].direct = inode[j].direct
                         /\ inode'[j].taken = inode[j].taken
                         /\ Indexed(j)' => Indexed(j) /\ inode'[j].index = inode[j].index
    BY <2>5, <2>6, <2>8, <2>9, <2>10 DEF Indexed
  <2>12. -1 \in freeBlocks \cup {-1} /\ freeBlocks' \subseteq freeBlocks \ {-1}
    <3>1. freeBlocks' = freeBlocks BY <1>6
    <3>2. freeBlocks \subseteq Block \ {0} BY <1>1 DEF Typed
    <3> QED BY ONLY <3>1, <3>2, SizeAssumption DEF Block
  <2>13. AloneInv' BY <1>1, <2>3, <2>11, <2>12, BlocksTaken
  <2>14. DirectInv' BY <1>1, <2>11 DEF DirectInv
  <2> QED BY <2>13, <2>14 DEF BlockInv
<1>7. UNCHANGED <<inode, freeBlocks, fsData, openFiles>>
      \/ /\ \E v \in values : /\ fsData' = [a \in Address |-> IF a \notin to THEN fsData[a]
                                                       ELSE IF a = edge THEN v ELSE Data]
                         /\ torn' = (torn \/ v # Data)
         /\ openFiles' = [openFiles EXCEPT ![c.h].offset = off + n]
         /\ inode' = [inode EXCEPT ![i].last = l, ![i].size = z]
         /\ UNCHANGED freeBlocks
  BY DEF CopyPiece, Crash
<1> QED BY <1>5, <1>6, <1>7

LEMMA ReadBlocks ==
  ASSUME IInv, BlockInv, NEW t \in Thread, NEW h \in Handle, NEW len \in Lengths,
         Read(t, h, len)
  PROVE  BlockInv'
<1>1. UNCHANGED <<inode, freeBlocks, fsData>> BY DEF Read, Crash
<1> QED BY <1>1, Reads, NoWriterCame, BlocksKept DEF NoWrite

\* An empty file system names no block but its directory's.
LEMMA InitBlocks == Init => BlockInv
<1> SUFFICES ASSUME Init PROVE BlockInv OBVIOUS
<1>1. \A i \in File : /\ ~inode[i].taken
                      /\ \A k \in 0..(Direct - 1) : inode[i].direct[k] = 0
  BY DEF Init
<1>2. \A a \in Address : fsData[a] = 0 BY DEF Init
<1>3. \A d, n, k, x : ~Holds(d, n, k, x)
  BY <1>1, <1>2 DEF Holds, Place, Value, Indexed
<1>4. AloneInv BY <1>3 DEF AloneInv
<1>5. DirectInv BY <1>1 DEF DirectInv
<1> QED BY <1>4, <1>5 DEF BlockInv

\* Every step keeps each block in one place, unless it tears a number.
LEMMA NextBlocks == IInv /\ BlockInv /\ ~torn' /\ [Next]_vars => BlockInv'
<1> SUFFICES ASSUME IInv, BlockInv, ~torn', [Next]_vars PROVE BlockInv' OBVIOUS
<1>1. CASE UNCHANGED vars
  <2>1. UNCHANGED <<inode, freeBlocks, fsData>> /\ \A i : Busy(i)' => Busy(i)
    BY <1>1 DEF vars, Busy
  <2> QED BY <2>1, BlocksKept
<1>2. ASSUME NEW t \in Thread, NEW name \in Name, NEW flags \in Flags, Lookup(t, name, flags)
      PROVE  BlockInv' BY <1>2, LookupBlocks
<1>3. ASSUME NEW t \in Thread, Truncate(t) PROVE BlockInv' BY <1>3, TruncateBlocks
<1>4. ASSUME NEW t \in Thread, CreateInode(t) PROVE BlockInv' BY <1>4, CreateInodeBlocks
<1>5. ASSUME NEW t \in Thread, LinkName(t) PROVE BlockInv' BY <1>5, LinkNameBlocks
<1>6. ASSUME NEW t \in Thread, EnterTable(t) PROVE BlockInv' BY <1>6, EnterTableBlocks
<1>7. ASSUME NEW t \in Thread, NEW h \in Handle, Close(t, h) PROVE BlockInv'
  BY <1>7, CloseBlocks
<1>8. ASSUME NEW t \in Thread, NEW h \in Handle, NEW len \in Lengths, BeginWrite(t, h, len)
      PROVE  BlockInv' BY <1>8, BeginWriteBlocks
<1>9. ASSUME NEW t \in Thread, NEW h \in Handle, NEW len \in Lengths, Read(t, h, len)
      PROVE  BlockInv' BY <1>9, ReadBlocks
<1>10. ASSUME NEW t \in Thread, AllocateDirect(t) PROVE BlockInv' BY <1>10, AllocateDirectBlocks
<1>11. ASSUME NEW t \in Thread, AllocateIndirect(t) PROVE BlockInv'
  BY <1>11, AllocateIndirectBlocks
<1>12. ASSUME NEW t \in Thread, CopyPiece(t) PROVE BlockInv' BY <1>12, CopyPieceBlocks
<1> QED BY <1>1, <1>2, <1>3, <1>4, <1>5, <1>6, <1>7, <1>8, <1>9, <1>10, <1>11, <1>12
        DEF Next

\* An entry of a block lies in memory.
LEMMA EntryIsIn ==
  ASSUME NEW x \in Block, NEW e \in 0..(Entries - 1)
  PROVE  Entry(x, e) \in Address
<1>1. x \in Nat /\ e \in Nat /\ Blocks - 1 - x \in Nat /\ Entries \in Nat /\ Blocks \in Nat
  BY Sizes DEF Block
<1>2. PICK d \in Nat : Blocks = (x + d) + 1 BY <1>1
<1>3. x * Entries \in Nat /\ d * Entries \in Nat BY <1>1, Products
<1>4. Blocks * Entries = (x + d) * Entries + Entries BY <1>1, <1>2, Products
<1>5. (x + d) * Entries = x * Entries + d * Entries BY <1>1
<1>6. x * Entries + e <= Blocks * Entries - 1 BY <1>1, <1>3, <1>4, <1>5
<1> QED BY <1>1, <1>3, <1>6 DEF Entry, Address

\* Two entries that lie at one address are one entry of one block.
LEMMA EntriesApart ==
  ASSUME NEW x \in Block, NEW y \in Block, NEW e \in 0..(Entries - 1),
         NEW f \in 0..(Entries - 1), Entry(x, e) = Entry(y, f)
  PROVE  x = y /\ e = f
<1>1. ASSUME NEW p \in Block, NEW q \in Block, NEW g \in 0..(Entries - 1),
             NEW h \in 0..(Entries - 1), p < q
      PROVE  p * Entries + g < q * Entries + h
  <2>1. p \in Nat /\ q \in Nat /\ Entries \in Nat BY Sizes DEF Block
  <2>2. PICK d \in Nat : q = (p + d) + 1
    <3>1. q - p - 1 \in Nat /\ q = (p + (q - p - 1)) + 1 BY <1>1, <2>1
    <3> QED BY <3>1
  <2>3. p * Entries \in Nat /\ d * Entries \in Nat BY <2>1, Products
  <2>4. q * Entries = (p + d) * Entries + Entries BY <2>1, <2>2, Products
  <2>5. (p + d) * Entries = p * Entries + d * Entries BY <2>1
  <2> QED BY <2>1, <2>3, <2>4, <2>5
<1>2. x \in Nat /\ y \in Nat /\ Entries \in Nat BY Sizes DEF Block
<1>3. x * Entries \in Nat /\ y * Entries \in Nat BY <1>2, Products
<1>4. x * Entries + e = y * Entries + f BY DEF Entry
<1>5. ~(x < y) /\ ~(y < x) BY <1>1, <1>2, <1>3, <1>4
<1>6. x = y BY <1>2, <1>5
<1> QED BY <1>2, <1>3, <1>4, <1>6

\* Where the place p of file i, which names x, is among the places of the file system.
LEMMA PlaceOf ==
  ASSUME IInv, BlockInv, NEW i \in File, NEW p \in Places(i), NEW x, x = At(i, p)
  PROVE  \/ \E k \in 0..(Direct - 1) : p = <<"direct", k>> /\ Holds("direct", i, k, x)
         \/ p = <<"index", 0>> /\ Holds("index", i, 0, x)
         \/ \E e \in 0..(Entries - 1) :
              /\ p = <<"entry", e>> /\ Holds("index", i, 0, inode[i].index)
              /\ Holds("cell", Entry(inode[i].index, e), 0, x)
<1>1. Typed /\ IndexInv /\ DirectInv /\ inode[i] \in Inode BY DEF IInv, BlockInv, Typed
<1>2. Indexed(i) => inode[i].index \in Block \ {0} /\ Holds("index", i, 0, inode[i].index)
  BY <1>1 DEF Indexed, IndexInv, Inode, Holds, Place, Value
<1>3. CASE \E k \in 0..(Direct - 1) : /\ p = <<"direct", k>> /\ inode[i].taken
                                      /\ inode[i].direct[k] # -1
  <2>1. PICK k \in 0..(Direct - 1) : /\ p = <<"direct", k>> /\ inode[i].taken
                                     /\ inode[i].direct[k] # -1 BY <1>3
  <2>2. x = inode[i].direct[k] BY <2>1 DEF At
  <2>3. inode[i].direct[k] \in Block \ {0} BY <1>1, <2>1 DEF DirectInv, Inode
  <2>4. Holds("direct", i, k, x) BY <2>2, <2>3 DEF Holds, Place, Value
  <2> QED BY <2>1, <2>2, <2>4
<1>4. CASE p = <<"index", 0>> /\ Indexed(i)
  <2>1. x = inode[i].index BY <1>4 DEF At
  <2> QED BY <1>2, <1>4, <2>1
<1>5. CASE Indexed(i) /\ \E e \in 0..(Entries - 1) :
             p = <<"entry", e>> /\ fsData[Entry(inode[i].index, e)] \in Block \ {0}
  <2>1. PICK e \in 0..(Entries - 1) :
          p = <<"entry", e>> /\ fsData[Entry(inode[i].index, e)] \in Block \ {0} BY <1>5
  <2>2. x = fsData[Entry(inode[i].index, e)] BY <2>1 DEF At
  <2>3. Entry(inode[i].index, e) \in Address BY <1>2, <1>5, EntryIsIn
  <2>4. Holds("cell", Entry(inode[i].index, e), 0, x)
    BY <2>1, <2>2, <2>3 DEF Holds, Place, Value
  <2> QED BY <1>2, <1>5, <2>1, <2>4
<1> QED BY <1>3, <1>4, <1>5 DEF Places

\* As long as no number is torn.
LEMMA EachInOnePlace == Spec => [](~torn => BlockInv)
<1>1. Init => (~torn => BlockInv) BY InitBlocks, Zenon
<1>2. IInv /\ TearInv /\ (~torn => BlockInv) /\ [Next]_vars => (~torn => BlockInv)'
  <2> SUFFICES ASSUME IInv, TearInv, ~torn => BlockInv, [Next]_vars, ~torn' PROVE BlockInv'
    BY Zenon
  <2>1. ~torn BY MarksStay, Zenon
  <2> QED BY <2>1, NextBlocks
<1> QED BY <1>1, <1>2, Invariant, Marks, PTL DEF Spec

\* No two files, and no two places of a file, ever name the same block, and what
\* they name is not free: neither truncation, which gives back an index block
\* whose entries go on naming blocks, nor a write past its block, nor threads
\* that allocate at the same time put a block to two uses.  Only a write past its
\* block that ends behind the first byte of a number may: no number is torn yet.
THEOREM BlocksAreApart == Spec => []BlocksNotShared
<1>1. IInv /\ (~torn => BlockInv) => BlocksNotShared
  <2> SUFFICES ASSUME IInv, BlockInv, ~torn, NEW i \in File, NEW j \in File,
                      NEW p \in Places(i), NEW q \in Places(j)
               PROVE  /\ At(i, p) \notin freeBlocks \cup {0}
                      /\ At(i, p) = At(j, q) => i = j /\ p = q
    BY DEF BlocksNotShared
  <2>1. AloneInv BY DEF BlockInv
  <2>2. PICK d, n, k : Holds(d, n, k, At(i, p)) BY PlaceOf
  <2>3. At(i, p) \notin freeBlocks \cup {0} BY <2>1, <2>2 DEF AloneInv, Holds
  <2>4. ASSUME At(i, p) = At(j, q) PROVE i = j /\ p = q
    <3>1. PICK x : x = At(i, p) /\ x = At(j, q) BY <2>4
    <3>2. \/ \E m \in 0..(Direct - 1) : q = <<"direct", m>> /\ Holds("direct", j, m, x)
          \/ q = <<"index", 0>> /\ Holds("index", j, 0, x)
          \/ \E f \in 0..(Entries - 1) :
               /\ q = <<"entry", f>> /\ Holds("index", j, 0, inode[j].index)
               /\ Holds("cell", Entry(inode[j].index, f), 0, x)
      BY <3>1, PlaceOf, Zenon
    <3>3. CASE \E l \in 0..(Direct - 1) : p = <<"direct", l>> /\ Holds("direct", i, l, x)
      <4>1. PICK l \in 0..(Direct - 1) : p = <<"direct", l>> /\ Holds("direct", i, l, x) BY <3>3
      <4>2. PICK m \in 0..(Direct - 1) : q = <<"direct", m>> /\ Holds("direct", j, m, x)
        BY <2>1, <3>2, <4>1 DEF AloneInv
      <4> QED BY <2>1, <4>1, <4>2 DEF AloneInv
    <3>4. CASE p = <<"index", 0>> /\ Holds("index", i, 0, x)
      <4>1. q = <<"index", 0>> /\ Holds("index", j, 0, x)
        BY <2>1, <3>2, <3>4 DEF AloneInv
      <4> QED BY <2>1, <3>4, <4>1 DEF AloneInv
    <3>5. CASE \E e \in 0..(Entries - 1) :
                 /\ p = <<"entry", e>> /\ Holds("index", i, 0, inode[i].index)
                 /\ Holds("cell", Entry(inode[i].index, e), 0, x)
      <4>1. PICK e \in 0..(Entries - 1) :
                 /\ p = <<"entry", e>> /\ Holds("index", i, 0, inode[i].index)
                 /\ Holds("cell", Entry(inode[i].index, e), 0, x) BY <3>5
      <4>2. PICK f \in 0..(Entries - 1) :
                 /\ q = <<"entry", f>> /\ Holds("index", j, 0, inode[j].index)
                 /\ Holds("cell", Entry(inode[j].index, f), 0, x)
        BY <2>1, <3>2, <4>1 DEF AloneInv
      <4>3. Entry(inode[i].index, e) = Entry(inode[j].index, f)
        BY <2>1, <4>1, <4>2 DEF AloneInv
      <4>4. inode[i].index \in Block /\ inode[j].index \in Block BY <4>1, <4>2 DEF Holds
      <4>5. inode[i].index = inode[j].index /\ e = f BY <4>3, <4>4, EntriesApart
      <4>6. i = j BY <2>1, <4>1, <4>2, <4>5 DEF AloneInv
      <4> QED BY <4>1, <4>2, <4>5, <4>6
    <3> QED BY <3>1, <3>3, <3>4, <3>5, PlaceOf, Zenon
  <2> QED BY <2>3, <2>4
<1> QED BY <1>1, EachInOnePlace, Invariant, PTL

-----------------------------------------------------------------------------
(* The bytes. *)

\* A block whose entries are read as numbers of blocks, now or when it will be
\* an index block again.
Listed(x) == x \in freeBlocks \/ \E i \in File : Indexed(i) /\ inode[i].index = x

\* Nothing but numbers of blocks was ever written to those.
CleanInv ==
  \A x \in Block : Listed(x) => \A e \in 0..(Entries - 1) : fsData[Entry(x, e)] \in Block

HasBlock(i, q) == BlockOf(inode[i], q) \in Block \ {0}

\* A file has the blocks that its size reaches.
WholeFile(i) ==
  /\ inode[i].index # -1 /\ inode[i].size <= MaxSize
  /\ \A q \in 0..(Direct + Entries - 1) : q * BlockSize < inode[i].size => HasBlock(i, q)

FileInv == \A i \in File : inode[i].taken => WholeFile(i)

\* A writer is alone with its file, and the loop has allocated the blocks before i.
WriteInv(t) ==
  LET c == thread[t]
      j == openFiles[c.h].inum
  IN
  c.pc = "write" =>
    /\ c.n > 0 /\ openFiles[c.h].offset + c.n <= MaxSize
    /\ c.i <= Amount(t)
    /\ \A q \in 0..(Direct + Entries - 1) : q < c.i => HasBlock(j, q)
    /\ \A u \in Thread \ {t} : thread[u].pc = "write" => openFiles[thread[u].h].inum # j

WholeInv ==
  ~damaged => CleanInv /\ FileInv /\ (~crashed => \A t \in Thread : WriteInv(t))

\* A step that leaves the numbers of blocks in block x, and may set what was not set.
CellsKept(x) == \A e \in 0..(Entries - 1) :
                  \/ fsData'[Entry(x, e)] = fsData[Entry(x, e)]
                  \/ fsData[Entry(x, e)] = 0 /\ fsData'[Entry(x, e)] \in Block

\* A step that takes no block from file i.
FileKept(i) == /\ inode'[i].index = inode[i].index
               /\ \A k \in 0..(Direct - 1) : inode[i].direct[k] # -1 =>
                    inode'[i].direct[k] = inode[i].direct[k]
               /\ CellsKept(inode[i].index)

\* A number is so many times another one and a rest.
LEMMA Quotient ==
  ASSUME NEW a \in Nat, NEW b \in Nat, b > 0
  PROVE  /\ a \div b \in Nat /\ a % b \in 0..(b - 1)
         /\ a = (a \div b) * b + (a % b)
<1>1. a = (a \div b) * b + (a % b) OBVIOUS
<1>2. a \div b \in Nat /\ a % b \in 0..(b - 1) OBVIOUS
<1> QED BY <1>1, <1>2

\* A byte of a block belongs to one of its entries.
LEMMA EntryOfByte ==
  ASSUME NEW p \in 0..(BlockSize - 1)
  PROVE  p \div IntSize \in 0..(Entries - 1)
<1> DEFINE e == p \div IntSize
           r == p % IntSize
<1>1. p \in Nat /\ IntSize \in Nat /\ IntSize > 0 /\ Entries \in Nat /\ p < Entries * IntSize
  BY Sizes DEF BlockSize
<1>2. e \in Nat /\ r \in Nat /\ p = e * IntSize + r BY <1>1, Quotient
<1> HIDE DEF e, r
<1>3. CASE e >= Entries
  <2>1. PICK d \in Nat : e = Entries + d
    <3>1. e - Entries \in Nat /\ e = Entries + (e - Entries) BY <1>1, <1>2, <1>3
    <3> QED BY <3>1
  <2>2. e * IntSize = Entries * IntSize + d * IntSize /\ d * IntSize \in Nat
        /\ Entries * IntSize \in Nat
    BY <1>1, <2>1, Products
  <2> QED BY <1>1, <1>2, <2>2
<1>4. CASE e < Entries BY <1>1, <1>2, <1>4 DEF e
<1> QED BY <1>1, <1>2, <1>3, <1>4

\* A number is so many blocks and a rest.
LEMMA Division ==
  ASSUME NEW a \in Nat
  PROVE  /\ a \div BlockSize \in Nat /\ a % BlockSize \in 0..(BlockSize - 1)
         /\ a = (a \div BlockSize) * BlockSize + (a % BlockSize)
         /\ (a \div BlockSize) * BlockSize \in Nat
<1>1. BlockSize \in Nat /\ BlockSize > 0 BY Sizes
<1>2. a \div BlockSize \in Nat BY <1>1, Quotient
<1> QED BY <1>1, <1>2, Quotient, Products

\* A block that begins before a is not behind the block of a.
LEMMA BeginsBefore ==
  ASSUME NEW a \in Nat, NEW q \in Nat, q * BlockSize <= a
  PROVE  q <= a \div BlockSize
<1> DEFINE p == a \div BlockSize
<1>1. p \in Nat /\ BlockSize \in Nat /\ BlockSize > 0 /\ p * BlockSize \in Nat
      /\ a < p * BlockSize + BlockSize
  BY Division, Sizes
<1> HIDE DEF p
<1>2. CASE q > p
  <2>1. PICK d \in Nat : q = (p + d) + 1
    <3>1. q - p - 1 \in Nat /\ q = (p + (q - p - 1)) + 1 BY <1>1, <1>2
    <3> QED BY <3>1
  <2>2. q * BlockSize = (p + d) * BlockSize + BlockSize BY <1>1, <2>1, Products
  <2>3. (p + d) * BlockSize = p * BlockSize + d * BlockSize /\ d * BlockSize \in Nat
    BY <1>1, Products
  <2> QED BY <1>1, <2>2, <2>3
<1>3. CASE q <= p BY <1>3 DEF p
<1> QED BY <1>1, <1>2, <1>3

\* A byte below the largest size is in a block that a file can have.
LEMMA BlockNumber ==
  ASSUME NEW a \in Nat, a < MaxSize
  PROVE  a \div BlockSize \in 0..(Direct + Entries - 1)
<1> DEFINE p == a \div BlockSize
           m == Entries + Direct
<1>1. p \in Nat /\ BlockSize \in Nat /\ BlockSize > 0 /\ Direct \in Nat /\ m \in Nat
      /\ p * BlockSize <= a
  BY Division, Sizes
<1>2. a < m * BlockSize BY DEF MaxSize
<1> HIDE DEF p, m
<1>3. CASE p >= m
  <2>1. PICK d \in Nat : p = m + d
    <3>1. p - m \in Nat /\ p = m + (p - m) BY <1>1, <1>3
    <3> QED BY <3>1
  <2>2. p * BlockSize = m * BlockSize + d * BlockSize /\ d * BlockSize \in Nat
        /\ m * BlockSize \in Nat
    BY <1>1, <2>1, Products
  <2> QED BY <1>1, <1>2, <2>2
<1>4. CASE p < m
  <2>1. p \in 0..(m - 1) BY ONLY <1>1, <1>4
  <2>2. m - 1 = Direct + Entries - 1 BY ONLY Sizes DEF m
  <2> QED BY <2>1, <2>2 DEF p
<1> QED BY <1>1, <1>3, <1>4

\* What a file had it keeps.
LEMMA StillHas ==
  ASSUME Typed, NEW i \in File, inode[i].index \in Block, FileKept(i),
         NEW q \in 0..(Direct + Entries - 1), HasBlock(i, q)
  PROVE  HasBlock(i, q)'
<1>1. q \in Nat /\ Direct \in Nat /\ Entries \in Nat BY Sizes
<1>2. CASE q < Direct
  <2>1. q \in 0..(Direct - 1) /\ inode[i].direct[q] \in Block \ {0}
    BY <1>1, <1>2 DEF HasBlock, BlockOf
  <2>2. inode[i].direct[q] # -1 BY <2>1 DEF Block
  <2>3. inode'[i].direct[q] = inode[i].direct[q] BY <2>1, <2>2 DEF FileKept
  <2> QED BY <1>2, <2>1, <2>3 DEF HasBlock, BlockOf
<1>3. CASE ~(q < Direct)
  <2>1. q - Direct \in 0..(Entries - 1) BY <1>1, <1>3
  <2>2. inode[i].index # -1 BY DEF Block
  <2>3. PICK a : a = Entry(inode[i].index, q - Direct) OBVIOUS
  <2>4. fsData[a] \in Block \ {0} BY <1>3, <2>2, <2>3 DEF HasBlock, BlockOf
  <2>5. fsData'[a] = fsData[a] BY <2>1, <2>3, <2>4 DEF FileKept, CellsKept
  <2>6. inode'[i].index = inode[i].index BY DEF FileKept
  <2>7. BlockOf(inode[i], q)' = fsData'[a] BY <1>3, <2>2, <2>3, <2>6 DEF BlockOf, Entry
  <2> QED BY <2>4, <2>5, <2>7 DEF HasBlock
<1> QED BY <1>2, <1>3

\* A file that has a size or a writer is one that has an index block.
LEMMA IndexedFile ==
  ASSUME IInv, FileInv, NEW i \in File, inode[i].taken
  PROVE  /\ inode[i] \in Inode /\ inode[i].size \in Nat /\ inode[i].index \in Block \ {0}
         /\ inode[i].size > 0 \/ Busy(i) => Indexed(i)
<1>1. inode[i] \in Inode /\ inode[i].index # 0 /\ inode[i].index # -1
  BY DEF IInv, Typed, IndexInv, FileInv, WholeFile
<1> QED BY <1>1 DEF Inode, Indexed

\* What is written to is a file that is indexed.
LEMMA WrittenFile ==
  ASSUME IInv, FileInv, NEW t \in Thread, thread[t].pc = "write"
  PROVE  /\ openFiles[thread[t].h].inum \in File /\ inode[openFiles[thread[t].h].inum].taken
         /\ Indexed(openFiles[thread[t].h].inum)
         /\ inode[openFiles[thread[t].h].inum].index \in Block \ {0}
<1>1. openFiles[thread[t].h].inum \in File /\ inode[openFiles[thread[t].h].inum].taken
  BY WriterHasFile, HandleIsFile
<1>2. Busy(openFiles[thread[t].h].inum) BY WriterIsBusy
<1> QED BY <1>1, <1>2, IndexedFile

\* The handles of the others are kept by a step that changes no handle but t's.
LEMMA OthersHandles ==
  ASSUME IInv, NEW t \in Thread, NEW h \in thread[t].own,
         \A j \in Handle \ {h} : openFiles'[j] = openFiles[j]
  PROVE  \A u \in Thread \ {t} : \A j \in thread[u].own : openFiles'[j] = openFiles[j]
<1>1. \A u \in Thread : thread[u].own \subseteq Handle BY ThreadTyped DEF IInv
<1> QED BY <1>1 DEF IInv, OpenInv, HandleInv

\* A file keeps what it has when no step takes anything from files with an index
\* block; the others are empty.
LEMMA FileWhole ==
  ASSUME IInv, FileInv, NEW i \in File, Indexed(i) => FileKept(i), inode'[i].index # -1,
         inode'[i].size = 0 \/ (inode[i].taken /\ inode'[i].size = inode[i].size)
  PROVE  WholeFile(i)'
<1> SUFFICES /\ inode'[i].size <= MaxSize
             /\ \A q \in 0..(Direct + Entries - 1) :
                  q * BlockSize < inode'[i].size => HasBlock(i, q)'
  BY Zenon DEF WholeFile
<1>1. MaxSize \in Nat BY Sizes, Products DEF MaxSize
<1>2. CASE inode'[i].size = 0
  <2>1. \A q \in 0..(Direct + Entries - 1) : ~(q * BlockSize < 0)
    <3>1. \A q \in 0..(Direct + Entries - 1) : q \in Nat /\ BlockSize \in Nat BY Sizes
    <3> QED BY <3>1, Products
  <2> QED BY <1>1, <1>2, <2>1
<1>3. CASE inode'[i].size # 0
  <2>1. inode[i].taken /\ inode'[i].size = inode[i].size BY <1>3
  <2>2. Indexed(i) /\ inode[i].index \in Block /\ inode[i].size <= MaxSize
    BY <1>3, <2>1, IndexedFile DEF FileInv, WholeFile
  <2>3. FileKept(i) BY <2>2
  <2>4. \A q \in 0..(Direct + Entries - 1) :
          q * BlockSize < inode[i].size => HasBlock(i, q) BY <2>1 DEF FileInv, WholeFile
  <2>5. \A q \in 0..(Direct + Entries - 1) : HasBlock(i, q) => HasBlock(i, q)'
    BY <2>2, <2>3, StillHas DEF IInv
  <2> QED BY <2>1, <2>2, <2>4, <2>5
<1> QED BY <1>2, <1>3

LEMMA FilesWhole ==
  ASSUME IInv, FileInv, \A i \in File : Indexed(i) => FileKept(i),
         \A i \in File : inode'[i].taken =>
           /\ inode'[i].index # -1
           /\ inode'[i].size = 0 \/ (inode[i].taken /\ inode'[i].size = inode[i].size)
  PROVE  FileInv'
<1>1. ASSUME NEW i \in File, inode'[i].taken PROVE WholeFile(i)' BY <1>1, FileWhole
<1> QED BY <1>1, Zenon DEF FileInv

\* A step leaves the numbers in the blocks that are read as numbers.
LEMMA CleanKept ==
  ASSUME CleanInv, \A x \in Block : Listed(x)' => Listed(x) /\ CellsKept(x)
  PROVE  CleanInv'
<1> SUFFICES ASSUME NEW x \in Block, Listed(x)', NEW e \in 0..(Entries - 1)
             PROVE  fsData'[Entry(x, e)] \in Block
  BY Zenon DEF CleanInv, Entry
<1>1. fsData[Entry(x, e)] \in Block BY DEF CleanInv
<1> QED BY <1>1 DEF CellsKept

\* The writers other than t go on with what they had.
LEMMA WritersKept ==
  ASSUME IInv, FileInv, NEW t \in Thread, \A u \in Thread : WriteInv(u),
         \A i \in File : Indexed(i) => FileKept(i),
         \A u \in Thread \ {t} : thread'[u] = thread[u],
         \A u \in Thread \ {t} : \A j \in thread[u].own : openFiles'[j] = openFiles[j],
         WriteInv(t)'
  PROVE  \A u \in Thread : WriteInv(u)'
<1> SUFFICES ASSUME NEW u \in Thread \ {t}, thread'[u].pc = "write" PROVE WriteInv(u)'
  BY DEF WriteInv
<1>1. thread'[u] = thread[u] /\ thread[u].pc = "write" OBVIOUS
<1>2. thread[u].h \in thread[u].own BY <1>1, WriterHasFile
<1>3. openFiles'[thread'[u].h] = openFiles[thread[u].h] BY <1>1, <1>2
<1>4. PICK i \in File : /\ i = openFiles[thread[u].h].inum /\ Indexed(i)
                        /\ inode[i].index \in Block
  BY <1>1, WrittenFile
<1>5. Amount(u)' = Amount(u) BY <1>1, <1>3 DEF Amount
<1>6. \A q \in 0..(Direct + Entries - 1) : q < thread[u].i => HasBlock(i, q)
  BY <1>1, <1>4 DEF WriteInv
<1>7. \A q \in 0..(Direct + Entries - 1) : HasBlock(i, q) => HasBlock(i, q)'
  BY <1>4, StillHas DEF IInv
<1>8. \A v \in Thread \ {u} : thread'[v].pc = "write" => openFiles'[thread'[v].h].inum # i
  <2> SUFFICES ASSUME NEW v \in Thread \ {u}, thread'[v].pc = "write"
               PROVE  openFiles'[thread'[v].h].inum # i OBVIOUS
  <2>1. CASE v = t BY <1>1, <1>3, <1>4, <2>1 DEF WriteInv
  <2>2. CASE v # t
    <3>1. thread'[v] = thread[v] /\ thread[v].pc = "write" BY <2>2
    <3>2. thread[v].h \in thread[v].own BY <3>1, WriterHasFile
    <3> QED BY <1>1, <1>4, <2>2, <3>1, <3>2 DEF WriteInv
  <2> QED BY <2>1, <2>2
<1>9. /\ thread[u].n > 0 /\ openFiles[thread[u].h].offset + thread[u].n <= MaxSize
      /\ thread[u].i <= Amount(u)
  BY <1>1 DEF WriteInv
<1>10. openFiles'[thread'[u].h].inum = i /\ thread'[u].i = thread[u].i BY <1>1, <1>3, <1>4
<1>11. \A q \in 0..(Direct + Entries - 1) : q < thread'[u].i => HasBlock(i, q)'
  BY <1>6, <1>7, <1>10
<1>12. /\ thread'[u].n > 0 /\ openFiles'[thread'[u].h].offset + thread'[u].n <= MaxSize
       /\ thread'[u].i <= Amount(u)'
  BY <1>1, <1>3, <1>5, <1>9
<1> QED BY <1>8, <1>10, <1>11, <1>12 DEF WriteInv

\* A step that touches neither the inodes nor the blocks, and starts no write.
LEMMA WholeUntouched ==
  ASSUME IInv, WholeInv, NEW t \in Thread, ~crashed,
         UNCHANGED <<inode, freeBlocks, fsData, damaged>>,
         \A u \in Thread \ {t} : thread'[u] = thread[u], \A i : Busy(i)' => Busy(i),
         \/ crashed'
         \/ /\ thread'[t].pc # "write"
            /\ \A u \in Thread \ {t} : \A j \in thread[u].own : openFiles'[j] = openFiles[j]
  PROVE  WholeInv'
<1> SUFFICES ASSUME ~damaged'
             PROVE  CleanInv' /\ FileInv' /\ (~crashed' => \A u \in Thread : WriteInv(u)')
  BY Zenon DEF WholeInv
<1>1. CleanInv /\ FileInv /\ \A u \in Thread : WriteInv(u) BY DEF WholeInv
<1>2. \A x : CellsKept(x) BY DEF CellsKept
<1>3. \A i \in File : FileKept(i) BY <1>2 DEF FileKept
<1>4. CleanInv'
  <2>1. \A i \in File : Indexed(i)' => Indexed(i) BY DEF Indexed
  <2>2. \A x \in Block : Listed(x)' => Listed(x) BY <2>1 DEF Listed
  <2> QED BY <1>1, <1>2, <2>2, CleanKept
<1>5. FileInv'
  <2>1. \A i \in File : inode'[i].taken =>
           /\ inode'[i].index # -1
           /\ inode'[i].size = 0 \/ (inode[i].taken /\ inode'[i].size = inode[i].size)
    BY <1>1 DEF FileInv, WholeFile
  <2> QED BY <1>1, <1>3, <2>1, FilesWhole
<1>6. ASSUME ~crashed' PROVE \A u \in Thread : WriteInv(u)'
  <2>1. WriteInv(t)' BY <1>6 DEF WriteInv
  <2> QED BY <1>1, <1>3, <1>6, <2>1, WritersKept
<1> QED BY <1>4, <1>5, <1>6

\* A step of t that takes nothing from the files that have an index block.
LEMMA WholeKept ==
  ASSUME IInv, WholeInv, NEW t \in Thread, ~crashed, ~damaged,
         \A u \in Thread \ {t} : thread'[u] = thread[u],
         \A u \in Thread \ {t} : \A j \in thread[u].own : openFiles'[j] = openFiles[j],
         \A i \in File : Indexed(i) => FileKept(i),
         \A x \in Block : Listed(x)' => Listed(x) /\ CellsKept(x),
         FileInv', WriteInv(t)'
  PROVE  WholeInv'
<1>1. CleanInv /\ FileInv /\ \A u \in Thread : WriteInv(u) BY DEF WholeInv
<1>2. CleanInv' BY <1>1, CleanKept
<1>3. \A u \in Thread : WriteInv(u)' BY <1>1, WritersKept
<1> QED BY <1>2, <1>3, Zenon DEF WholeInv

-----------------------------------------------------------------------------
(* The steps and the bytes. *)

LEMMA LookupBytes ==
  ASSUME IInv, WholeInv, NEW t \in Thread, NEW name \in Name, NEW flags \in Flags,
         Lookup(t, name, flags)
  PROVE  WholeInv'
<1>1. ~crashed /\ UNCHANGED <<inode, freeBlocks, fsData, openFiles, damaged>>
  BY DEF Lookup, Starts
<1>2. NoWrite(t) BY PartsOfOpen
<1> QED BY <1>1, <1>2, NoWriterCame, WholeUntouched DEF NoWrite

LEMMA EnterTableBytes ==
  ASSUME IInv, WholeInv, NEW t \in Thread, EnterTable(t)
  PROVE  WholeInv'
<1>1. ~crashed /\ UNCHANGED <<inode, freeBlocks, fsData, damaged>> BY DEF EnterTable
<1>2. NoWrite(t) /\ \A j \in Handle : openFiles[j].taken => openFiles'[j] = openFiles[j]
  BY EntersFree
<1>3. \A u \in Thread : \A j \in thread[u].own : j \in Handle /\ openFiles[j].taken
  BY HandleIsFile DEF IInv, OpenInv, HandleInv
<1>4. \A u \in Thread \ {t} : \A j \in thread[u].own : openFiles'[j] = openFiles[j]
  BY <1>2, <1>3
<1> QED BY <1>1, <1>2, <1>4, NoWriterCame, WholeUntouched DEF NoWrite

LEMMA CloseBytes ==
  ASSUME IInv, WholeInv, NEW t \in Thread, NEW h \in Handle, Close(t, h)
  PROVE  WholeInv'
<1>1. ~crashed /\ UNCHANGED <<inode, freeBlocks, fsData, damaged>> BY DEF Close, Starts
<1> QED BY <1>1, Closes, OthersHandles, NoWriterCame, WholeUntouched DEF NoWrite

LEMMA ReadBytes ==
  ASSUME IInv, WholeInv, NEW t \in Thread, NEW h \in Handle, NEW len \in Lengths,
         Read(t, h, len)
  PROVE  WholeInv'
<1>1. ~crashed /\ UNCHANGED <<inode, freeBlocks, fsData, damaged>>
  BY DEF Read, Crash, Starts
<1> QED BY <1>1, Reads, OthersHandles, NoWriterCame, WholeUntouched DEF NoWrite

\* A file that is cut is empty; its index block is listed as before.
LEMMA TruncateBytes ==
  ASSUME IInv, WholeInv, NEW t \in Thread, Truncate(t)
  PROVE  WholeInv'
<1> DEFINE c == thread[t]
           i == c.inum
           f == inode[i]
           cut == "trunc" \in c.flags /\ f.size > 0
<1>1. UNCHANGED <<fsData, openFiles, crashed, damaged>> /\ c.pc = "truncate" /\ ~crashed
  BY DEF Truncate
<1>2. Typed /\ NameInv /\ PlaceInv(t) BY DEF IInv, OpenInv
<1>3. i \in File /\ f \in Inode /\ f.taken /\ inode \in [File -> Inode]
  <2>1. Named(i) BY <1>1, <1>2 DEF PlaceInv
  <2> QED BY <1>2, <2>1, NamedIsFile DEF Typed
<1>4. NoWrite(t) BY PartsOfOpen
<1>5. \A j : Busy(j)' => Busy(j) BY <1>1, <1>4, NoWriterCame DEF NoWrite
<1>6. CASE UNCHANGED <<inode, freeBlocks>>
  BY <1>1, <1>4, <1>5, <1>6, WholeUntouched DEF NoWrite
<1>7. CASE /\ cut /\ f.index # -1
           /\ inode' = [inode EXCEPT ![i].size = 0]
           /\ freeBlocks' = freeBlocks \cup {f.index}
  <2> SUFFICES ASSUME ~damaged PROVE WholeInv' BY <1>1, Zenon DEF WholeInv
  <2>0. CleanInv /\ FileInv BY DEF WholeInv
  <2> DEFINE g == [f EXCEPT !.size = 0]
  <2>1. /\ g.taken = f.taken /\ g.index = f.index /\ g.size = 0 /\ g.direct = f.direct
    BY <1>3 DEF Inode
  <2>2. inode' = [inode EXCEPT ![i] = g] BY <1>7
  <2>3. Indexed(i) BY <1>3, <1>7 DEF Indexed
  <2>4. PICK k \in File : k = i BY <1>3
  <2>5. PICK y : y = f.index /\ freeBlocks' = freeBlocks \cup {y} BY <1>7
  <2> HIDE DEF g, cut
  <2>6. \A j \in File \ {k} : inode'[j] = inode[j] BY <1>3, <2>2, <2>4
  <2>7. inode'[k] = g BY <1>3, <2>2, <2>4
  <2>8. \A j \in File : /\ inode'[j].direct = inode[j].direct
                        /\ inode'[j].index = inode[j].index
                        /\ inode'[j].taken = inode[j].taken
                        /\ inode'[j].size \in {inode[j].size, 0}
    BY <2>1, <2>4, <2>6, <2>7
  <2>9. \A x : CellsKept(x) BY <1>1 DEF CellsKept
  <2>10. \A j \in File : FileKept(j) BY <2>8, <2>9 DEF FileKept
  <2>11. \A j \in File : Indexed(j)' => Indexed(j)
    <3>1. \A j \in File \ {k} : Indexed(j)' => Indexed(j) BY <1>5, <2>6 DEF Indexed
    <3> QED BY <2>3, <2>4, <3>1
  <2>12. Listed(y) BY <1>3, <2>3, <2>5 DEF Listed
  <2>13. \A x \in Block : Listed(x)' => Listed(x)
    BY <2>5, <2>8, <2>11, <2>12 DEF Listed
  <2>14. FileInv'
    <3>1. \A j \in File : inode'[j].taken =>
            /\ inode'[j].index # -1
            /\ inode'[j].size = 0 \/ (inode[j].taken /\ inode'[j].size = inode[j].size)
      BY <2>0, <2>8 DEF FileInv, WholeFile
    <3> QED BY <2>0, <2>10, <3>1, FilesWhole
  <2>15. WriteInv(t)' BY <1>4 DEF NoWrite, WriteInv
  <2> QED BY <1>1, <1>4, <2>9, <2>10, <2>13, <2>14, <2>15, WholeKept DEF NoWrite
<1>8. UNCHANGED <<inode, freeBlocks>>
      \/ /\ cut /\ f.index # -1
         /\ inode' = [inode EXCEPT ![i].size = 0]
         /\ freeBlocks' = freeBlocks \cup {f.index}
  BY DEF Truncate
<1> QED BY <1>6, <1>7, <1>8

\* The block of a new inode is not read as numbers, until it is free again.
LEMMA CreateInodeBytes ==
  ASSUME IInv, BlockInv, WholeInv, NEW t \in Thread, CreateInode(t)
  PROVE  WholeInv'
<1> DEFINE i == LowestOr({j \in File : ~inode[j].taken}, -1)
           b == NextBlock
           empty == [k \in 0..(Direct - 1) |-> -1]
           new == [inode[i] EXCEPT !.taken = TRUE, !.size = 0, !.index = b, !.direct = empty]
<1>1. UNCHANGED <<openFiles, crashed>> /\ ~crashed BY DEF CreateInode
<1>2. Typed /\ OpenInv /\ AloneInv BY DEF IInv, BlockInv
<1>3. NoWrite(t) BY PartsOfOpen
<1>4. \A j : Busy(j)' => Busy(j) BY <1>1, <1>3, NoWriterCame DEF NoWrite
<1>5. CASE UNCHANGED <<inode, freeBlocks, fsData>>
  <2> SUFFICES ASSUME ~damaged' PROVE WholeInv' BY Zenon DEF WholeInv
  <2>1. damaged' \in BOOLEAN /\ damaged \in BOOLEAN /\ (damaged => damaged')
    BY <1>2 DEF CreateInode, Allocated, Typed
  <2>2. UNCHANGED damaged BY <2>1
  <2> QED BY <1>1, <1>3, <1>4, <1>5, <2>2, WholeUntouched DEF NoWrite
<1>6. CASE /\ i # -1 /\ b # -1
           /\ inode' = [inode EXCEPT ![i] = new]
           /\ fsData' = [a \in Address |-> IF a \div Entries = b THEN -1 ELSE fsData[a]]
           /\ Allocated(b)
  <2> SUFFICES ASSUME ~damaged' PROVE WholeInv' BY Zenon DEF WholeInv
  <2>0. ~damaged BY <1>6, Zenon DEF Allocated
  <2>1. CleanInv /\ FileInv BY <2>0 DEF WholeInv
  <2>2. i \in File /\ ~inode[i].taken
    <3>1. {j \in File : ~inode[j].taken} \in SUBSET Nat BY Sizes DEF File
    <3> QED BY <1>6, <3>1, LowestIsIn
  <2>3. inode \in [File -> Inode] /\ inode[i] \in Inode BY <1>2, <2>2 DEF Typed
  <2>4. new.taken /\ new.size = 0 /\ new.index = b BY <2>3 DEF Inode
  <2>5. b \in freeBlocks /\ b \in Block BY <1>2, <1>6, BlockAllocated
  <2>6. ~Busy(i)
    <3>1. ASSUME NEW u \in Thread, thread[u].pc = "write" PROVE openFiles[thread[u].h].inum # i
      <4>1. thread[u].h \in thread[u].own BY <3>1, WriterHasFile
      <4>2. inode[openFiles[thread[u].h].inum].taken BY <4>1, HandleIsFile
      <4> QED BY <2>2, <4>2
    <3> QED BY <3>1 DEF Busy
  <2>7. PICK k \in File : k = i BY <2>2
  <2> HIDE DEF i, b, new, empty
  <2>8. inode'[k] = new /\ \A j \in File \ {k} : inode'[j] = inode[j]
    BY <1>6, <2>3, <2>7
  <2>9. ~Indexed(k) /\ ~Indexed(k)' BY <1>4, <2>2, <2>4, <2>6, <2>7, <2>8 DEF Indexed
  <2>10. \A j \in File : Indexed(j)' => Indexed(j) /\ inode'[j] = inode[j]
    BY <1>4, <2>8, <2>9 DEF Indexed
  <2>11. \A x \in Block \ {b} : CellsKept(x)
    <3> SUFFICES ASSUME NEW x \in Block, x # b, NEW e \in 0..(Entries - 1)
                 PROVE  fsData'[Entry(x, e)] = fsData[Entry(x, e)]
      BY DEF CellsKept
    <3>1. PICK a \in Address : a = Entry(x, e) BY EntryIsIn
    <3>2. a \div Entries # b
      <4>1. a \in Nat BY <3>1, Sizes, Products DEF Address
      <4>2. PICK p \in Nat, r \in 0..(Entries - 1) :
              p = a \div Entries /\ a = p * Entries + r
        BY <4>1, Sizes, Quotient
      <4>3. ASSUME p \in Block PROVE p = x
        <5>1. Entry(x, e) = Entry(p, r) BY <3>1, <4>2 DEF Entry
        <5> QED BY <4>3, <5>1, EntriesApart
      <4> QED BY <2>5, <4>2, <4>3
    <3> QED BY <1>6, <3>1, <3>2
  <2>12. \A j \in File : Indexed(j) => inode[j].index \in Block \ {b}
    <3> SUFFICES ASSUME NEW j \in File, Indexed(j) PROVE inode[j].index \in Block \ {b} OBVIOUS
    <3>1. inode[j].index \in Block \ {0} BY <2>1, IndexedFile DEF Indexed
    <3>2. Holds("index", j, 0, inode[j].index) BY <3>1 DEF Holds, Place, Value
    <3> QED BY <1>2, <2>5, <3>1, <3>2 DEF AloneInv
  <2>13. \A j \in File : Indexed(j) => FileKept(j)
    BY <2>8, <2>9, <2>11, <2>12 DEF FileKept
  <2>14. \A x \in Block : Listed(x)' => Listed(x) /\ x # b
    <3>1. freeBlocks' = freeBlocks \ {b} BY <1>6 DEF Allocated
    <3> QED BY <2>10, <2>12, <3>1 DEF Listed
  <2>15. FileInv'
    <3>1. \A j \in File : inode'[j].taken =>
            /\ inode'[j].index # -1
            /\ inode'[j].size = 0 \/ (inode[j].taken /\ inode'[j].size = inode[j].size)
      BY <1>6, <2>1, <2>4, <2>8 DEF FileInv, WholeFile
    <3> QED BY <2>1, <2>13, <3>1, FilesWhole
  <2>16. WriteInv(t)' BY <1>3 DEF NoWrite, WriteInv
  <2> QED BY <1>1, <1>3, <2>0, <2>11, <2>13, <2>14, <2>15, <2>16, WholeKept DEF NoWrite
<1> QED BY <1>5, <1>6 DEF CreateInode

\* An inode that goes back has nothing that another file needs.
LEMMA LinkNameBytes ==
  ASSUME IInv, WholeInv, NEW t \in Thread, LinkName(t)
  PROVE  WholeInv'
<1> DEFINE i == thread[t].inum
<1>1. UNCHANGED <<freeBlocks, fsData, openFiles, crashed, damaged>> /\ ~crashed
      /\ thread[t].pc = "link"
  BY DEF LinkName
<1>2. Typed /\ PlaceInv(t) BY DEF IInv, OpenInv
<1>3. NoWrite(t) BY PartsOfOpen
<1>4. \A j : Busy(j)' => Busy(j) BY <1>1, <1>3, NoWriterCame DEF NoWrite
<1>5. CASE UNCHANGED inode BY <1>1, <1>3, <1>4, <1>5, WholeUntouched DEF NoWrite
<1>6. CASE inode' = [inode EXCEPT ![i].taken = FALSE]
  <2> SUFFICES ASSUME ~damaged PROVE WholeInv' BY <1>1, Zenon DEF WholeInv
  <2>0. FileInv BY DEF WholeInv
  <2>1. PICK k \in File : k = i BY <1>1, <1>2 DEF PlaceInv
  <2> DEFINE g == [inode[k] EXCEPT !.taken = FALSE]
  <2>2. inode \in [File -> Inode] /\ inode[k] \in Inode BY <1>2 DEF Typed
  <2>3. ~g.taken /\ g.direct = inode[k].direct /\ g.index = inode[k].index BY <2>2 DEF Inode
  <2>4. inode' = [inode EXCEPT ![k] = g] BY <1>6, <2>1
  <2> HIDE DEF g
  <2>5. inode'[k] = g /\ \A j \in File \ {k} : inode'[j] = inode[j] BY <2>2, <2>4
  <2>6. \A x : CellsKept(x) BY <1>1 DEF CellsKept
  <2>7. \A j \in File : FileKept(j) BY <2>3, <2>5, <2>6 DEF FileKept
  <2>8. \A j \in File : Indexed(j)' => Indexed(j) /\ inode'[j].index = inode[j].index
    BY <1>4, <2>3, <2>5 DEF Indexed
  <2>9. \A x \in Block : Listed(x)' => Listed(x) BY <1>1, <2>8 DEF Listed
  <2>10. FileInv'
    <3>1. \A j \in File : inode'[j].taken =>
            /\ inode'[j].index # -1
            /\ inode'[j].size = 0 \/ (inode[j].taken /\ inode'[j].size = inode[j].size)
      BY <2>0, <2>3, <2>5 DEF FileInv, WholeFile
    <3> QED BY <2>0, <2>7, <3>1, FilesWhole
  <2>11. WriteInv(t)' BY <1>3 DEF NoWrite, WriteInv
  <2> QED BY <1>1, <1>3, <2>6, <2>7, <2>9, <2>10, <2>11, WholeKept DEF NoWrite
<1> QED BY <1>5, <1>6 DEF LinkName

\* A writer starts with nothing allocated, in a file that nobody writes to.
LEMMA BeginWriteBytes ==
  ASSUME IInv, WholeInv, NEW t \in Thread, NEW h \in Handle, NEW len \in Lengths,
         BeginWrite(t, h, len)
  PROVE  WholeInv'
<1> DEFINE i == openFiles[h].inum
           off == openFiles[h].offset
           n == IF len + off > MaxSize THEN MaxSize - off ELSE len
           b == NextBlock
<1>1. Typed BY DEF IInv
<1>2. /\ Starts(t) /\ ~crashed /\ h \in thread[t].own /\ ~Busy(i)
      /\ UNCHANGED <<fsData, openFiles>>
  BY DEF BeginWrite, Crash, Starts
<1>3. i \in File /\ inode[i] \in Inode /\ inode[i].taken /\ inode \in [File -> Inode]
      /\ off \in Nat
  BY <1>1, <1>2, HandleIsFile DEF Typed
<1>4. CASE Counted(t) /\ UNCHANGED <<inode, freeBlocks, damaged>>
  BY <1>2, <1>4, PcLeft, NoWriterCame, WholeUntouched
<1>5. CASE /\ n > 0 /\ UNCHANGED crashed
           /\ thread' = [thread EXCEPT ![t] =
                [thread[t] EXCEPT !.ops = @ + 1, !.pc = "write", !.h = h, !.n = n, !.i = 0]]
           /\ IF inode[i].size = 0
              THEN inode' = [inode EXCEPT ![i].index = b] /\ Allocated(b)
              ELSE UNCHANGED <<inode, freeBlocks, damaged>>
  <2> SUFFICES ASSUME ~damaged' PROVE WholeInv' BY Zenon DEF WholeInv
  <2>0. ~damaged /\ (inode[i].size = 0 => b # -1) BY <1>5, Zenon DEF Allocated
  <2>1. CleanInv /\ FileInv BY <2>0 DEF WholeInv
  <2>2. /\ thread'[t].pc = "write" /\ thread'[t].h = h /\ thread'[t].n = n
        /\ thread'[t].i = 0 /\ \A u \in Thread \ {t} : thread'[u] = thread[u]
    <3> HIDE DEF n
    <3>1. thread \in [Thread -> Local] /\ thread[t] \in Local BY <1>1, ThreadTyped DEF Typed
    <3> QED BY <1>5, <3>1 DEF Local
  <2>3. n \in Nat /\ n > 0 /\ off + n \in Nat /\ off + n <= MaxSize
    <3>1. len \in Nat /\ MaxSize \in Nat BY SizeAssumption, Sizes, Products DEF MaxSize
    <3> QED BY <1>3, <1>5, <3>1
  <2>4. b \in freeBlocks \cup {-1} /\ b \in Block \cup {-1} /\ -1 \notin freeBlocks
    BY <1>1, BlockAllocated DEF Typed, Block
  <2>5. PICK k \in File : k = i BY <1>3
  <2>6. \A x : CellsKept(x) BY <1>2 DEF CellsKept
  <2>7. /\ \A j \in File \ {k} : inode'[j] = inode[j]
        /\ inode'[k].direct = inode[k].direct /\ inode'[k].taken = inode[k].taken
        /\ inode'[k].size = inode[k].size
        /\ inode[k].size # 0 => inode'[k].index = inode[k].index /\ freeBlocks' = freeBlocks
        /\ inode[k].size = 0 => inode'[k].index = b /\ freeBlocks' = freeBlocks \ {b}
    <3>1. CASE inode[i].size # 0 BY <1>5, <2>5, <3>1
    <3>2. CASE inode[i].size = 0
      <4> DEFINE g == [inode[k] EXCEPT !.index = b]
      <4>1. /\ g.index = b /\ g.direct = inode[k].direct /\ g.taken = inode[k].taken
            /\ g.size = inode[k].size
        BY <1>3, <2>5 DEF Inode
      <4>2. inode' = [inode EXCEPT ![k] = g] /\ freeBlocks' = freeBlocks \ {b}
        BY <1>5, <2>5, <3>2 DEF Allocated
      <4> HIDE DEF g, b
      <4>3. inode'[k] = g /\ \A j \in File \ {k} : inode'[j] = inode[j] BY <1>3, <4>2
      <4> QED BY <2>5, <3>2, <4>1, <4>2, <4>3
    <3> QED BY <3>1, <3>2
  <2>8. ASSUME NEW j \in File, j # k, Busy(j)' PROVE Busy(j)
    <3>1. PICK u \in Thread : thread'[u].pc = "write" /\ openFiles[thread'[u].h].inum = j
      BY <1>2, <2>8 DEF Busy
    <3>2. u # t BY <2>2, <2>5, <2>8, <3>1
    <3> QED BY <2>2, <3>1, <3>2 DEF Busy
  <2>9. inode[k].taken /\ inode[k].size \in Nat /\ inode[k].index # -1 /\ ~Busy(k)
    BY <1>2, <1>3, <2>1, <2>5 DEF Inode, FileInv, WholeFile
  <2>10. \A j \in File : Indexed(j) => FileKept(j)
    <3>1. Indexed(k) => inode'[k].index = inode[k].index BY <2>7, <2>9 DEF Indexed
    <3> QED BY <2>6, <2>7, <3>1 DEF FileKept
  <2>11. \A x \in Block : Listed(x)' => Listed(x)
    <3>1. \A j \in File \ {k} : Indexed(j)' => Indexed(j) /\ inode'[j].index = inode[j].index
      BY <2>7, <2>8 DEF Indexed
    <3>2. Indexed(k)' => \/ Indexed(k) /\ inode'[k].index = inode[k].index
                         \/ inode'[k].index = b
      BY <2>7, <2>9 DEF Indexed
    <3>3. freeBlocks' \subseteq freeBlocks BY <2>7
    <3>4. \A x \in Block : x = b => x \in freeBlocks BY <2>4 DEF Block
    <3> QED BY <3>1, <3>2, <3>3, <3>4 DEF Listed
  <2>12. FileInv'
    <3>1. \A j \in File : inode'[j].taken =>
            /\ inode'[j].index # -1
            /\ inode'[j].size = 0 \/ (inode[j].taken /\ inode'[j].size = inode[j].size)
      BY <2>0, <2>1, <2>5, <2>7, <2>9 DEF FileInv, WholeFile
    <3> QED BY <2>1, <2>10, <3>1, FilesWhole
  <2>13. WriteInv(t)'
    <3>1. openFiles'[thread'[t].h].inum = k /\ openFiles'[thread'[t].h].offset = off
      BY <1>2, <2>2, <2>5
    <3>2. thread'[t].n > 0 /\ openFiles'[thread'[t].h].offset + thread'[t].n <= MaxSize
      BY <2>2, <2>3, <3>1
    <3>3. Amount(t)' = (off + n) \div BlockSize + 1 BY <2>2, <3>1 DEF Amount
    <3>4. thread'[t].i <= Amount(t)'
      <4>1. (off + n) \div BlockSize \in Nat BY <2>3, Division
      <4> QED BY <2>2, <3>3, <4>1
    <3>5. \A u \in Thread \ {t} : thread'[u].pc = "write" =>
            openFiles'[thread'[u].h].inum # k
      BY <1>2, <2>2, <2>9 DEF Busy
    <3>6. \A q \in 0..(Direct + Entries - 1) : ~(q < thread'[t].i) BY <2>2
    <3> HIDE DEF n, off, i
    <3> QED BY <3>1, <3>2, <3>4, <3>5, <3>6 DEF WriteInv
  <2>14. \A u \in Thread \ {t} : \A j \in thread[u].own : openFiles'[j] = openFiles[j]
    BY <1>2
  <2> QED BY <1>2, <2>0, <2>2, <2>6, <2>10, <2>11, <2>12, <2>13, <2>14, WholeKept
<1> QED BY <1>4, <1>5 DEF BeginWrite, Crash

\* A turn of the loop: what it says of t afterwards.
LEMMA TurnKeeps ==
  ASSUME IInv, FileInv, NEW t \in Thread, WriteInv(t), thread[t].pc = "write", NextI(t),
         thread[t].i < Amount(t), UNCHANGED openFiles,
         \A i \in File : Indexed(i) => FileKept(i),
         NEW i \in File, i = openFiles[thread[t].h].inum, NEW p \in Nat, p = thread[t].i,
         p < Direct + Entries => HasBlock(i, p)'
  PROVE  WriteInv(t)'
<1>1. thread \in [Thread -> Local] /\ thread[t] \in Local /\ thread[t].i \in Nat
      /\ thread[t].n \in Nat
  BY ThreadTyped DEF IInv, Typed
<1>2. /\ thread'[t].pc = "write" /\ thread'[t].h = thread[t].h /\ thread'[t].n = thread[t].n
      /\ thread'[t].i = thread[t].i + 1
      /\ \A u \in Thread \ {t} : thread'[u] = thread[u]
  <2>1. thread' = [thread EXCEPT ![t] = [thread[t] EXCEPT !.i = thread[t].i + 1]] BY DEF NextI
  <2> QED BY <1>1, <2>1 DEF Local
<1>3. Indexed(i) /\ inode[i].index \in Block BY WrittenFile
<1>4. Amount(t)' = Amount(t) /\ Amount(t) \in Nat
  <2>1. openFiles[thread[t].h].offset + thread[t].n \in Nat BY <1>1, WriterHasFile
  <2>2. (openFiles[thread[t].h].offset + thread[t].n) \div BlockSize \in Nat
    BY <2>1, Division
  <2> QED BY <1>2, <2>2 DEF Amount
<1>5. thread'[t].i <= Amount(t)' BY <1>1, <1>2, <1>4
<1>6. \A q \in 0..(Direct + Entries - 1) : q < thread[t].i => HasBlock(i, q)'
  <2>1. \A q \in 0..(Direct + Entries - 1) : q < thread[t].i => HasBlock(i, q)
    BY <1>3 DEF WriteInv
  <2> QED BY <1>3, <2>1, StillHas DEF IInv
<1>7. \A q \in 0..(Direct + Entries - 1) : q < thread'[t].i => HasBlock(i, q)'
  <2> SUFFICES ASSUME NEW q \in 0..(Direct + Entries - 1), q < thread'[t].i
               PROVE  HasBlock(i, q)' OBVIOUS
  <2>1. q < thread[t].i \/ q = p BY <1>1, <1>2, Sizes
  <2>2. CASE q = p
    <3>1. p < Direct + Entries BY <2>2, Sizes
    <3> QED BY <2>2, <3>1
  <2> QED BY <1>6, <2>1, <2>2
<1>8. /\ thread'[t].n > 0 /\ openFiles'[thread'[t].h].offset + thread'[t].n <= MaxSize
      /\ \A u \in Thread \ {t} : thread'[u].pc = "write" => openFiles'[thread'[u].h].inum # i
  BY <1>2, <1>3 DEF WriteInv
<1> QED BY <1>2, <1>3, <1>5, <1>7, <1>8 DEF WriteInv

\* A turn that takes nothing from the files, and no inode's size.
LEMMA TurnBytes ==
  ASSUME IInv, WholeInv, NEW t \in Thread, ~crashed, ~damaged, NextI(t),
         thread[t].pc = "write", thread[t].i < Amount(t), UNCHANGED openFiles,
         freeBlocks' \subseteq freeBlocks,
         \A j \in File : /\ inode'[j].index = inode[j].index
                         /\ inode'[j].size = inode[j].size
                         /\ inode'[j].taken = inode[j].taken
                         /\ \A l \in 0..(Direct - 1) : inode[j].direct[l] # -1 =>
                              inode'[j].direct[l] = inode[j].direct[l],
         \A x \in Block : CellsKept(x),
         NEW i \in File, i = openFiles[thread[t].h].inum, NEW p \in Nat, p = thread[t].i,
         p < Direct + Entries => HasBlock(i, p)'
  PROVE  WholeInv'
<1>1. CleanInv /\ FileInv /\ WriteInv(t) BY DEF WholeInv
<1>2. \A u \in Thread \ {t} : thread'[u] = thread[u] BY PcLeft
<1>3. \A j : Busy(j)' => Busy(j) BY <1>2, PcLeft, NoWriterCame
<1>4. \A j \in File : Indexed(j)' => Indexed(j) BY <1>3 DEF Indexed
<1>5. \A j \in File : Indexed(j) => FileKept(j)
  <2>1. \A j \in File : Indexed(j) => inode[j].index \in Block
    BY <1>1, IndexedFile DEF Indexed
  <2> QED BY <2>1 DEF FileKept
<1>6. \A x \in Block : Listed(x)' => Listed(x) BY <1>4 DEF Listed
<1>7. FileInv'
  <2>1. \A j \in File : inode'[j].taken =>
          /\ inode'[j].index # -1
          /\ inode'[j].size = 0 \/ (inode[j].taken /\ inode'[j].size = inode[j].size)
    BY <1>1 DEF FileInv, WholeFile
  <2> QED BY <1>1, <1>5, <2>1, FilesWhole
<1>8. WriteInv(t)' BY <1>1, <1>5, TurnKeeps
<1> QED BY <1>2, <1>5, <1>6, <1>7, <1>8, WholeKept

\* The file has the direct block when the turn is over.
LEMMA AllocateDirectBytes ==
  ASSUME IInv, BlockInv, WholeInv, NEW t \in Thread, AllocateDirect(t)
  PROVE  WholeInv'
<1> DEFINE c == thread[t]
           i == openFiles[c.h].inum
           b == NextBlock
<1>1. Typed /\ DirectInv BY DEF IInv, BlockInv
<1>2. /\ c.pc = "write" /\ NextI(t) /\ c.i < Direct /\ c.i < Amount(t) /\ ~crashed
      /\ UNCHANGED <<dir, fsData, openFiles, crashed>>
  BY DEF AllocateDirect
<1> SUFFICES ASSUME ~damaged' PROVE WholeInv' BY Zenon DEF WholeInv
<1>3. ~damaged /\ (inode[i].direct[c.i] = -1 => b # -1)
  BY Zenon DEF AllocateDirect, Allocated
<1>4. /\ inode \in [File -> Inode] /\ i \in File /\ inode[i] \in Inode /\ inode[i].taken
      /\ c.i \in 0..(Direct - 1) /\ c.i \in Nat
  <2>1. c.i \in Nat BY <1>1, ThreadTyped
  <2>2. c.i \in 0..(Direct - 1) BY <1>2, <2>1, Sizes
  <2>3. inode \in [File -> Inode] BY <1>1 DEF Typed
  <2> QED BY <1>2, <2>1, <2>2, <2>3, WriterHasFile, HandleIsFile
<1>5. PICK k \in File : k = i BY <1>4
<1>6. PICK p \in 0..(Direct - 1) : p = c.i BY <1>4
<1>7. inode[k].direct \in [0..(Direct - 1) -> Block \cup {-1}] BY <1>4, <1>5 DEF Inode
<1>8. /\ freeBlocks' \subseteq freeBlocks
      /\ inode'[k].direct[p] \in Block \ {0}
      /\ \A j \in File : /\ inode'[j].index = inode[j].index
                         /\ inode'[j].size = inode[j].size
                         /\ inode'[j].taken = inode[j].taken
                         /\ \A l \in 0..(Direct - 1) : inode[j].direct[l] # -1 =>
                              inode'[j].direct[l] = inode[j].direct[l]
  <2>1. CASE inode[i].direct[c.i] # -1
    <3>1. UNCHANGED <<inode, freeBlocks>> BY <2>1 DEF AllocateDirect
    <3>2. inode[k].direct[p] \in Block \ {0}
      BY <1>1, <1>4, <1>5, <1>6, <1>7, <2>1 DEF DirectInv
    <3> QED BY <3>1, <3>2
  <2>2. CASE inode[i].direct[c.i] = -1
    <3>1. inode' = [inode EXCEPT ![i].direct[c.i] = b] /\ freeBlocks' = freeBlocks \ {b}
      BY <2>2 DEF AllocateDirect, Allocated
    <3>2. b \in Block \ {0} BY <1>1, <1>3, <2>2, BlockAllocated
    <3> DEFINE d == [inode[k].direct EXCEPT ![p] = b]
               g == [inode[k] EXCEPT !.direct = d]
    <3>3. inode' = [inode EXCEPT ![k] = g] BY <1>5, <1>6, <3>1
    <3>4. inode[k].direct[p] = -1 BY <1>5, <1>6, <2>2
    <3> HIDE DEF b, d
    <3>5. d[p] = b /\ \A l \in 0..(Direct - 1) : l # p => d[l] = inode[k].direct[l]
      BY <1>7 DEF d
    <3>6. g.direct = d /\ g.index = inode[k].index /\ g.taken = inode[k].taken
          /\ g.size = inode[k].size
      BY <1>4, <1>5 DEF Inode
    <3> HIDE DEF g, i
    <3>7. inode'[k] = g /\ \A j \in File \ {k} : inode'[j] = inode[j] BY <1>4, <3>3
    <3>8. g.direct[p] = b /\ \A l \in 0..(Direct - 1) : inode[k].direct[l] # -1 =>
                                g.direct[l] = inode[k].direct[l]
      BY <3>4, <3>5, <3>6
    <3>9. \A j \in File \ {k} : inode'[j] = inode[j] BY <3>7
    <3>10. inode'[k] = g BY <3>7
    <3>11. freeBlocks' \subseteq freeBlocks BY <3>1
    <3> QED BY <3>2, <3>6, <3>8, <3>9, <3>10, <3>11
  <2> QED BY <2>1, <2>2
<1>9. HasBlock(k, p)' BY <1>8, Sizes DEF HasBlock, BlockOf
<1>10. \A x \in Block : CellsKept(x) BY <1>2 DEF CellsKept
<1>11. p \in Nat OBVIOUS
<1> QED BY <1>2, <1>3, <1>5, <1>6, <1>8, <1>9, <1>10, <1>11, TurnBytes

\* So it has the block of an entry; the entry behind the last one is set, too, if
\* it was not, and is a number of a block, too.
LEMMA AllocateIndirectBytes ==
  ASSUME IInv, BlockInv, WholeInv, NEW t \in Thread, AllocateIndirect(t)
  PROVE  WholeInv'
<1> DEFINE c == thread[t]
           i == openFiles[c.h].inum
           x == inode[i].index
           a == Entry(x, c.i - Direct)
           b == NextBlock
<1>1. Typed BY DEF IInv
<1>2. /\ c.pc = "write" /\ NextI(t) /\ c.i >= Direct /\ c.i < Amount(t) /\ ~crashed
      /\ UNCHANGED <<inode, dir, openFiles>>
  BY DEF AllocateIndirect, Crash
<1> SUFFICES ASSUME ~damaged' PROVE WholeInv' BY Zenon DEF WholeInv
<1>3. ~damaged BY Zenon DEF AllocateIndirect, Allocated, Crash
<1>4. CleanInv /\ FileInv BY <1>3 DEF WholeInv
<1>5. PICK k \in File : /\ k = i /\ Indexed(k) /\ inode[k].taken
                        /\ inode[k].index \in Block \ {0}
  BY <1>2, <1>4, WrittenFile
<1>6. PICK p \in Nat : p = c.i /\ p >= Direct BY <1>1, <1>2, ThreadTyped
<1>7. x \in Block /\ x # -1 BY <1>5 DEF Block
<1>8. \/ /\ a \in Address => fsData[a] = 0
         /\ fsData' = IF a \in Address THEN [fsData EXCEPT ![a] = b] ELSE fsData
         /\ Allocated(b) /\ b # -1
      \/ /\ a \in Address => fsData[a] # 0
         /\ UNCHANGED <<fsData, freeBlocks>>
  BY <1>7, Zenon DEF AllocateIndirect, Allocated
<1>9. b # -1 => b \in Block \ {0} BY <1>1, BlockAllocated
<1>10. /\ freeBlocks' \subseteq freeBlocks
       /\ \A y \in Address : fsData'[y] = fsData[y]
                             \/ (fsData[y] = 0 /\ fsData'[y] \in Block)
       /\ a \in Address => /\ fsData'[a] # 0
                           /\ fsData[a] \in Block => fsData'[a] \in Block \ {0}
  <2> HIDE DEF a, b
  <2>1. fsData \in [Address -> Block \cup {-1, Data}] BY <1>1 DEF Typed
  <2>2. CASE UNCHANGED <<fsData, freeBlocks>> /\ (a \in Address => fsData[a] # 0) BY <2>2
  <2>3. CASE /\ a \in Address => fsData[a] = 0
             /\ fsData' = IF a \in Address THEN [fsData EXCEPT ![a] = b] ELSE fsData
             /\ Allocated(b) /\ b # -1
    <3>1. freeBlocks' \subseteq freeBlocks BY <2>3 DEF Allocated
    <3>2. b \in Block \ {0} BY <1>9, <2>3
    <3> QED BY <2>1, <2>3, <3>1, <3>2
  <2> QED BY <1>8, <2>2, <2>3
<1>11. \A y \in Block : CellsKept(y)
  <2>1. \A y \in Block : \A e \in 0..(Entries - 1) : Entry(y, e) \in Address BY EntryIsIn
  <2> QED BY <1>10, <2>1 DEF CellsKept
<1>12. ASSUME p < Direct + Entries PROVE HasBlock(k, p)'
  <2>1. p - Direct \in 0..(Entries - 1) BY <1>6, <1>12, Sizes
  <2>2. PICK y : y = Entry(inode[k].index, p - Direct) OBVIOUS
  <2>3. y = a BY <1>5, <1>6, <2>2
  <2>4. y \in Address BY <1>5, <2>1, <2>2, EntryIsIn
  <2>5. Listed(inode[k].index) BY <1>5 DEF Listed
  <2>6. fsData[y] \in Block BY <1>4, <1>5, <2>1, <2>2, <2>5 DEF CleanInv
  <2>7. fsData'[y] \in Block \ {0} BY <1>10, <2>3, <2>4, <2>6
  <2>8. ~(p < Direct) BY <1>6, Sizes
  <2>9. BlockOf(inode[k], p)' = fsData'[y]
    BY <1>2, <1>5, <1>7, <2>2, <2>8 DEF BlockOf, Entry
  <2> QED BY <2>7, <2>9 DEF HasBlock
<1> QED BY <1>2, <1>3, <1>5, <1>6, <1>10, <1>11, <1>12, TurnBytes

\* The block a writer copies to is one its file has, so it is neither free nor
\* read as numbers.
LEMMA WrittenBlock ==
  ASSUME IInv, BlockInv, FileInv, NEW t \in Thread, WriteInv(t), thread[t].pc = "write",
         thread[t].i = Amount(t), NEW i \in File, i = openFiles[thread[t].h].inum,
         NEW b, b = BlockOf(inode[i], openFiles[thread[t].h].offset \div BlockSize)
  PROVE  b \in Block /\ \A x : Listed(x) => x # b
<1> DEFINE off == openFiles[thread[t].h].offset
           q == off \div BlockSize
<1>1. off \in Nat /\ thread[t].n \in Nat BY WriterHasFile, ThreadTyped DEF IInv
<1>2. thread[t].n > 0 /\ off + thread[t].n <= MaxSize /\ MaxSize \in Nat
  BY Sizes, Products DEF WriteInv, MaxSize
<1>3. q \in 0..(Direct + Entries - 1) BY <1>1, <1>2, BlockNumber
<1>4. q < thread[t].i
  <2>0. PICK r \in 0..(BlockSize - 1) : off = q * BlockSize + r BY <1>1, Division
  <2>1. q \in Nat /\ q * BlockSize \in Nat BY <1>1, Division
  <2> HIDE DEF q
  <2>2. q * BlockSize <= off + thread[t].n /\ off + thread[t].n \in Nat
    <3>1. PICK x \in Nat : x = q * BlockSize BY <2>1
    <3>2. off = x + r BY <2>0, <3>1
    <3>3. r \in Nat BY Sizes
    <3>4. x <= off + thread[t].n /\ off + thread[t].n \in Nat BY <1>1, <3>2, <3>3
    <3> QED BY <3>1, <3>4
  <2>3. q <= (off + thread[t].n) \div BlockSize BY <2>1, <2>2, BeginsBefore
  <2>4. (off + thread[t].n) \div BlockSize \in Nat BY <2>2, Division
  <2> QED BY <2>1, <2>3, <2>4 DEF Amount
<1>5. b \in Block \ {0}
  <2>1. HasBlock(i, q) BY <1>3, <1>4 DEF WriteInv
  <2> QED BY <2>1 DEF HasBlock
<1>6. Indexed(i) /\ inode[i].index \in Block \ {0} BY WrittenFile
<1> HIDE DEF q, off
<1>7. b = BlockOf(inode[i], q) BY DEF q, off
<1>8. PICK d, m, l : Holds(d, m, l, b) /\ d # "index"
  <2>1. CASE q < Direct
    <3>1. q \in 0..(Direct - 1) BY <1>3, <2>1, Sizes
    <3>2. b = inode[i].direct[q] BY <1>7, <2>1 DEF BlockOf
    <3>3. Place("direct", i, q) BY ONLY i \in File, <3>1, Zenon DEF Place
    <3>4. Value("direct", i, q) = b BY ONLY <3>2, Zenon DEF Value
    <3>5. Holds("direct", i, q, b) BY ONLY <1>5, <3>3, <3>4, Zenon DEF Holds
    <3>6. "direct" # "index" OBVIOUS
    <3> QED BY ONLY <3>5, <3>6, Zenon
  <2>2. CASE ~(q < Direct)
    <3>1. q - Direct \in 0..(Entries - 1) BY <1>3, <2>2, Sizes
    <3>2. PICK a \in Address : a = Entry(inode[i].index, q - Direct)
      BY <1>6, <3>1, EntryIsIn
    <3>3. inode[i].index # -1 BY <1>6 DEF Block
    <3>4. b = fsData[a] BY <1>7, <2>2, <3>2, <3>3 DEF BlockOf
    <3>5. Place("cell", a, 0) BY ONLY a \in Address, Zenon DEF Place
    <3>6. Value("cell", a, 0) = b BY ONLY <3>4, Zenon DEF Value
    <3>7. Holds("cell", a, 0, b) BY ONLY <1>5, <3>5, <3>6, Zenon DEF Holds
    <3>8. "cell" # "index" OBVIOUS
    <3> QED BY ONLY <3>7, <3>8, Zenon
  <2> QED BY <2>1, <2>2
<1>9. b \notin freeBlocks BY <1>8 DEF BlockInv, AloneInv
<1>10. ASSUME NEW j \in File, Indexed(j) PROVE inode[j].index # b
  <2>1. inode[j].index \in Block \ {0} BY <1>10, IndexedFile DEF Indexed
  <2>2. Holds("index", j, 0, inode[j].index) BY <1>10, <2>1 DEF Holds, Place, Value
  <2> QED BY <1>8, <2>2 DEF BlockInv, AloneInv
<1> QED BY <1>5, <1>9, <1>10 DEF Listed

\* A write that stays in its block leaves the numbers in other blocks, and when it
\* is over, the size reaches no further than what the loop allocated.
LEMMA CopyPieceBytes ==
  ASSUME IInv, BlockInv, WholeInv, NEW t \in Thread, CopyPiece(t)
  PROVE  WholeInv'
<1> DEFINE c == thread[t]
           i == openFiles[c.h].inum
           off == openFiles[c.h].offset
           fill == BlockSize - inode[i].last
           n == Min({fill, c.n})
           b == BlockOf(inode[i], off \div BlockSize)
           from == off % BlockSize
           to == {Entry(b, p \div IntSize) : p \in from..(from + n - 1)}
           edge == Entry(b, (from + n - 1) \div IntSize)
           done == c.n <= fill
           l == IF done THEN inode[i].last + n ELSE 0
           z == IF done THEN Max({inode[i].size, off + n}) ELSE inode[i].size
<1>1. Typed BY DEF IInv
<1>2. c.pc = "write" /\ c.i = Amount(t) /\ ~crashed BY DEF CopyPiece
<1>3. /\ inode \in [File -> Inode] /\ i \in File /\ inode[i] \in Inode /\ inode[i].taken
      /\ c.h \in Handle /\ c.h \in c.own /\ off \in Nat /\ c.n \in Nat /\ c.i \in Nat
  BY <1>1, <1>2, WriterHasFile, HandleIsFile, ThreadTyped DEF Typed
<1>4. PICK m : m = n OBVIOUS
<1>5. /\ m \in Nat /\ m <= c.n
      /\ thread'[t].pc = "write" => /\ thread'[t].h = c.h /\ thread'[t].i = c.i
                                    /\ thread'[t].n = c.n - m /\ thread'[t].n > 0
      /\ \A u \in Thread \ {t} : thread'[u] = thread[u]
  BY <1>4, PieceCopied
<1>6. CASE Crash
  <2>1. UNCHANGED <<inode, freeBlocks, fsData, openFiles, damaged>> /\ crashed'
    BY <1>6 DEF Crash
  <2> QED BY <1>2, <1>5, <2>1, NoWriterCame, WholeUntouched
<1>7. CASE /\ \E v : fsData' = [a \in Address |-> IF a \notin to THEN fsData[a]
                                                 ELSE IF a = edge THEN v ELSE Data]
           /\ openFiles' = [openFiles EXCEPT ![c.h].offset = off + n]
           /\ inode' = [inode EXCEPT ![i].last = l, ![i].size = z]
           /\ damaged' = (damaged \/ from + n > BlockSize)
           /\ UNCHANGED <<freeBlocks, crashed>>
  <2> SUFFICES ASSUME ~damaged' PROVE WholeInv' BY Zenon DEF WholeInv
  <2>1. ~damaged /\ ~(from + m > BlockSize) BY <1>4, <1>7, Zenon
  <2>2. FileInv /\ WriteInv(t) BY <1>2, <2>1 DEF WholeInv
  <2>3. PICK k \in File : k = i BY <1>3
  <2>4. PICK o \in Nat : o = off + m BY <1>3, <1>5
  <2>5. PICK y : y = b OBVIOUS
  <2>6. y \in Block /\ \A x : Listed(x) => x # y BY <1>2, <2>2, <2>3, <2>5, WrittenBlock
  <2>7. \A x \in Block : Listed(x) => CellsKept(x)
    <3> SUFFICES ASSUME NEW x \in Block, x # y, NEW e \in 0..(Entries - 1)
                 PROVE  fsData'[Entry(x, e)] = fsData[Entry(x, e)]
      BY <2>6 DEF CellsKept
    <3>1. PICK r \in 0..(BlockSize - 1) : r = off % BlockSize BY <1>3, Division
    <3>2. r + m <= BlockSize /\ BlockSize \in Nat BY <1>5, <2>1, <3>1, Sizes
    <3>3. PICK a \in Address : a = Entry(x, e) BY EntryIsIn
    <3>4. ASSUME NEW p \in r..(r + m - 1) PROVE a # Entry(y, p \div IntSize)
      <4>1. p \in 0..(BlockSize - 1) BY <1>5, <3>2
      <4>2. p \div IntSize \in 0..(Entries - 1) BY <4>1, EntryOfByte
      <4> QED BY <2>6, <3>3, <4>2, EntriesApart
    <3>5. a \notin to BY <1>4, <2>5, <3>1, <3>4
    <3> HIDE DEF from, n, to, edge
    <3> QED BY <1>7, <3>3, <3>5
  <2> DEFINE g == [inode[i] EXCEPT !.last = l, !.size = z]
  <2>8. inode' = [inode EXCEPT ![i] = g] BY <1>7
  <2>9. openFiles' = [openFiles EXCEPT ![c.h].offset = o] BY <1>4, <1>7, <2>4
  <2>10. z = inode[k].size \/ (done /\ z = o)
    <3>1. inode[i].size \in Nat /\ off + m \in Nat BY <1>3, <2>4 DEF Inode
    <3>2. Max({inode[i].size, off + m}) \in {inode[i].size, off + m} BY <3>1, LargerOf
    <3> HIDE DEF n
    <3> QED BY <1>4, <2>3, <2>4, <3>2
  <2>11. o + 0 <= off + c.n /\ off + c.n \in Nat BY <1>3, <1>5, <2>4
  <2> HIDE DEF l, done
  <2>12. PICK s : s = z OBVIOUS
  <2> HIDE DEF z
  <2>13. /\ g.direct = inode[i].direct /\ g.index = inode[i].index /\ g.taken = inode[i].taken
         /\ g.size = s
    BY <1>3, <2>12 DEF Inode
  <2> HIDE DEF g
  <2>14. inode'[k] = g /\ \A j \in File \ {k} : inode'[j] = inode[j] BY <1>3, <2>3, <2>8
  <2>15. \A j \in Handle : openFiles'[j].inum = openFiles[j].inum
    BY <1>1, <1>3, <2>9, OffsetSet
  <2>16. openFiles'[c.h].offset = o /\ \A j \in Handle \ {c.h} : openFiles'[j] = openFiles[j]
    BY <1>1, <1>3, <2>9 DEF Typed
  <2>17. \A u \in Thread \ {t} : \A j \in thread[u].own : openFiles'[j] = openFiles[j]
    BY <1>3, <2>16, OthersHandles
  <2>18. \A j : Busy(j)' => Busy(j) BY <1>2, <1>5, <2>15, NoWriterCame
  <2>19. Busy(k) BY <1>2, <2>3, WriterIsBusy
  <2>20. \A j \in File : /\ inode'[j].direct = inode[j].direct
                         /\ inode'[j].index = inode[j].index
                         /\ inode'[j].taken = inode[j].taken
                         /\ Indexed(j)' => Indexed(j)
    BY <2>3, <2>13, <2>14, <2>18, <2>19 DEF Indexed
  <2>21. \A j \in File : Indexed(j) => FileKept(j)
    <3> SUFFICES ASSUME NEW j \in File, Indexed(j) PROVE FileKept(j) OBVIOUS
    <3>1. inode[j].index \in Block /\ Listed(inode[j].index)
      BY <2>2, IndexedFile DEF Indexed, Listed
    <3> QED BY <2>7, <2>20, <3>1 DEF FileKept
  <2>22. \A x \in Block : Listed(x)' => Listed(x) /\ CellsKept(x)
    <3>1. \A x \in Block : Listed(x)' => Listed(x) BY <1>7, <2>20 DEF Listed
    <3> QED BY <2>7, <3>1
  <2>23. \A q \in 0..(Direct + Entries - 1) : q < c.i => HasBlock(k, q) /\ HasBlock(k, q)'
    <3>1. Indexed(k) /\ inode[k].index \in Block BY <1>2, <2>2, <2>3, WrittenFile
    <3>2. \A q \in 0..(Direct + Entries - 1) : q < c.i => HasBlock(k, q)
      BY <1>2, <2>2, <2>3 DEF WriteInv
    <3> QED BY <2>21, <3>1, <3>2, StillHas DEF IInv
  <2>24. FileInv'
    <3>1. ASSUME NEW j \in File, inode'[j].taken, j # k \/ s = inode[k].size
          PROVE  WholeFile(j)'
      <4>1. inode'[j].index # -1 BY <2>2, <2>20, <3>1 DEF FileInv, WholeFile
      <4>2. inode'[j].size = inode[j].size BY <2>13, <2>14, <3>1
      <4> QED BY <2>2, <2>20, <2>21, <3>1, <4>1, <4>2, FileWhole
    <3>2. ASSUME s = o PROVE WholeFile(k)'
      <4>1. inode'[k].index # -1 BY <1>3, <2>2, <2>3, <2>20 DEF FileInv, WholeFile
      <4>2. inode'[k].size = o BY <2>13, <2>14, <3>2
      <4>3. o <= MaxSize
        <5>1. off + c.n <= MaxSize /\ MaxSize \in Nat
          BY <1>2, <2>2, Sizes, Products DEF WriteInv, MaxSize
        <5> QED BY <2>11, <5>1
      <4>4. ASSUME NEW q \in 0..(Direct + Entries - 1), q * BlockSize < o
            PROVE  HasBlock(k, q)'
        <5>1. q \in Nat /\ q * BlockSize \in Nat BY Sizes, Products
        <5>2. q * BlockSize <= off + c.n BY <2>11, <4>4, <5>1
        <5>3. q <= (off + c.n) \div BlockSize BY <2>11, <5>1, <5>2, BeginsBefore
        <5>4. (off + c.n) \div BlockSize \in Nat /\ c.i = (off + c.n) \div BlockSize + 1
          BY <1>2, <2>11, Division DEF Amount
        <5>5. q < c.i BY <5>1, <5>3, <5>4
        <5> QED BY <2>23, <5>5
      <4> QED BY <4>1, <4>2, <4>3, <4>4 DEF WholeFile
    <3>3. s = inode[k].size \/ s = o BY <2>10, <2>12
    <3>4. ASSUME NEW j \in File, inode'[j].taken PROVE WholeFile(j)'
      BY <3>1, <3>2, <3>3, <3>4
    <3> QED BY <3>4, Zenon DEF FileInv
  <2>25. WriteInv(t)'
    <3> SUFFICES ASSUME thread'[t].pc = "write" PROVE WriteInv(t)' BY DEF WriteInv
    <3>1. thread'[t].h = c.h /\ thread'[t].i = c.i /\ thread'[t].n = c.n - m /\ thread'[t].n > 0
      BY <1>5
    <3>2. openFiles'[thread'[t].h].offset + thread'[t].n = off + c.n
      BY <1>3, <1>5, <2>4, <2>16, <3>1
    <3>3. Amount(t)' = Amount(t) BY <3>2 DEF Amount
    <3>4. thread'[t].i <= Amount(t)' BY <1>2, <1>3, <3>1, <3>3
    <3>5. openFiles'[thread'[t].h].inum = k BY <1>3, <2>3, <2>15, <3>1
    <3>6. \A q \in 0..(Direct + Entries - 1) : q < thread'[t].i => HasBlock(k, q)'
      BY <2>23, <3>1
    <3>7. openFiles'[thread'[t].h].offset + thread'[t].n <= MaxSize
      BY <1>2, <2>2, <3>2 DEF WriteInv
    <3>8. ASSUME NEW u \in Thread \ {t}, thread'[u].pc = "write"
          PROVE  openFiles'[thread'[u].h].inum # k
      <4>1. thread[u].pc = "write" /\ thread'[u].h = thread[u].h BY <1>5, <3>8
      <4>2. thread[u].h \in Handle BY <4>1, WriterHasFile
      <4> QED BY <1>2, <2>2, <2>3, <2>15, <4>1, <4>2 DEF WriteInv
    <3> QED BY <3>1, <3>4, <3>5, <3>6, <3>7, <3>8 DEF WriteInv
  <2> QED BY <1>2, <1>5, <2>1, <2>17, <2>21, <2>22, <2>24, <2>25, WholeKept
<1>8. Crash \/ /\ \E v : fsData' = [a \in Address |-> IF a \notin to THEN fsData[a]
                                                     ELSE IF a = edge THEN v ELSE Data]
               /\ openFiles' = [openFiles EXCEPT ![c.h].offset = off + n]
               /\ inode' = [inode EXCEPT ![i].last = l, ![i].size = z]
               /\ damaged' = (damaged \/ from + n > BlockSize)
               /\ UNCHANGED <<freeBlocks, crashed>>
  BY DEF CopyPiece
<1> QED BY <1>6, <1>7, <1>8

\* In an empty file system there are no files, and every block is clear.
LEMMA InitBytes == Init => WholeInv
<1> SUFFICES ASSUME Init PROVE WholeInv OBVIOUS
<1>1. \A i \in File : ~inode[i].taken BY DEF Init
<1>2. CleanInv
  <2>1. \A x \in Block : \A e \in 0..(Entries - 1) : fsData[Entry(x, e)] = 0
    BY EntryIsIn DEF Init
  <2>2. 0 \in Block BY Sizes DEF Block
  <2> QED BY <2>1, <2>2 DEF CleanInv
<1>3. FileInv BY <1>1 DEF FileInv
<1>4. \A t \in Thread : WriteInv(t)
  <2>1. \A t \in Thread : thread[t].pc = "idle" BY DEF Init, Idle
  <2> QED BY <2>1 DEF WriteInv
<1> QED BY <1>2, <1>3, <1>4 DEF WholeInv

\* Every step leaves the files whole, or is one that damages them.
LEMMA NextBytes == IInv /\ BlockInv /\ WholeInv /\ [Next]_vars => WholeInv'
<1> SUFFICES ASSUME IInv, BlockInv, WholeInv, [Next]_vars PROVE WholeInv' OBVIOUS
<1>1. CASE UNCHANGED vars
  BY <1>1 DEF vars, WholeInv, CleanInv, Listed, Indexed, Busy, FileInv, WholeFile, WriteInv,
     HasBlock, BlockOf, Amount
<1>2. ASSUME NEW t \in Thread, NEW name \in Name, NEW flags \in Flags, Lookup(t, name, flags)
      PROVE  WholeInv' BY <1>2, LookupBytes
<1>3. ASSUME NEW t \in Thread, Truncate(t) PROVE WholeInv' BY <1>3, TruncateBytes
<1>4. ASSUME NEW t \in Thread, CreateInode(t) PROVE WholeInv' BY <1>4, CreateInodeBytes
<1>5. ASSUME NEW t \in Thread, LinkName(t) PROVE WholeInv' BY <1>5, LinkNameBytes
<1>6. ASSUME NEW t \in Thread, EnterTable(t) PROVE WholeInv' BY <1>6, EnterTableBytes
<1>7. ASSUME NEW t \in Thread, NEW h \in Handle, Close(t, h) PROVE WholeInv'
  BY <1>7, CloseBytes
<1>8. ASSUME NEW t \in Thread, NEW h \in Handle, NEW len \in Lengths, BeginWrite(t, h, len)
      PROVE  WholeInv' BY <1>8, BeginWriteBytes
<1>9. ASSUME NEW t \in Thread, NEW h \in Handle, NEW len \in Lengths, Read(t, h, len)
      PROVE  WholeInv' BY <1>9, ReadBytes
<1>10. ASSUME NEW t \in Thread, AllocateDirect(t) PROVE WholeInv'
  BY <1>10, AllocateDirectBytes
<1>11. ASSUME NEW t \in Thread, AllocateIndirect(t) PROVE WholeInv'
  BY <1>11, AllocateIndirectBytes
<1>12. ASSUME NEW t \in Thread, CopyPiece(t) PROVE WholeInv' BY <1>12, CopyPieceBytes
<1> QED BY <1>1, <1>2, <1>3, <1>4, <1>5, <1>6, <1>7, <1>8, <1>9, <1>10, <1>11, <1>12
        DEF Next

\* As long as no allocation failed and no write left its block, every byte below
\* the size of a file lies in a block that the file has, even when its index block
\* was given back with its old entries, and taken again, by it or by another file.
THEOREM BytesAreThere == Spec => []BytesHaveBlocks
<1>1. IInv /\ WholeInv => BytesHaveBlocks
  <2> SUFFICES ASSUME IInv, WholeInv, ~damaged, NEW i \in File, inode[i].taken,
                      NEW k \in 0..(inode[i].size - 1)
               PROVE  BlockOf(inode[i], k \div BlockSize) \in Block \ {0}
    BY DEF BytesHaveBlocks
  <2>1. WholeFile(i) /\ inode[i] \in Inode BY DEF WholeInv, FileInv, IInv, Typed
  <2>2. k \in Nat /\ k < inode[i].size /\ inode[i].size \in Nat BY <2>1 DEF Inode
  <2>3. k < MaxSize
    <3>1. inode[i].size <= MaxSize /\ MaxSize \in Nat
      BY <2>1, Sizes, Products DEF WholeFile, MaxSize
    <3> QED BY <2>2, <3>1
  <2>4. k \div BlockSize \in 0..(Direct + Entries - 1) BY <2>2, <2>3, BlockNumber
  <2> DEFINE q == k \div BlockSize
  <2>5. PICK r \in 0..(BlockSize - 1) : k = q * BlockSize + r BY <2>2, Division
  <2>6. q * BlockSize \in Nat BY <2>2, Division
  <2> HIDE DEF q
  <2>7. q * BlockSize < inode[i].size
    <3>1. PICK x \in Nat : x = q * BlockSize BY <2>6
    <3>2. k = x + r /\ r \in Nat BY <2>5, <3>1, Sizes
    <3>3. x < inode[i].size BY <2>2, <3>2
    <3> QED BY <3>1, <3>3
  <2>8. HasBlock(i, q) BY <2>1, <2>4, <2>7 DEF WholeFile, q
  <2> QED BY <2>8 DEF HasBlock, q
<1>2. IInv /\ TearInv /\ (~torn => BlockInv) /\ WholeInv /\ [Next]_vars => WholeInv'
  <2> SUFFICES ASSUME IInv, TearInv, ~torn => BlockInv, WholeInv, [Next]_vars, ~damaged'
               PROVE  WholeInv'
    BY Zenon DEF WholeInv
  <2>1. ~torn BY MarksStay, Zenon DEF TearInv
  <2> QED BY <2>1, NextBytes
<1>3. Spec => []WholeInv
  BY <1>2, InitBytes, EachInOnePlace, Invariant, Marks, PTL DEF Spec
<1> QED BY <1>1, <1>3, Invariant, PTL
=============================================================================
