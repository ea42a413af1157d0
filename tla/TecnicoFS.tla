------------------------------ MODULE TecnicoFS ------------------------------
(***************************************************************************)
(* TecnicoFS, a file system in memory: a table of inodes, one directory, a *)
(* map of free blocks and a table of open files, used by several threads.  *)
(*                                                                         *)
(* Each table has its own mutex and each inode a read-write lock; an       *)
(* operation takes them one after the other, so other threads come between *)
(* its parts.  A step below is one part under one lock; a write, which     *)
(* keeps the lock of its inode while it allocates block after block, is    *)
(* several.  A thread uses the handles it opened itself, and no others.    *)
(*                                                                         *)
(* A file has Direct blocks and more that its index block lists.  Sizes,   *)
(* offsets and lengths count bytes; what blocks hold is kept by entries,   *)
(* of an int each.  Files hold text, Data, which read as an entry is no    *)
(* number of a block: but where only the first byte of a number is written *)
(* over, there is no telling.  Nobody clears a block when it is freed.     *)
(***************************************************************************)
EXTENDS Integers, Sequences, FiniteSets, FiniteSetsExt

CONSTANTS
  Thread,
  Name,        \* the file names
  Flags,       \* the flag sets that tfs_open is called with
  Inodes,      \* INODE_TABLE_SIZE; inode 0 is the root directory
  Blocks,      \* DATA_BLOCKS; block 0 holds the directory
  Handles,     \* MAX_OPEN_FILES
  DirSize,     \* MAX_DIR_ENTRIES
  Entries,     \* BLOCK_SIZE / sizeof(int), the entries of an index block
  IntSize,     \* sizeof(int)
  Direct,      \* direct blocks of a file: 10
  Lengths,     \* the lengths that tfs_write and tfs_read are called with
  MaxOps       \* bound: operations of a thread

ASSUME SizeAssumption ==
  /\ {Inodes, Blocks, Handles, DirSize, Entries, Direct} \subseteq Nat \ {0}
  /\ IntSize \in Nat \ {0, 1}
  /\ Flags \subseteq SUBSET {"creat", "trunc", "append"}
  /\ Lengths \subseteq Nat /\ MaxOps \in Nat

File    == 1..(Inodes - 1)
Block   == 0..(Blocks - 1)
Handle  == 0..(Handles - 1)
BlockSize == Entries * IntSize
MaxSize == (Entries + Direct) * BlockSize
Address == 0..(Blocks * Entries - 1)     \* of the entries of all blocks
Data    == -2

VARIABLES
  inode,       \* inode_table without the root, and freeinode_ts
  dir,         \* the directory's entries, in the order they were made
  freeBlocks,  \* the blocks that free_blocks marks FREE
  fsData,      \* fs_data: what the blocks hold, one after the other
  openFiles,   \* open_file_table and free_open_file_entries
  thread,      \* per thread: the operation it is in, and its handles
  crashed,     \* the process has dereferenced a null pointer
  damaged,     \* history: an allocation failed, or a write left its block
  torn         \* history: a write left its block, and part of a number makes another

vars == <<inode, dir, freeBlocks, fsData, openFiles, thread, crashed, damaged, torn>>

Inode == [taken : BOOLEAN, size : Nat, index : Block \cup {-1},
          direct : [0..(Direct - 1) -> Block \cup {-1}], last : 0..BlockSize]

Local == [pc : {"idle", "truncate", "create", "link", "enter", "write"},
          name : Name \cup {"none"}, flags : SUBSET {"creat", "trunc", "append"},
          inum : 0..(Inodes - 1), offset : Nat,      \* tfs_open
          h : Handle, n : Nat, i : Nat,              \* tfs_write
          own : SUBSET Handle, ops : 0..MaxOps]

-----------------------------------------------------------------------------
(* Helpers of state.c. *)

LowestOr(S, none) == IF S = {} THEN none ELSE Min(S)

\* data_block_alloc, under its mutex: the block it returns, -1 for none.
NextBlock == LowestOr(freeBlocks, -1)
Allocated(b) == /\ freeBlocks' = freeBlocks \ {b}
                /\ damaged' = (damaged \/ b = -1)

\* find_in_dir, without a lock: the inode of the first entry with the name.
Find(name) == LET S == {j \in DOMAIN dir : dir[j].name = name}
              IN  IF S = {} THEN -1 ELSE dir[Min(S)].inum

\* data_block_get: where entry e of the index block x lies.
Entry(x, e) == x * Entries + e

\* The block with number k of a file.
BlockOf(f, k) == IF k < Direct THEN f.direct[k]
                 ELSE IF f.index = -1 THEN -1 ELSE fsData[Entry(f.index, k - Direct)]

\* The lock of inode i is held by a writer.
Busy(i) == \E t \in Thread : thread[t].pc = "write" /\ openFiles[thread[t].h].inum = i

\* A thread between two operations.
Idle == [pc |-> "idle", name |-> "none", flags |-> {}, inum |-> 0,
         offset |-> 0, h |-> 0, n |-> 0, i |-> 0, own |-> {}, ops |-> 0]

-----------------------------------------------------------------------------
Init ==
  /\ inode = [i \in File |-> [taken |-> FALSE, size |-> 0, index |-> 0, last |-> 0,
                              direct |-> [k \in 0..(Direct - 1) |-> 0]]]
  /\ dir = <<>>
  /\ freeBlocks = Block \ {0}
  /\ fsData = [a \in Address |-> 0]
  /\ openFiles = [h \in Handle |-> [taken |-> FALSE, inum |-> 0, offset |-> 0]]
  /\ thread = [t \in Thread |-> Idle]
  /\ crashed = FALSE
  /\ damaged = FALSE /\ torn = FALSE

\* t starts an operation, goes on with it, and ends it with the handles own.
Starts(t) == ~crashed /\ thread[t].pc = "idle" /\ thread[t].ops < MaxOps
Counted(t) == thread' = [thread EXCEPT ![t].ops = @ + 1]
GoTo(t, pc) == thread' = [thread EXCEPT ![t].pc = pc]
End(t, own) == thread' = [thread EXCEPT ![t] =
                            [Idle EXCEPT !.own = own, !.ops = thread[t].ops]]
Leave(t) == End(t, thread[t].own)

Crash == crashed' = TRUE /\ UNCHANGED <<inode, dir, freeBlocks, fsData, openFiles, damaged, torn>>

-----------------------------------------------------------------------------
(* tfs_open. *)

Lookup(t, name, flags) ==
  LET i == Find(name) IN
  /\ Starts(t)
  /\ \/ /\ i = -1 /\ "creat" \notin flags
        /\ Counted(t)
     \/ /\ i = -1 /\ "creat" \in flags
        /\ thread' = [thread EXCEPT ![t] =
             [thread[t] EXCEPT !.ops = @ + 1, !.pc = "create", !.name = name]]
     \/ /\ i # -1
        /\ thread' = [thread EXCEPT ![t] =
             [thread[t] EXCEPT !.ops = @ + 1, !.pc = "truncate", !.flags = flags,
                               !.inum = i]]
  /\ UNCHANGED <<inode, dir, freeBlocks, fsData, openFiles, crashed, damaged, torn>>

\* Mutant: the size is not reset.
MutantTruncate(t) ==
  LET c == thread[t]
      f == inode[c.inum]
      cut == "trunc" \in c.flags /\ f.size > 0
  IN
  /\ ~crashed /\ c.pc = "truncate" /\ ~Busy(c.inum)
  /\ freeBlocks' = IF cut THEN freeBlocks \cup ({f.index} \ {-1}) ELSE freeBlocks
  /\ thread' = [thread EXCEPT ![t].pc = "enter",
                  ![t].offset = IF "append" \in c.flags THEN f.size ELSE 0]
  /\ UNCHANGED <<inode, dir, fsData, openFiles, crashed, damaged, torn>>

\* The file exists: under the lock of its inode it loses its index block, not
\* its direct blocks, if it is to be truncated.  A file that got no index block
\* cannot be truncated any more.
Truncate(t) ==
  LET c == thread[t]
      f == inode[c.inum]
      cut == "trunc" \in c.flags /\ f.size > 0
  IN
  /\ ~crashed /\ c.pc = "truncate" /\ ~Busy(c.inum)
  /\ IF cut /\ f.index = -1
     THEN Leave(t) /\ UNCHANGED <<inode, freeBlocks>>
     ELSE /\ inode' = IF cut THEN [inode EXCEPT ![c.inum].size = 0] ELSE inode
          /\ freeBlocks' = IF cut THEN freeBlocks \cup {f.index} ELSE freeBlocks
          /\ thread' = [thread EXCEPT ![t].pc = "enter",
               ![t].offset = IF "append" \in c.flags /\ ~cut THEN f.size ELSE 0]
  /\ UNCHANGED <<dir, fsData, openFiles, crashed, damaged, torn>>

\* inode_create(T_FILE): the first free inode, with a block of its own that
\* the first write will replace.
CreateInode(t) ==
  LET i == LowestOr({j \in File : ~inode[j].taken}, -1)
      b == NextBlock
  IN
  /\ ~crashed /\ thread[t].pc = "create"
  /\ IF i = -1 \/ b = -1
     THEN /\ Leave(t)
          /\ damaged' = (damaged \/ i # -1)
          /\ UNCHANGED <<inode, freeBlocks, fsData>>
     ELSE /\ inode' = [inode EXCEPT ![i] =
               [inode[i] EXCEPT !.taken = TRUE, !.size = 0, !.index = b,
                                !.direct = [k \in 0..(Direct - 1) |-> -1]]]
          /\ fsData' = [a \in Address |-> IF a \div Entries = b THEN -1 ELSE fsData[a]]
          /\ Allocated(b)
          /\ thread' = [thread EXCEPT ![t].pc = "link", ![t].inum = i]
  /\ UNCHANGED <<dir, openFiles, crashed, torn>>

\* Mutant: a full directory is noticed one entry too late.
MutantLinkName(t) ==
  LET i == thread[t].inum IN
  /\ ~crashed /\ thread[t].pc = "link"
  /\ dir' = Append(dir, [name |-> thread[t].name, inum |-> i])
  /\ IF Len(dir) < DirSize
     THEN GoTo(t, "enter") /\ UNCHANGED inode
     ELSE Leave(t) /\ inode' = [inode EXCEPT ![i].taken = FALSE]
  /\ UNCHANGED <<freeBlocks, fsData, openFiles, crashed, damaged, torn>>

\* add_dir_entry to the root; when it is full, inode_delete of the new inode
\* (whose size is 0, so none of its blocks is freed).
LinkName(t) ==
  LET i == thread[t].inum IN
  /\ ~crashed /\ thread[t].pc = "link"
  /\ IF Len(dir) < DirSize
     THEN /\ dir' = Append(dir, [name |-> thread[t].name, inum |-> i])
          /\ GoTo(t, "enter")
          /\ UNCHANGED inode
     ELSE /\ inode' = [inode EXCEPT ![i].taken = FALSE]
          /\ Leave(t)
          /\ UNCHANGED dir
  /\ UNCHANGED <<freeBlocks, fsData, openFiles, crashed, damaged, torn>>

\* Mutant: the entry that is filled is not looked for among the free ones.
MutantEnterTable(t) ==
  LET h == 0
      c == thread[t]
  IN
  /\ ~crashed /\ c.pc = "enter"
  /\ openFiles' = [openFiles EXCEPT ![h] = [taken |-> TRUE, inum |-> c.inum,
                                            offset |-> c.offset]]
  /\ End(t, c.own \cup {h})
  /\ UNCHANGED <<inode, dir, freeBlocks, fsData, crashed, damaged, torn>>

\* add_to_open_file_table: the first free handle, if there is one.
EnterTable(t) ==
  LET h == LowestOr({j \in Handle : ~openFiles[j].taken}, -1)
      c == thread[t]
  IN
  /\ ~crashed /\ c.pc = "enter"
  /\ IF h = -1
     THEN Leave(t) /\ UNCHANGED openFiles
     ELSE /\ openFiles' = [openFiles EXCEPT ![h] = [taken |-> TRUE, inum |-> c.inum,
                                                    offset |-> c.offset]]
          /\ End(t, c.own \cup {h})
  /\ UNCHANGED <<inode, dir, freeBlocks, fsData, crashed, damaged, torn>>

\* tfs_close.
Close(t, h) ==
  /\ Starts(t) /\ h \in thread[t].own
  /\ openFiles' = [openFiles EXCEPT ![h].taken = FALSE]
  /\ thread' = [thread EXCEPT ![t].own = @ \ {h}, ![t].ops = @ + 1]
  /\ UNCHANGED <<inode, dir, freeBlocks, fsData, crashed, damaged, torn>>

-----------------------------------------------------------------------------
(* tfs_write. *)

\* The length is cut at the largest size (past it, the difference wraps around
\* and the copy runs out of memory).  An empty file gets a new index block.
BeginWrite(t, h, len) ==
  LET i   == openFiles[h].inum
      off == openFiles[h].offset
      n   == IF len + off > MaxSize THEN MaxSize - off ELSE len
      b   == NextBlock
  IN
  /\ Starts(t) /\ h \in thread[t].own /\ ~Busy(i)
  /\ \/ /\ n < 0
        /\ Counted(t) /\ Crash
     \/ /\ n = 0
        /\ Counted(t)
        /\ UNCHANGED <<inode, dir, freeBlocks, fsData, openFiles, crashed, damaged, torn>>
     \/ /\ n > 0
        /\ thread' = [thread EXCEPT ![t] =
             [thread[t] EXCEPT !.ops = @ + 1, !.pc = "write", !.h = h, !.n = n, !.i = 0]]
        /\ IF inode[i].size = 0
           THEN inode' = [inode EXCEPT ![i].index = b] /\ Allocated(b)
           ELSE UNCHANGED <<inode, freeBlocks, damaged>>
        /\ UNCHANGED <<dir, fsData, openFiles, crashed, torn>>

\* Mutant: the last block is left out.
MutantAmount(t) == (openFiles[thread[t].h].offset + thread[t].n) \div BlockSize

\* The number of blocks that allocate_blocks goes through.
Amount(t) == (openFiles[thread[t].h].offset + thread[t].n) \div BlockSize + 1

NextI(t) == thread' = [thread EXCEPT ![t].i = @ + 1]

\* One turn of the loop of allocate_blocks, a direct block.
AllocateDirect(t) ==
  LET c == thread[t]
      i == openFiles[c.h].inum
      b == NextBlock
  IN
  /\ ~crashed /\ c.pc = "write" /\ c.i < Amount(t) /\ c.i < Direct
  /\ NextI(t)
  /\ IF inode[i].direct[c.i] = -1
     THEN inode' = [inode EXCEPT ![i].direct[c.i] = b] /\ Allocated(b)
     ELSE UNCHANGED <<inode, freeBlocks, damaged>>
  /\ UNCHANGED <<dir, fsData, openFiles, crashed, torn>>

\* One turn for an entry of the index block: 0 is taken for an entry that is
\* not set.  A file that is filled up makes the loop go one entry too far, to
\* the first of the next block, whatever that holds.
AllocateIndirect(t) ==
  LET c == thread[t]
      x == inode[openFiles[c.h].inum].index
      a == Entry(x, c.i - Direct)
      b == NextBlock
  IN
  /\ ~crashed /\ c.pc = "write" /\ c.i < Amount(t) /\ c.i >= Direct
  /\ NextI(t)
  /\ \/ x = -1 /\ Crash
     \/ /\ x # -1
        /\ \/ /\ a \in Address => fsData[a] = 0
              /\ fsData' = IF a \in Address THEN [fsData EXCEPT ![a] = b] ELSE fsData
              /\ Allocated(b)
           \/ /\ a \in Address => fsData[a] # 0
              /\ UNCHANGED <<fsData, freeBlocks, damaged>>
        /\ UNCHANGED <<inode, dir, openFiles, crashed, torn>>

\* What an entry may be when the bytes of a block from up to the one before end are written over,
\* which may lie behind the block: text, or, where they only reach the first byte of a number,
\* another number.  (Of the data of a file nobody reads an entry.)
Overwritten(b, from, end, a) ==
  IF a = Entry(b, (end - 1) \div IntSize) /\ end > BlockSize /\ (end - 1) % IntSize = 0
     /\ fsData[a] \in Block
  THEN {Data} \cup (Block \ {0}) ELSE {Data}

\* One call of write_aux_rec: the first copies as much as the last write to the
\* inode left of a block, the others the length of a block, wherever in a block
\* they start; what lies behind that block is written over.  Behind the last
\* block lie other tables, and nothing is said of what follows.
CopyPiece(t) ==
  LET c    == thread[t]
      i    == openFiles[c.h].inum
      off  == openFiles[c.h].offset
      fill == BlockSize - inode[i].last
      n    == Min({fill, c.n})
      b    == BlockOf(inode[i], off \div BlockSize)
      from == off % BlockSize
      to   == {Entry(b, p \div IntSize) : p \in from..(from + n - 1)}
      edge == Entry(b, (from + n - 1) \div IntSize)
      done == c.n <= fill
  IN
  /\ ~crashed /\ c.pc = "write" /\ c.i = Amount(t)
  /\ IF done THEN Leave(t) ELSE thread' = [thread EXCEPT ![t].n = @ - n]
  /\ \/ /\ b \notin Block \/ ~(to \subseteq Address)
        /\ Crash
     \/ /\ b \in Block /\ to \subseteq Address
        /\ \E v \in Overwritten(b, from, from + n, edge) :
             /\ fsData' = [a \in Address |-> IF a \notin to THEN fsData[a]
                                            ELSE IF a = edge THEN v ELSE Data]
             /\ torn' = (torn \/ v # Data)
        /\ openFiles' = [openFiles EXCEPT ![c.h].offset = off + n]
        /\ inode' = [inode EXCEPT ![i].last = IF done THEN @ + n ELSE 0,
                                  ![i].size = IF done THEN Max({@, off + n}) ELSE @]
        /\ damaged' = (damaged \/ from + n > BlockSize)
        /\ UNCHANGED <<dir, freeBlocks, crashed>>

-----------------------------------------------------------------------------
\* tfs_read, under the lock of the inode as a reader.  Past the size (the file
\* was truncated since) the difference wraps around, and the whole length is
\* read, from blocks that may not be there.
Read(t, h, len) ==
  LET off == openFiles[h].offset
      f   == inode[openFiles[h].inum]
      n   == IF off > f.size THEN len ELSE Min({len, f.size - off})
      ks  == (off \div BlockSize)..((off + n - 1) \div BlockSize)
      past == ks \ (0..(Direct + Entries - 1))
      Missing == {k \in ks \ past : BlockOf(f, k) \notin Block}
  IN
  /\ Starts(t) /\ h \in thread[t].own /\ ~Busy(openFiles[h].inum)
  /\ Counted(t)
  /\ \/ /\ n = 0 \/ f.index = -1
        /\ UNCHANGED <<inode, dir, freeBlocks, fsData, openFiles, crashed, damaged, torn>>
     \/ /\ n > 0 /\ f.index # -1
        /\ past \cup Missing # {}
        /\ Crash
     \/ /\ n > 0 /\ f.index # -1
        /\ Missing = {}
        /\ openFiles' = [openFiles EXCEPT ![h].offset = off + n]
        /\ UNCHANGED <<inode, dir, freeBlocks, fsData, crashed, damaged, torn>>

Next ==
  \E t \in Thread :
    \/ \E name \in Name, flags \in Flags : Lookup(t, name, flags)
    \/ Truncate(t) \/ CreateInode(t) \/ LinkName(t) \/ EnterTable(t)
    \/ \E h \in Handle : Close(t, h)
    \/ \E h \in Handle, len \in Lengths : BeginWrite(t, h, len) \/ Read(t, h, len)
    \/ AllocateDirect(t) \/ AllocateIndirect(t) \/ CopyPiece(t)

Spec == Init /\ [][Next]_vars

-----------------------------------------------------------------------------
(* Properties. *)

\* The tables have the types of their fields, and the threads those of what they do.
Typed ==
  /\ inode \in [File -> Inode]
  /\ dir \in Seq([name : Name, inum : File]) /\ Len(dir) <= DirSize
  /\ freeBlocks \subseteq Block \ {0}
  /\ fsData \in [Address -> Block \cup {-1, Data}]
  /\ openFiles \in [Handle -> [taken : BOOLEAN, inum : 0..(Inodes - 1), offset : Nat]]
  /\ thread \in [Thread -> Local]
  /\ crashed \in BOOLEAN /\ damaged \in BOOLEAN

\* The variables keep the types of their fields.
TypeOK == Typed /\ torn \in BOOLEAN

\* A file has its index block from its first write until it is truncated.
Indexed(i) == inode[i].taken /\ inode[i].index # -1 /\ (inode[i].size > 0 \/ Busy(i))

\* The places where file i names a block of its own.
Places(i) ==
  {<<"direct", k>> : k \in {k \in 0..(Direct - 1) : inode[i].taken /\ inode[i].direct[k] # -1}}
  \cup (IF Indexed(i)
        THEN {<<"index", 0>>} \cup
             {<<"entry", e>> : e \in {e \in 0..(Entries - 1) :
                                        fsData[Entry(inode[i].index, e)] \in Block \ {0}}}
        ELSE {})
At(i, p) == CASE p[1] = "direct" -> inode[i].direct[p[2]]
              [] p[1] = "index"  -> inode[i].index
              [] p[1] = "entry"  -> fsData[Entry(inode[i].index, p[2])]

\* No block serves two purposes: truncation gives back a block whose entries
\* go on naming blocks, threads allocate from one map, and writes run one entry
\* too far and past their blocks, but no two files, and no two places of a file,
\* ever share a block, and none of their blocks is free; unless a write past its
\* block has put one byte of text into a number, which makes it another's.
BlocksNotShared ==
  ~torn => \A i, j \in File : \A p \in Places(i), q \in Places(j) :
    /\ At(i, p) \notin freeBlocks \cup {0}
    /\ At(i, p) = At(j, q) => i = j /\ p = q

\* As long as no allocation fails and no write leaves its block, every byte below
\* the size of a file lies in a block the file has: reading one that does not
\* crashes the process.
BytesHaveBlocks ==
  ~damaged =>
    \A i \in File : inode[i].taken /\ ~Busy(i) =>
      \A k \in 0..(inode[i].size - 1) : BlockOf(inode[i], k \div BlockSize) \in Block \ {0}

\* A handle belongs to the thread that opened it, and to nobody else, and leads
\* to a file that the directory names; no two names lead to one file.
HandlesLeadToFiles ==
  /\ \A t \in Thread : \A h \in thread[t].own :
       /\ openFiles[h].taken
       /\ \E j \in DOMAIN dir : dir[j].inum = openFiles[h].inum
       /\ \A u \in Thread \ {t} : h \notin thread[u].own
  /\ \A j \in DOMAIN dir : /\ inode[dir[j].inum].taken
                           /\ \A k \in DOMAIN dir : dir[k].inum = dir[j].inum => k = j

=============================================================================
