----------------------------- MODULE TreeDisk -----------------------------
(***************************************************************************)
(* The tree disk (library/file/file.c, layout in file.h) with its users:   *)
(* tools/mkfs.c, which creates it and writes the files, and sys_file,      *)
(* which reads blocks.  A block is REFS_PER_BLOCK words: the superblock    *)
(* holds the number of inode blocks and the head of the free list, an      *)
(* inode two words (root and nblocks), a data block one value in every     *)
(* word.  Reads and writes of the store below do not fail: mkfs works in   *)
(* memory, and earth/dev_disk.c returns 0 whatever the card answered.      *)
(***************************************************************************)
EXTENDS Integers, SequencesExt

CONSTANTS
    REFS_PER_BLOCK,   \* words of a block (128 in the code)
    NBITS,            \* bits of a block_no (32 in the code)
    NBLOCKS,          \* size of the store below (4096 in the code)
    NINODES,          \* files asked for (128 in the code)
    Ino, Offset,      \* inode numbers and offsets used
    Data              \* contents written, none of them the null block

INODES_PER_BLOCK == REFS_PER_BLOCK \div 2
Words  == 0..(REFS_PER_BLOCK - 1)
Blocks == 0..(NBLOCKS - 1)
Null   == 0
Error  == -1

Block(d) == [i \in Words |-> d]

n_inodeblocks == (NINODES + INODES_PER_BLOCK - 1) \div INODES_PER_BLOCK
Inode         == 0..(n_inodeblocks * INODES_PER_BLOCK - 1)
FirstFree     == n_inodeblocks + 1

ASSUME TreeDiskAssumption ==
    /\ \E n \in 1..(NBITS - 1) : REFS_PER_BLOCK = 2^n
    /\ NBLOCKS >= n_inodeblocks + 2
    /\ Null \notin Data

VARIABLES
    disk,    \* the blocks of the store below
    block,   \* the caller's block, read into or written from
    result,  \* what the last read or write returned: 0 or Error
    full     \* panic: the inode store is full

tdVars == <<disk, block, result, full>>

-----------------------------------------------------------------------------
(* Levels of a tree                                                        *)

log_rpb == Min({n \in 1..NBITS : (REFS_PER_BLOCK - 1) \div 2^n = 0})

log_shift_r(x, nbits) == IF nbits >= NBITS THEN 0 ELSE x \div 2^nbits

(* number of levels above the data of a tree whose last offset is x *)
Levels(x) == Min({n \in 0..NBITS : log_shift_r(x, n * log_rpb) = 0})

nlevels_of(nblocks) == IF nblocks > 0 THEN Levels(nblocks - 1) ELSE 0

(* index into the indirect block at level n above the data *)
Index(offset, n) == log_shift_r(offset, (n - 1) * log_rpb) % REFS_PER_BLOCK

(* n, n - 1, ..., 1 *)
Down(n) == [i \in 1..n |-> n + 1 - i]

-----------------------------------------------------------------------------
(* Inodes: block and word of the root; nblocks is the next word            *)

InodeBlock(ino) == 1 + ino \div INODES_PER_BLOCK
RootWord(ino)   == 2 * (ino % INODES_PER_BLOCK)

Root(d, ino)    == d[InodeBlock(ino)][RootWord(ino)]
nblocks(d, ino) == d[InodeBlock(ino)][RootWord(ino) + 1]

(* treedisk_get_snapshot succeeds *)
HasInode(d, ino) == ino < d[0][0] * INODES_PER_BLOCK

-----------------------------------------------------------------------------
(* Reading                                                                 *)

treedisk_getsize(d, ino) == IF HasInode(d, ino) THEN nblocks(d, ino) ELSE Error

treedisk_read(d, ino, offset) ==
    LET top == nlevels_of(nblocks(d, ino))
        at[n \in 0..top] ==     \* the block n levels above the data, 0 for a hole
            IF n = top THEN Root(d, ino)
            ELSE IF at[n + 1] = 0 THEN 0 ELSE d[at[n + 1]][Index(offset, n + 1)]
    IN  IF ~HasInode(d, ino) \/ offset >= nblocks(d, ino) THEN Error
        ELSE IF at[0] = 0 THEN Null ELSE d[at[0]][0]

-----------------------------------------------------------------------------
(* Writing.  w is the write in progress: the disk, the inode's root and    *)
(* length in the snapshot, whether alloc_block found the store full, the   *)
(* block the walk is at or alloc_block gave, and that block in memory.     *)

alloc_block_kept(w) ==
    LET b    == w.disk[0][1]
        refs == {i \in Words \ {0} : w.disk[b][i] # 0}
    IN  IF w.full \/ b = 0 THEN [w EXCEPT !.full = TRUE]
        ELSE IF refs = {}
        THEN [w EXCEPT !.got = b, !.disk[0][1] = w.disk[b][0]]
        ELSE [w EXCEPT !.got = w.disk[b][Max(refs)]]
treedisk_alloc_block(w) ==
    LET b    == w.disk[0][1]
        refs == {i \in Words \ {0} : w.disk[b][i] # 0}
    IN  IF w.full \/ b = 0 THEN [w EXCEPT !.full = TRUE]
        ELSE IF refs = {}
        THEN [w EXCEPT !.got = b, !.disk[0][1] = w.disk[b][0]]
        ELSE [w EXCEPT !.got = w.disk[b][Max(refs)], !.disk[b][Max(refs)] = 0]

(* one more level: an indirect block whose first reference is the old root *)
AddLevel_lost(w) ==
    LET a == treedisk_alloc_block(w)
    IN  IF a.full THEN a ELSE [a EXCEPT !.disk[a.got] = Block(0), !.root = a.got]
AddLevel(w) ==
    LET a == treedisk_alloc_block(w)
    IN  IF a.full THEN a
        ELSE [a EXCEPT !.disk[a.got] = [Block(0) EXCEPT ![0] = w.root], !.root = a.got]

(* the tree has the levels the offset needs, and the inode is on the disk *)
Grow(w, ino, offset) ==
    LET before == nlevels_of(w.len)
        after  == IF offset >= w.len THEN Levels(offset) ELSE before
        Add(x, n) == AddLevel(x)
        g == FoldLeft(Add, w, Down(after - before))
    IN  IF g.full \/ offset < w.len THEN g
        ELSE [g EXCEPT !.len = offset + 1,
                       !.disk[InodeBlock(ino)][RootWord(ino)] = g.root,
                       !.disk[InodeBlock(ino)][RootWord(ino) + 1] = offset + 1]

(* The block that word i of block w.got refers to becomes w.got.  A hole   *)
(* is filled with a new block, and w.mem, the block in memory, written     *)
(* back; a new indirect block is cleared in memory only.                   *)
Child(w, i) ==
    IF w.mem[i] # 0 THEN [w EXCEPT !.got = w.mem[i], !.mem = w.disk[w.mem[i]]]
    ELSE LET a == treedisk_alloc_block(w)
         IN  IF a.full THEN a
             ELSE [a EXCEPT !.disk[w.got] = [w.mem EXCEPT ![i] = a.got], !.mem = Block(0)]

(* w.got is the data block of the offset *)
Walk(w, ino, offset) ==
    LET ib == InodeBlock(ino)
        Step(x, k) == IF x.full THEN x ELSE Child(x, Index(offset, k))
        root == Child([w EXCEPT !.got = ib, !.mem = w.disk[ib]], RootWord(ino))
    IN  FoldLeft(Step, root, Down(nlevels_of(w.len)))

treedisk_write(d, ino, offset, data) ==
    LET w == [disk |-> d, root |-> Root(d, ino), len |-> nblocks(d, ino),
              full |-> FALSE, got |-> 0, mem |-> Block(0)]
        g == Grow(w, ino, offset)
        t == IF g.full THEN g ELSE Walk(g, ino, offset)
    IN  IF t.full THEN t ELSE [t EXCEPT !.disk[t.got] = Block(data)]

-----------------------------------------------------------------------------
(* A new file system                                                       *)

(* Blocks first, first + REFS_PER_BLOCK, ... link the list, each refers to *)
(* the blocks up to the next one, and the last of them is the head.        *)
setup_freelist(d, first) ==
    LET links == {b \in first..(NBLOCKS - 1) : (b - first) % REFS_PER_BLOCK = 0}
        Link(b) == [i \in Words |-> IF i > 0 THEN (IF b + i < NBLOCKS THEN b + i ELSE 0)
                                    ELSE IF b = first THEN 0 ELSE b - REFS_PER_BLOCK]
    IN  [blocks |-> [b \in Blocks |-> IF b \in links THEN Link(b) ELSE d[b]],
         head   |-> Max(links)]

treedisk_create ==
    LET fl == setup_freelist([b \in Blocks |-> Block(0)], FirstFree)
    IN  [fl.blocks EXCEPT ![0] = [Block(0) EXCEPT ![0] = n_inodeblocks, ![1] = fl.head]]

Init ==
    /\ disk = treedisk_create
    /\ block = Null /\ result = 0
    /\ full = FALSE

(* sys_file: FILE_READ *)
FileRead(ino, offset) ==
    /\ ~full
    /\ LET r == treedisk_read(disk, ino, offset)
       IN  IF r = Error THEN result' = Error /\ UNCHANGED block
                        ELSE result' = 0 /\ block' = r
    /\ UNCHANGED <<disk, full>>

(* mkfs fills its block and writes it to a file *)
FileWrite(ino, offset, data) ==
    /\ ~full
    /\ block' = data
    /\ IF HasInode(disk, ino)
       THEN LET w == treedisk_write(disk, ino, offset, data)
            IN  disk' = w.disk /\ full' = w.full /\ result' = 0
       ELSE result' = Error /\ UNCHANGED <<disk, full>>

Halted == full /\ UNCHANGED tdVars

Next ==
    \/ \E ino \in Ino, off \in Offset :
          FileRead(ino, off) \/ \E d \in Data : FileWrite(ino, off, d)
    \/ Halted

Spec == Init /\ [][Next]_tdVars

-----------------------------------------------------------------------------
absFiles == [ino \in Inode |->
    [i \in 1..treedisk_getsize(disk, ino) |-> treedisk_read(disk, ino, i - 1)]]

IS == INSTANCE InodeStore WITH files <- absFiles, halted <- full

(* The tree disk implements arrays of blocks: a block reads as it was last *)
(* written, a hole as null, and a write changes no other block of any      *)
(* file, whatever trees grow in between; a write that finds the disk full  *)
(* loses nothing that was there (treedisk_write, treedisk_read).           *)
ImplementsInodeStore == IS!ISSpec

(* blocks of the tree of ino, by level: what Walk passes through *)
TreeSlots(ino) ==
    LET n == nlevels_of(nblocks(disk, ino))
        Refs(slots) == {disk[s[1]][s[2]] : s \in slots} \ {0}
        Step(acc, k) == [all |-> acc.all \union (Refs(acc.last) \X Words),
                         last |-> Refs(acc.last) \X Words]
        rootSlot == {<<InodeBlock(ino), RootWord(ino)>>}
    IN  FoldLeft(Step, [all |-> rootSlot, last |-> rootSlot], Down(n)).all

ListBlocks ==
    LET Step(s, k) == s \union ({disk[b][0] : b \in s} \ {0})
    IN  FoldLeft(Step, {disk[0][1]} \ {0}, Down(NBLOCKS))

(* every word of the disk that refers to a block *)
Slots == {<<0, 1>>} \union (ListBlocks \X Words) \union UNION {TreeSlots(i) : i \in Inode}

(* Every block after the inodes is referred to exactly once, by the free   *)
(* list or by one file: treedisk_alloc_block gives no block twice and none *)
(* is lost, so that the panic "inode store is full" means there is none.   *)
BlocksPartitioned ==
    ~full => \A b \in FirstFree..(NBLOCKS - 1) :
                \E s \in Slots : {t \in Slots : disk[t[1]][t[2]] = b} = {s}
=============================================================================
