---------------------------- MODULE InodeStore ----------------------------
(***************************************************************************)
(* What an inode store promises (library/file/inode.h): every inode number *)
(* is an array of blocks.  Writing past the end makes the array longer,    *)
(* and what was never written reads as null.                               *)
(***************************************************************************)
EXTENDS Sequences, Integers

CONSTANTS Inode, Ino, Offset, Null, Error
    \* Inode: the inode numbers there are; Ino: those asked for

VARIABLES
    files,    \* the blocks of every inode
    block,    \* the caller's block, read into or written from
    result,   \* what the last operation returned: 0 or Error
    halted    \* the store was full

isVars == <<files, block, result, halted>>

ISInit ==
    /\ files = [i \in Inode |-> <<>>]
    /\ block = Null /\ result = 0
    /\ halted = FALSE

(* s with length at least n, new blocks null *)
Extended(s, n) ==
    IF Len(s) >= n THEN s ELSE [i \in 1..n |-> IF i <= Len(s) THEN s[i] ELSE Null]

OnlyFile(ino, s) ==
    /\ files'[ino] = s
    /\ \A j \in Inode \ {ino} : files'[j] = files[j]

ReadBlock(ino, off) ==
    IF ino \in Inode /\ off < Len(files[ino])
    THEN block' = files[ino][off + 1] /\ result' = 0
    ELSE UNCHANGED block /\ result' = Error

(* the caller fills the block and writes it *)
WriteBlock(ino, off) ==
    /\ result' = 0 /\ ino \in Inode
    /\ OnlyFile(ino, [Extended(files[ino], off + 1) EXCEPT ![off + 1] = block'])

(* a store that is full keeps every block; the file may have become longer *)
StoreFull(ino, off) ==
    /\ ino \in Inode
    /\ OnlyFile(ino, files[ino]) \/ OnlyFile(ino, Extended(files[ino], off + 1))

ISNext ==
    /\ ~halted
    /\ \/ ~halted' /\ UNCHANGED files /\ \E ino \in Ino, off \in Offset : ReadBlock(ino, off)
       \/ ~halted' /\ UNCHANGED files /\ result' = Error /\ Ino \ Inode # {}
       \/ ~halted' /\ \E ino \in Ino, off \in Offset : WriteBlock(ino, off)
       \/ halted'  /\ \E ino \in Ino, off \in Offset : StoreFull(ino, off)

ISSpec == ISInit /\ [][ISNext]_isVars
=============================================================================
