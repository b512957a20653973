----------------------------- MODULE FileSystem ------------------------------
(***************************************************************************)
(* The block file system of shell_in_c/fs (src/common/fs.c) as the shell   *)
(* drives it: format, mount, create, write, read and stat over a disk that *)
(* outlives the computer.  What the disk holds is inodes; every disk_write *)
(* is a step of its own, so a reset can fall between any two of them.      *)
(*                                                                         *)
(* The heap is counted in blocks: fs.c and mcu/disk.c free little of what  *)
(* they allocate, and ignore a disk_write that found no memory.  File      *)
(* contents are left out: what is modelled of them is which block each     *)
(* chunk of a write goes to and whether it got there.                      *)
(***************************************************************************)
EXTENDS Naturals

CONSTANTS
    Blocks,       \* BLOCK_NUM (64)
    InodeBlocks,  \* INODE_BLOCKS (5)
    PerBlock,     \* INODES_PER_BLOCK (2)
    Pointers,     \* POINTERS_PER_INODE (5)
    BlockSize,    \* BLOCK_SIZE (512)
    SizeMod,      \* size_t counts modulo this (2^16 on the 65C02)
    HeapBlocks,   \* how many blocks the heap holds after a reset
    Requests      \* the [len, off] that fs_write is called with

FirstDataBlock == InodeBlocks + 1
DataBlocks == FirstDataBlock .. Blocks - 1
InodeNums == 0 .. (InodeBlocks * PerBlock) - 1
InodeBlockNums == 1 .. InodeBlocks
BlockOf(i) == 1 + (i \div PerBlock)
Slots == 0 .. Pointers - 1

ASSUME LayoutAssumption ==
    /\ InodeBlocks \in Nat \ {0} /\ PerBlock \in Nat \ {0} /\ Pointers \in Nat \ {0}
    /\ Blocks \in Nat /\ Blocks > FirstDataBlock
    /\ BlockSize \in Nat \ {0} /\ HeapBlocks \in Nat
ASSUME RequestAssumption ==
    /\ Requests \subseteq [len : Nat, off : Nat]
    /\ SizeMod \in Nat /\ SizeMod > Blocks + Pointers

Inode == [valid : BOOLEAN, size : Nat, direct : [Slots -> {0} \cup DataBlocks]]
ClearInode == [valid |-> FALSE, size |-> 0, direct |-> [k \in Slots |-> 0]]

VARIABLES
    inodes,  \* the inodes on the disk
    raw,     \* the inode blocks never written: a new disk is all 0xFF
    bitmap,  \* fs->free_blocks: "none" before fs_mounted, "ok", or "null": NULL, or never set
    free,    \* the blocks it calls free
    heap,    \* blocks of memory left
    job,     \* the call in progress
    ret,     \* what the last call returned, and whether it lost a disk write
    vain,    \* info has mounted in vain since the reset
    ub       \* "no", or how the program left what C defines or what is followed here

vars == <<inodes, raw, bitmap, free, heap, job, ret, vain, ub>>

NoJob == [kind |-> "idle", ino |-> 0, avail |-> 0, left |-> 0, next |-> 0,
          chunks |-> 0, size |-> 0, direct |-> [k \in Slots |-> 0], dropped |-> FALSE]

Lowest(S) == CHOOSE n \in S : \A m \in S : n <= m

\* direct_pointers_len: the index of the first zero pointer.
PointersLen(d) ==
    CHOOSE n \in 0 .. Pointers : /\ \A k \in Slots : k < n => d[k] # 0
                                 /\ n \in Slots => d[n] = 0
Referenced(d) == {d[k] : k \in Slots} \ {0}

Returns(code) == ret' = [code |-> code, dropped |-> FALSE]
Ready == job.kind = "idle" /\ ub = "no" /\ bitmap # "none" /\ raw = {}

Undefined(how) ==
    /\ ub' = how /\ job' = NoJob
    /\ UNCHANGED <<inodes, raw, bitmap, free, heap, ret, vain>>

Init ==
    /\ inodes = [i \in InodeNums |-> ClearInode] /\ raw = InodeBlockNums
    /\ bitmap = "none" /\ free = {} /\ heap = HeapBlocks
    /\ job = NoJob /\ ret = [code |-> "ok", dropped |-> FALSE]
    /\ vain = FALSE /\ ub = "no"

-----------------------------------------------------------------------------
(* fs_format: the superblock, then each inode block.                        *)

FormatStart ==
    /\ job.kind = "idle" /\ ub = "no"
    /\ \/ heap = 0 /\ Returns("nomem") /\ UNCHANGED <<heap, job>>
       \/ heap > 0 /\ heap' = heap - 1 /\ job' = [NoJob EXCEPT !.kind = "format"]
          /\ UNCHANGED ret
    /\ UNCHANGED <<inodes, raw, bitmap, free, vain, ub>>

\* disk_write of block job.next, which it leaks a buffer for or gives up.
FormatBlock ==
    /\ job.kind = "format" /\ job.next <= InodeBlocks
    /\ job' = [job EXCEPT !.next = @ + 1, !.dropped = @ \/ heap = 0]
    /\ \/ heap = 0 /\ UNCHANGED <<inodes, raw, heap>>
       \/ /\ heap > 0 /\ heap' = heap - 1 /\ raw' = raw \ {job.next}
          /\ inodes' = [i \in InodeNums |->
                          IF BlockOf(i) = job.next THEN ClearInode ELSE inodes[i]]
    /\ UNCHANGED <<bitmap, free, ret, vain, ub>>

FormatEnd ==
    /\ job.kind = "format" /\ job.next > InodeBlocks
    /\ job' = NoJob /\ heap' = heap + 1
    /\ ret' = [code |-> "ok", dropped |-> job.dropped]
    /\ UNCHANGED <<inodes, raw, bitmap, free, vain, ub>>

-----------------------------------------------------------------------------
(* fs_mount and fs_get_blocks_bitmap. The shell sets fs_mounted whatever    *)
(* fs_mount returns; nothing looks at the magic number.                     *)

\* Mutant of UsedBlocks: only the first pointer of an inode is counted.
UsedBlocksFirst == {inodes[i].direct[0] : i \in {j \in InodeNums : inodes[j].valid}} \ {0}

UsedBlocks == UNION {Referenced(inodes[i].direct) : i \in {j \in InodeNums : inodes[j].valid}}

\* Mutant of Mount: a mount that fails gives its block back.
MountGivesBack ==
    /\ job.kind = "idle" /\ ub = "no"
    /\ \/ /\ heap = 0 /\ Returns("nomem")
          /\ bitmap' = IF bitmap = "none" THEN "null" ELSE bitmap
          /\ UNCHANGED <<free, heap>>
       \/ /\ heap = 1 /\ Returns("nomem")
          /\ heap' = heap /\ bitmap' = "null" /\ free' = {}
       \/ /\ heap > 1 /\ raw = {} /\ Returns("ok")
          /\ heap' = heap - 1 /\ bitmap' = "ok" /\ free' = DataBlocks \ UsedBlocks
    /\ UNCHANGED <<inodes, raw, job, vain, ub>>

Mount ==
    /\ job.kind = "idle" /\ ub = "no"
    /\ \/ /\ heap = 0 /\ Returns("nomem")
          /\ bitmap' = IF bitmap = "none" THEN "null" ELSE bitmap
          /\ UNCHANGED <<free, heap>>
       \/ /\ heap = 1 /\ Returns("nomem")
          /\ heap' = 0 /\ bitmap' = "null" /\ free' = {}
       \/ /\ heap > 1 /\ raw = {} /\ Returns("ok")
          /\ heap' = heap - 1 /\ bitmap' = "ok" /\ free' = DataBlocks \ UsedBlocks
    /\ UNCHANGED <<inodes, raw, job, vain, ub>>

\* An inode that is all 0xFF is valid: mounting it clears bytes outside the
\* bitmap. What a call does with one after a mount that failed is not followed.
UseRaw ==
    /\ job.kind = "idle" /\ ub = "no" /\ raw # {} /\ (heap > 1 \/ bitmap # "none")
    /\ Undefined("raw")

-----------------------------------------------------------------------------
(* fs_create.                                                               *)

\* Mutant of FreeInodes: valid is not looked at.
FreeInodesAll == InodeNums

FreeInodes == {i \in InodeNums : ~inodes[i].valid}

CreateFails ==
    /\ Ready /\ (heap > 0 /\ FreeInodes # {} => free = {})
    /\ heap' = IF heap > 0 /\ FreeInodes # {} THEN heap - 1 ELSE heap
    /\ Returns("none")
    /\ UNCHANGED <<inodes, raw, bitmap, free, job, vain, ub>>

\* Mutant of Create: the block's bit stays set.
CreateKeepsFree ==
    /\ Ready /\ heap > 0 /\ FreeInodes # {} /\ bitmap = "ok" /\ free # {}
    /\ LET b == Lowest(free)
           inode == [valid |-> TRUE, size |-> 0,
                     direct |-> [k \in Slots |-> IF k = 0 THEN b ELSE 0]]
       IN  /\ free' = free
           /\ \/ /\ heap > 1 /\ heap' = heap - 1 /\ Returns("ok")
                 /\ inodes' = [inodes EXCEPT ![Lowest(FreeInodes)] = inode]
              \/ /\ heap = 1 /\ UNCHANGED <<heap, inodes>>
                 /\ ret' = [code |-> "ok", dropped |-> TRUE]
    /\ UNCHANGED <<raw, bitmap, job, vain, ub>>

Create ==
    /\ Ready /\ heap > 0 /\ FreeInodes # {} /\ bitmap = "ok" /\ free # {}
    /\ LET b == Lowest(free)
           inode == [valid |-> TRUE, size |-> 0,
                     direct |-> [k \in Slots |-> IF k = 0 THEN b ELSE 0]]
       IN  /\ free' = free \ {b}
           /\ \/ /\ heap > 1 /\ heap' = heap - 1 /\ Returns("ok")
                 /\ inodes' = [inodes EXCEPT ![Lowest(FreeInodes)] = inode]
              \/ /\ heap = 1 /\ UNCHANGED <<heap, inodes>>
                 /\ ret' = [code |-> "ok", dropped |-> TRUE]
    /\ UNCHANGED <<raw, bitmap, job, vain, ub>>

-----------------------------------------------------------------------------
(* fs_write.                                                                *)

\* remaining_from_offset.
Rem(q) == BlockSize - (q.off % BlockSize)

\* Mutant of Need: without the block for what is left of a division.
NeedWholeBlocks(q) ==
    (q.off \div BlockSize) + 1
      + (IF q.len <= Rem(q) THEN 0 ELSE (q.len - Rem(q)) \div BlockSize)

\* How many pointers the request asks the inode to have, as fs.c counts them:
\* offset_allocations_in_blocks + blocks_available + length_allocations_in_blocks.
Need(q) ==
    (q.off \div BlockSize) + 1
      + (IF q.len <= Rem(q) THEN 0 ELSE ((q.len - Rem(q)) \div BlockSize) + 1)
\* Offset and length, of 16 bits each, never need that many.
ASSUME NeedAssumption == \A q \in Requests : Need(q) < SizeMod

\* Mutant of Chunks: a turn too many of the loop.
ChunksOneMore(q) ==
    IF q.len <= Rem(q) THEN 2
    ELSE 2 + (((q.len - Rem(q)) + (BlockSize - 1)) \div BlockSize)

\* How many blocks the loop of fs_write writes data to.
Chunks(q) ==
    IF q.len = 0 THEN 0
    ELSE IF q.len <= Rem(q) THEN 1
    ELSE 1 + (((q.len - Rem(q)) + (BlockSize - 1)) \div BlockSize)

\* total_allocations_in_block, of an unsigned type.
Total(q, avail) == ((Need(q) + SizeMod) - avail) % SizeMod

WriteFails(i, q) ==
    LET avail == PointersLen(inodes[i].direct) IN
    /\ Ready
    /\ \/ heap = 0 /\ Returns("nomem") /\ UNCHANGED heap
       \/ heap > 0 /\ avail = 0 /\ Returns("noblock") /\ heap' = heap - 1
       \/ /\ heap > 0 /\ avail > 0 /\ (Total(q, avail) + avail) % SizeMod > Pointers
          /\ Returns("toobig") /\ heap' = heap - 1
    /\ UNCHANGED <<inodes, raw, bitmap, free, job, vain, ub>>

WriteStart(i, q) ==
    LET avail == PointersLen(inodes[i].direct) IN
    /\ Ready /\ heap > 0 /\ avail > 0
    /\ (Total(q, avail) + avail) % SizeMod <= Pointers
    /\ heap' = heap - 1
    /\ job' = [kind |-> "alloc", ino |-> i, avail |-> avail,
               left |-> Total(q, avail), next |-> 0, chunks |-> Chunks(q),
               size |-> q.off + q.len, direct |-> inodes[i].direct, dropped |-> FALSE]
    /\ UNCHANGED <<inodes, raw, bitmap, free, ret, vain, ub>>

\* Mutants of Allocate: the block's bit stays set; the pointer after the next.
AllocateKeepsFree ==
    /\ job.kind = "alloc" /\ job.left > 0 /\ bitmap = "ok" /\ free # {}
    /\ LET b == Lowest(free)
           slot == job.avail + job.next
       IN  /\ free' = free
           /\ job' = [job EXCEPT !.left = @ - 1, !.next = @ + 1,
                        !.direct = IF slot \in Slots THEN [@ EXCEPT ![slot] = b] ELSE @]
    /\ UNCHANGED <<inodes, raw, bitmap, heap, ret, vain, ub>>

AllocateNext ==
    /\ job.kind = "alloc" /\ job.left > 0 /\ bitmap = "ok" /\ free # {}
    /\ LET b == Lowest(free)
           slot == job.avail + job.next + 1
       IN  /\ free' = free \ {b}
           /\ job' = [job EXCEPT !.left = @ - 1, !.next = @ + 1,
                        !.direct = IF slot \in Slots THEN [@ EXCEPT ![slot] = b] ELSE @]
    /\ UNCHANGED <<inodes, raw, bitmap, heap, ret, vain, ub>>

\* One turn of the allocation loop. A pointer past the last one lands in the
\* block buffer behind the inode.
Allocate ==
    /\ job.kind = "alloc" /\ job.left > 0 /\ bitmap = "ok" /\ free # {}
    /\ LET b == Lowest(free)
           slot == job.avail + job.next
       IN  /\ free' = free \ {b}
           /\ job' = [job EXCEPT !.left = @ - 1, !.next = @ + 1,
                        !.direct = IF slot \in Slots THEN [@ EXCEPT ![slot] = b] ELSE @]
    /\ UNCHANGED <<inodes, raw, bitmap, heap, ret, vain, ub>>

\* Mutant of AllocationFails: no test of fs_find_empty_block's answer.
AllocationFailsNever == FALSE

AllocationFails ==
    /\ job.kind = "alloc" /\ job.left > 0 /\ free = {}
    /\ job' = NoJob /\ Returns("full")
    /\ UNCHANGED <<inodes, raw, bitmap, free, heap, vain, ub>>

AllocationEnd ==
    /\ job.kind = "alloc" /\ job.left = 0
    /\ job' = [job EXCEPT !.kind = "data", !.next = 0]
    /\ UNCHANGED <<inodes, raw, bitmap, free, heap, ret, vain, ub>>

\* Mutant of WriteData: memory is taken whether or not there is any.
WriteDataUnchecked ==
    /\ job.kind = "data" /\ job.next < job.chunks
    /\ heap' = heap - 2
    /\ job' = [job EXCEPT !.next = @ + 1, !.dropped = @ \/ heap < 2]
    /\ UNCHANGED <<inodes, raw, bitmap, free, ret, vain, ub>>

\* fs_write_data_block into the block of pointer job.next: a block and a packet
\* are allocated and kept; without memory for either nothing is written.
WriteData ==
    /\ job.kind = "data" /\ job.next < job.chunks
    /\ heap' = IF heap > 1 THEN heap - 2 ELSE 0
    /\ job' = [job EXCEPT !.next = @ + 1, !.dropped = @ \/ heap < 2]
    /\ UNCHANGED <<inodes, raw, bitmap, free, ret, vain, ub>>

\* The inode's disk_write.
WriteInode ==
    /\ job.kind = "data" /\ job.next = job.chunks
    /\ \/ /\ heap > 0 /\ heap' = heap - 1
          /\ inodes' = [inodes EXCEPT ![job.ino].size = job.size,
                                      ![job.ino].direct = job.direct]
       \/ heap = 0 /\ UNCHANGED <<heap, inodes>>
    /\ ret' = [code |-> "ok", dropped |-> job.dropped \/ heap = 0]
    /\ job' = NoJob
    /\ UNCHANGED <<raw, bitmap, free, vain, ub>>

-----------------------------------------------------------------------------
(* fs_read and fs_stat.                                                     *)

Read(i, len) ==
    /\ Ready
    /\ \/ heap = 0 /\ Returns("nomem") /\ UNCHANGED heap
       \/ /\ heap > 0 /\ (~inodes[i].valid \/ inodes[i].size = 0)
          /\ Returns("ok") /\ heap' = heap - 1
       \/ /\ heap > 0 /\ inodes[i].valid /\ inodes[i].size # 0
          /\ \/ inodes[i].size < len /\ Returns("toobig") /\ heap' = heap - 1
             \/ inodes[i].size >= len /\ heap = 1 /\ Returns("nomem") /\ heap' = 0
             \/ inodes[i].size >= len /\ heap > 1 /\ Returns("ok") /\ UNCHANGED heap
    /\ UNCHANGED <<inodes, raw, bitmap, free, job, vain, ub>>

Stat(i) ==
    /\ Ready /\ heap > 0 /\ heap' = heap - 1
    /\ Returns(IF inodes[i].valid THEN "ok" ELSE "none")
    /\ UNCHANGED <<inodes, raw, bitmap, free, job, vain, ub>>

\* fs_stat does not test malloc and reads the inode block to address zero.
StatNoMemory == Ready /\ heap = 0 /\ Undefined("stat")

\* fs_find asks inodes_name_map, which nothing has ever set: it is whatever malloc gave.
Find == Ready /\ Undefined("find")

\* shell_fs_print_info: it takes a block of memory, mounts if nobody has, and gives the
\* block back. With one block or two the mount is in vain, and yet fs_mounted is set.
\* fs_info then reads the bitmap whatever it is: that read harms nothing, it only makes
\* the printed count of the first 42 blocks, which is left out here, a wrong one.
Info ==
    /\ job.kind = "idle" /\ ub = "no"
    /\ \/ /\ heap = 0 \/ bitmap # "none"
          /\ Returns(IF heap = 0 THEN "nomem" ELSE "ok")
          /\ UNCHANGED <<inodes, raw, bitmap, free, heap, job, vain, ub>>
       \/ heap > 2 /\ bitmap = "none" /\ Mount
       \/ /\ heap \in 1 .. 2 /\ bitmap = "none" /\ Returns("ok")
          /\ bitmap' = "null" /\ free' = {} /\ heap' = 1 /\ vain' = TRUE
          /\ UNCHANGED <<inodes, raw, job, ub>>

\* fs_find_empty_block without a bitmap: it takes what lies at address 0, or wherever the
\* pointer was left, for one. It may find nothing free there (CreateFails,
\* AllocationFails); here it does, and fs_create or fs_write clears that byte.
UseNoBitmap ==
    /\ bitmap = "null"
    /\ \/ Ready /\ heap > 0 /\ FreeInodes # {}
       \/ job.kind = "alloc" /\ job.left > 0
    /\ Undefined("bitmap")

-----------------------------------------------------------------------------
\* A reset: memory is lost, the disk is as the last disk_write left it.
Reset ==
    /\ job' = NoJob /\ bitmap' = "none" /\ free' = {} /\ heap' = HeapBlocks
    /\ ret' = [code |-> "ok", dropped |-> FALSE] /\ vain' = FALSE
    /\ UNCHANGED <<inodes, raw, ub>>

Step ==
    \/ FormatBlock \/ FormatEnd
    \/ Allocate \/ AllocationFails \/ AllocationEnd \/ WriteData \/ WriteInode

Call ==
    \/ FormatStart \/ Mount \/ UseRaw \/ CreateFails \/ Create
    \/ StatNoMemory \/ Find \/ Info \/ UseNoBitmap
    \/ \E i \in InodeNums :
          \/ Stat(i)
          \/ \E q \in Requests : WriteFails(i, q) \/ WriteStart(i, q) \/ Read(i, q.len)

Next == Step \/ Call \/ Reset

Spec == Init /\ [][Next]_vars

\* The program runs on; nobody is obliged to call it or to reset it.
FairSpec == Spec /\ WF_vars(Step)

-----------------------------------------------------------------------------
(* Properties.                                                              *)

Codes == {"ok", "nomem", "none", "noblock", "toobig", "full"}
Ret == [code : Codes, dropped : BOOLEAN]
Ways == {"raw", "stat", "find", "bitmap"}
Job == [kind : {"idle", "format", "alloc", "data"}, ino : InodeNums, avail : 0 .. Pointers,
        left : Nat, next : Nat, chunks : Nat, size : Nat,
        direct : [Slots -> {0} \cup DataBlocks], dropped : BOOLEAN]

\* Every variable holds a value of its kind.
TypeOK ==
    /\ inodes \in [InodeNums -> Inode] /\ raw \subseteq InodeBlockNums
    /\ bitmap \in {"none", "null", "ok"} /\ free \subseteq DataBlocks
    /\ heap \in 0 .. HeapBlocks
    /\ job \in Job
    /\ ret \in Ret /\ vain \in BOOLEAN
    /\ ub \in {"no"} \cup Ways

Valid == {i \in InodeNums : inodes[i].valid}
Writing == job.kind \in {"alloc", "data"}

\* The pointers of an inode as they will be when the write in progress, if it is
\* the inode's, has been saved.
Pending(i) == IF Writing /\ job.ino = i THEN job.direct ELSE inodes[i].direct

\* No block belongs to two files, or twice to one: of what the disk holds after
\* a reset at any point, and of what a write in progress is about to save.
NoSharing ==
    \A i, j \in InodeNums : \A k, l \in Slots :
        <<i, k>> # <<j, l>> =>
            /\ Pending(i)[k] = Pending(j)[l] => Pending(i)[k] = 0
            /\ inodes[i].direct[k] = inodes[j].direct[l] => inodes[i].direct[k] = 0

\* A block that fs_find_empty_block may still give away is in no inode, on the
\* disk or in the write in progress, whatever failed since the mount.
BitmapSafe ==
    \A i \in InodeNums :
        free \cap (Referenced(Pending(i)) \cup Referenced(inodes[i].direct)) = {}

\* direct_pointers_len can stop at the first zero: an inode is valid exactly when
\* it has a block, and its blocks come first.
PointersDense ==
    \A i \in InodeNums :
        /\ inodes[i].valid <=> inodes[i].direct[0] # 0
        /\ \A k, l \in Slots : k < l /\ inodes[i].direct[l] # 0 => inodes[i].direct[k] # 0

\* A file's size, which fs_stat reports and the shell then reads, never exceeds
\* what its blocks hold, even when the write that set it failed half way.
SizeCovered ==
    \A i \in Valid : inodes[i].size <= PointersLen(inodes[i].direct) * BlockSize

\* Every chunk of data goes to a block of the file, as its pointers will be saved: never
\* to block 0, the superblock, through a pointer that is still zero, nor past the last
\* pointer (fs.c:431-453 counts the blocks it writes and those it allocates apart).
DataInOwnBlock ==
    job.kind = "data" /\ job.next < job.chunks =>
        job.next \in Slots /\ job.direct[job.next] \in DataBlocks

\* fs_find_empty_block (fs.c:101) does not look whether free_blocks is NULL, and the
\* shell forgets whether its mount succeeded. What mostly saves a create and a write is
\* that memory is never given back: after a mount that found none they fail before they
\* look for a block. Only info gives some back (main.c:159): no block is taken, and no
\* byte cleared, through a missing bitmap unless info mounted in vain since the reset.
NullBitmapUnused == [][ub # "bitmap" /\ ub' = "bitmap" => vain]_vars

\* Only a format takes a block away from a file: a create or a write, finished,
\* failed or cut by a reset, leaves every pointer that was on the disk.
FilesKeepTheirBlocks ==
    [][job.kind # "format" =>
          \A i \in InodeNums : \A k \in Slots :
             inodes[i].direct[k] # 0 => inodes'[i].direct[k] = inodes[i].direct[k]]_vars

\* A call that was started ends, with a disk that may be full, memory that may
\* be exhausted and a count of blocks that may have wrapped.
CallsEnd == job.kind # "idle" ~> job.kind = "idle"

\* "finally write the content to the blocks" and "save the inode if needed"
\* (fs.c:426 and 458): a write that returns success has written both.
AcknowledgedIsWritten ==
    [][job.kind = "data" /\ job'.kind = "idle" => ~ret'.dropped]_vars

\* "how many more blocks need to be allocated to fulfill the request"
\* (fs.c:400): a write allocates the blocks that its bytes need beyond those the
\* inode has, and none when they fit.
BlocksFor(size) == (size + (BlockSize - 1)) \div BlockSize
AllocatesWhatIsNeeded ==
    job.kind = "alloc" /\ job.next = 0 =>
        job.avail + job.left =
            IF BlocksFor(job.size) > job.avail THEN BlocksFor(job.size) ELSE job.avail

-----------------------------------------------------------------------------
(* Refinement: who owns which block.                                        *)

Owned == [i \in InodeNums |-> Referenced(inodes[i].direct)]
Neighbours(b) == {i \in InodeNums : BlockOf(i) = b}

Ownership == INSTANCE BlockOwnership
               WITH Files <- InodeNums, Disk <- DataBlocks, owned <- Owned,
                    Groups <- {Neighbours(b) : b \in InodeBlockNums}

\* As its users see it, the disk gives a file blocks that no file has, and takes
\* them back only by erasing whole inode blocks.
ImplementsBlockOwnership == Ownership!Spec
=============================================================================
