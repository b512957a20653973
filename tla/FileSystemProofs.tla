--------------------------- MODULE FileSystemProofs ---------------------------
(***************************************************************************)
(* The inductive invariant of FileSystem and the theorems it gives, for    *)
(* every layout of the disk, every amount of memory and every set of       *)
(* requests.                                                               *)
(***************************************************************************)
EXTENDS FileSystem, WellFoundedInduction, TLAPS

\* A set of naturals that is not empty has a least element.
LEMMA LeastElement ==
    ASSUME NEW S, S \subseteq Nat, S # {}
    PROVE  \E n \in S : \A m \in S : n <= m
<1>1. \E n \in S : \A m \in S : ~ (<<m, n>> \in OpToRel(<, Nat))
  BY NatLessThanWellFounded, WFMin
<1>2. PICK n \in S : \A m \in S : ~ (<<m, n>> \in OpToRel(<, Nat))
  BY <1>1
<1>3. ASSUME NEW m \in S PROVE n <= m
  <2>1. m \in Nat /\ n \in Nat
    OBVIOUS
  <2>2. ~ (m < n)
    BY <1>2, <2>1 DEF OpToRel
  <2> QED BY <2>1, <2>2
<1> QED BY <1>3

\* fs_find_empty_block answers with a block that is free.
LEMMA LowestIsMember ==
    ASSUME NEW S, S \subseteq Nat, S # {}
    PROVE  Lowest(S) \in S
BY LeastElement DEF Lowest

\* What direct_pointers_len returns.
LEMMA PointersLenFacts ==
    ASSUME NEW d \in [Slots -> Nat]
    PROVE  /\ PointersLen(d) \in 0 .. Pointers
           /\ \A k \in Slots : k < PointersLen(d) => d[k] # 0
           /\ PointersLen(d) \in Slots => d[PointersLen(d)] = 0
<1> DEFINE Zeros == {k \in Slots : d[k] = 0}
           Good(n) == /\ \A k \in Slots : k < n => d[k] # 0
                      /\ n \in Slots => d[n] = 0
<1>1. Pointers \in Nat /\ Slots \subseteq Nat
  BY LayoutAssumption DEF Slots
<1>2. \E n \in 0 .. Pointers : Good(n)
  <2>1. CASE Zeros = {}
    <3>1. Good(Pointers)
      BY <2>1, <1>1 DEF Slots
    <3> QED BY <3>1, <1>1
  <2>2. CASE Zeros # {}
    <3>1. PICK n \in Zeros : \A m \in Zeros : n <= m
      BY <2>2, <1>1, LeastElement
    <3>2. Good(n)
      BY <3>1, <1>1 DEF Slots
    <3> QED BY <3>1, <3>2, <1>1 DEF Slots
  <2> QED BY <2>1, <2>2
<1> HIDE DEF Good
<1>3. PointersLen(d) = CHOOSE n \in 0 .. Pointers : Good(n)
  BY DEF PointersLen, Good
<1>4. PointersLen(d) \in 0 .. Pointers /\ Good(PointersLen(d))
  BY <1>2, <1>3
<1> QED BY <1>4 DEF Good

\* The arithmetic of fs_write stays in the naturals.
LEMMA RequestTypes ==
    ASSUME NEW q \in Requests, NEW n \in 0 .. Pointers
    PROVE  Need(q) \in Nat /\ Chunks(q) \in Nat /\ Total(q, n) \in Nat
<1>1. /\ q.len \in Nat /\ q.off \in Nat
      /\ BlockSize \in Nat /\ BlockSize > 0 /\ SizeMod \in Nat /\ SizeMod > n /\ n \in Nat
  BY LayoutAssumption, RequestAssumption
<1>2. \A v \in Nat : v \div BlockSize \in Nat /\ v % BlockSize \in 0 .. BlockSize - 1
  BY <1>1
<1>3. Rem(q) \in Nat /\ Rem(q) > 0
  <2>1. q.off % BlockSize \in 0 .. BlockSize - 1
    BY <1>1, <1>2
  <2> QED BY <2>1, <1>1 DEF Rem
<1>4. Need(q) \in Nat
  <2>1. q.off \div BlockSize \in Nat
    BY <1>1, <1>2
  <2>2. CASE q.len <= Rem(q)
    BY <2>1, <2>2 DEF Need
  <2>3. CASE ~(q.len <= Rem(q))
    <3>1. q.len - Rem(q) \in Nat
      BY <1>1, <1>3, <2>3
    <3>2. (q.len - Rem(q)) \div BlockSize \in Nat
      BY <3>1, <1>2
    <3> QED BY <2>1, <2>3, <3>2 DEF Need
  <2> QED BY <2>2, <2>3
<1>5. Chunks(q) \in Nat
  <2>1. CASE ~(q.len <= Rem(q))
    <3>1. (q.len - Rem(q)) + (BlockSize - 1) \in Nat
      BY <1>1, <1>3, <2>1
    <3>2. ((q.len - Rem(q)) + (BlockSize - 1)) \div BlockSize \in Nat
      BY <3>1, <1>2
    <3> QED BY <2>1, <3>2, <1>1 DEF Chunks
  <2> QED BY <2>1 DEF Chunks
<1>6. Total(q, n) \in Nat
  <2>1. (Need(q) + SizeMod) - n \in Nat
    BY <1>1, <1>4
  <2> QED BY <2>1, <1>1 DEF Total
<1> QED BY <1>4, <1>5, <1>6

-----------------------------------------------------------------------------
(* The inductive invariant. NoSharing and BitmapSafe are not inductive alone: *)
(* that an allocation writes only pointers that were zero needs the write in  *)
(* progress to know how many the inode has, and that a mount sees every block *)
(* in use needs an inode that is not valid to have none.                      *)

JobExtends ==
    Writing =>
        /\ inodes[job.ino].valid
        /\ \A k \in Slots :
              /\ inodes[job.ino].direct[k] # 0 => job.direct[k] = inodes[job.ino].direct[k]
              /\ inodes[job.ino].direct[k] # 0 => k < job.avail
              /\ job.kind = "alloc" => (job.direct[k] # 0 <=> k < job.avail + job.next)
        /\ \A k, l \in Slots : k < l /\ job.direct[l] # 0 => job.direct[k] # 0

\* While it formats, fs_format holds the block that FormatEnd gives back.
Types == TypeOK /\ (job.kind = "format" => heap < HeapBlocks)

IInv == Types /\ NoSharing /\ BitmapSafe /\ PointersDense /\ JobExtends

LEMMA Layout ==
    /\ Pointers \in Nat /\ Pointers > 0 /\ Slots \subseteq Nat /\ 0 \in Slots
    /\ DataBlocks \subseteq Nat /\ 0 \notin DataBlocks
    /\ 0 \in InodeNums /\ InodeNums \subseteq Nat
<1>1. /\ InodeBlocks \in Nat /\ InodeBlocks > 0 /\ PerBlock \in Nat /\ PerBlock > 0
      /\ Pointers \in Nat /\ Pointers > 0 /\ Blocks \in Nat
  BY LayoutAssumption
<1>2. InodeBlocks * PerBlock \in Nat /\ InodeBlocks * PerBlock > 0
  BY <1>1
<1>3. DataBlocks \subseteq Nat /\ 0 \notin DataBlocks
  BY <1>1 DEF DataBlocks, FirstDataBlock
<1>4. 0 \in InodeNums /\ InodeNums \subseteq Nat
  BY <1>2 DEF InodeNums
<1> QED BY <1>1, <1>3, <1>4 DEF Slots

LEMMA NoJobType ==
    /\ NoJob.kind = "idle" /\ NoJob.ino \in InodeNums /\ NoJob.avail \in 0 .. Pointers
    /\ NoJob \in Job /\ [NoJob EXCEPT !.kind = "format"] \in Job
<1>1. [k \in Slots |-> 0] \in [Slots -> {0} \cup DataBlocks]
  OBVIOUS
<1>2. NoJob \in Job
  BY <1>1, Layout DEF NoJob, Job
<1>3. NoJob.kind = "idle" /\ NoJob.ino = 0 /\ NoJob.avail = 0
  BY DEF NoJob
<1>4. [NoJob EXCEPT !.kind = "format"] \in Job
  BY <1>2 DEF Job
<1> QED BY <1>2, <1>3, <1>4, Layout

\* The initial disk is empty.
LEMMA InitInvariant == Init => IInv
<1> SUFFICES ASSUME Init PROVE IInv
  OBVIOUS
<1>1. Types
  <2>1. ClearInode \in Inode
    BY Layout DEF ClearInode, Inode
  <2>2. ret \in Ret
    BY DEF Init, Ret, Codes
  <2>3. inodes \in [InodeNums -> Inode]
    BY <2>1 DEF Init
  <2>4. heap \in 0 .. HeapBlocks
    BY LayoutAssumption DEF Init
  <2>5. job \in Job /\ job.kind # "format"
    BY NoJobType DEF Init
  <2> QED BY <2>2, <2>3, <2>4, <2>5 DEF Init, Types, TypeOK
<1>2. ~Writing /\ \A i \in InodeNums : inodes[i] = ClearInode
  BY NoJobType DEF Init, Writing
<1>3. NoSharing
  BY <1>2 DEF NoSharing, Pending, ClearInode
<1>4. BitmapSafe
  BY DEF Init, BitmapSafe
<1>5. PointersDense
  BY <1>2, Layout DEF PointersDense, ClearInode
<1>6. JobExtends
  BY <1>2 DEF JobExtends
<1> QED BY <1>1, <1>3, <1>4, <1>5, <1>6 DEF IInv

-----------------------------------------------------------------------------
(* Types.                                                                    *)

\* A step of a call in progress that moves on and may have lost a disk write.
LEMMA JobMoves ==
    ASSUME NEW j \in Job, NEW n \in Nat, NEW d \in BOOLEAN
    PROVE  [j EXCEPT !.next = n, !.dropped = d] \in Job
BY DEF Job

LEMMA ReturnType == \A c \in Codes : Returns(c) => ret' \in Ret
BY DEF Returns, Ret

LEMMA TypesKept == Types /\ [Next]_vars => Types'
<1> SUFFICES ASSUME Types, [Next]_vars PROVE Types'
  OBVIOUS
<1>0. /\ inodes \in [InodeNums -> Inode] /\ job \in Job /\ heap \in Nat /\ heap <= HeapBlocks
      /\ HeapBlocks \in Nat /\ ClearInode \in Inode
  BY Layout, LayoutAssumption DEF Types, TypeOK, ClearInode, Inode
<1> USE <1>0, NoJobType
<1>1. CASE FormatStart
  <2>1. job' \in Job /\ heap' \in 0 .. HeapBlocks
    BY <1>1 DEF FormatStart
  <2>2. job'.kind = "format" => heap' < HeapBlocks
    BY <1>1 DEF FormatStart
  <2>3. ret' \in Ret
    BY <1>1, ReturnType DEF FormatStart, Codes, Types, TypeOK
  <2> QED BY <1>1, <2>1, <2>2, <2>3 DEF Types, TypeOK, FormatStart
<1>2. CASE FormatBlock
  <2>1. job' \in Job
    <3>1. (job.dropped \/ heap = 0) \in BOOLEAN
      OBVIOUS
    <3>2. job.next + 1 \in Nat
      BY DEF Job
    <3>3. job' = [job EXCEPT !.next = job.next + 1, !.dropped = (job.dropped \/ heap = 0)]
      BY <1>2 DEF FormatBlock
    <3> QED BY <3>1, <3>2, <3>3, JobMoves
  <2>2. inodes' \in [InodeNums -> Inode]
    BY <1>2 DEF FormatBlock
  <2>3. heap' \in 0 .. HeapBlocks /\ heap' < HeapBlocks
    BY <1>2 DEF FormatBlock, Types
  <2> QED BY <1>2, <2>1, <2>2, <2>3 DEF Types, TypeOK, FormatBlock
<1>3. CASE FormatEnd
  <2>1. heap' \in 0 .. HeapBlocks
    BY <1>3 DEF FormatEnd, Types
  <2>2. ret' \in Ret
    BY <1>3 DEF FormatEnd, Codes, Job, Ret
  <2> QED BY <1>3, <2>1, <2>2 DEF Types, TypeOK, FormatEnd
<1>4. CASE Mount
  <2>1. heap' \in 0 .. HeapBlocks
    BY <1>4 DEF Mount
  <2>2. ret' \in Ret
    BY <1>4, ReturnType DEF Mount, Codes
  <2>3. bitmap' \in {"none", "null", "ok"} /\ free' \subseteq DataBlocks
    BY <1>4 DEF Mount, Types, TypeOK
  <2> QED BY <1>4, <2>1, <2>2, <2>3 DEF Types, TypeOK, Mount
<1>5. CASE \E how \in Ways : Undefined(how)
  BY <1>5 DEF Types, TypeOK, Undefined, Ways
<1>6. CASE CreateFails
  <2>1. heap' \in 0 .. HeapBlocks
    BY <1>6 DEF CreateFails
  <2>2. ret' \in Ret
    BY <1>6, ReturnType DEF CreateFails, Codes
  <2> QED BY <1>6, <2>1, <2>2 DEF Types, TypeOK, CreateFails, Ready
<1>7. CASE Create
  <2>1. heap' \in 0 .. HeapBlocks
    BY <1>7 DEF Create
  <2>2. ret' \in Ret
    <3>1. CASE Returns("ok")
      BY <3>1, ReturnType DEF Codes
    <3>2. CASE ret' = [code |-> "ok", dropped |-> TRUE]
      BY <3>2 DEF Ret, Codes
    <3> QED BY <1>7, <3>1, <3>2 DEF Create
  <2>3. Lowest(free) \in DataBlocks
    BY <1>7, LowestIsMember, Layout DEF Create, Types, TypeOK
  <2>4. [valid |-> TRUE, size |-> 0, direct |-> [k \in Slots |-> IF k = 0 THEN Lowest(free) ELSE 0]]
          \in Inode
    BY <2>3 DEF Inode
  <2>5. inodes' \in [InodeNums -> Inode]
    BY <1>7, <2>4 DEF Create
  <2> QED BY <1>7, <2>1, <2>2, <2>5 DEF Types, TypeOK, Create, Ready
<1>8. ASSUME NEW i \in InodeNums, NEW q \in Requests, WriteFails(i, q) PROVE Types'
  <2>1. heap' \in 0 .. HeapBlocks
    BY <1>8 DEF WriteFails
  <2>2. ret' \in Ret
    BY <1>8, ReturnType DEF WriteFails, Codes
  <2> QED BY <1>8, <2>1, <2>2 DEF Types, TypeOK, WriteFails, Ready
<1>9. ASSUME NEW i \in InodeNums, NEW q \in Requests, WriteStart(i, q) PROVE Types'
  <2>1. inodes[i].direct \in [Slots -> {0} \cup DataBlocks] /\ inodes[i].direct \in [Slots -> Nat]
    BY Layout DEF Inode
  <2>2. PointersLen(inodes[i].direct) \in 0 .. Pointers
    BY <2>1, PointersLenFacts
  <2>3. /\ Need(q) \in Nat /\ Chunks(q) \in Nat
        /\ Total(q, PointersLen(inodes[i].direct)) \in Nat
    BY <2>2, RequestTypes
  <2>4. q.off + q.len \in Nat
    BY RequestAssumption
  <2>5. job' \in Job /\ job'.kind = "alloc"
    BY <1>9, <2>1, <2>2, <2>3, <2>4 DEF WriteStart, Job
  <2>6. heap' \in 0 .. HeapBlocks
    BY <1>9 DEF WriteStart
  <2> QED BY <1>9, <2>5, <2>6 DEF Types, TypeOK, WriteStart
<1>10. CASE Allocate
  <2>1. Lowest(free) \in DataBlocks
    BY <1>10, LowestIsMember, Layout DEF Allocate, Types, TypeOK
  <2>2. job.left \in Nat /\ job.left > 0 /\ job.next \in Nat
    BY <1>10 DEF Allocate, Job
  <2>3. job' \in Job /\ job'.kind = "alloc"
    <3> DEFINE slot == job.avail + job.next
               d == IF slot \in Slots THEN [job.direct EXCEPT ![slot] = Lowest(free)]
                                     ELSE job.direct
    <3>1. d \in [Slots -> {0} \cup DataBlocks]
      BY <2>1 DEF Job
    <3>2. job' = [job EXCEPT !.left = job.left - 1, !.next = job.next + 1, !.direct = d]
      BY <1>10 DEF Allocate
    <3>3. job.left - 1 \in Nat /\ job.next + 1 \in Nat
      BY <2>2
    <3>4. job.kind = "alloc"
      BY <1>10 DEF Allocate
    <3> HIDE DEF d
    <3> QED BY <3>1, <3>2, <3>3, <3>4 DEF Job
  <2> QED BY <1>10, <2>3 DEF Types, TypeOK, Allocate
<1>11. CASE AllocationFails
  <2>1. ret' \in Ret
    BY <1>11, ReturnType DEF AllocationFails, Codes
  <2> QED BY <1>11, <2>1 DEF Types, TypeOK, AllocationFails
<1>12. CASE AllocationEnd
  <2>1. job' \in Job /\ job'.kind = "data"
    BY <1>12 DEF AllocationEnd, Job
  <2> QED BY <1>12, <2>1 DEF Types, TypeOK, AllocationEnd
<1>13. CASE WriteData
  <2>1. job' \in Job /\ job'.kind = "data"
    <3>1. (job.dropped \/ heap < 2) \in BOOLEAN
      OBVIOUS
    <3>2. job.next + 1 \in Nat
      BY DEF Job
    <3>3. job' = [job EXCEPT !.next = job.next + 1, !.dropped = (job.dropped \/ heap < 2)]
      BY <1>13 DEF WriteData
    <3>4. job'.kind = "data"
      BY <1>13, <3>3 DEF WriteData, Job
    <3> QED BY <3>1, <3>2, <3>3, <3>4, JobMoves
  <2>2. heap' \in 0 .. HeapBlocks
    BY <1>13 DEF WriteData
  <2> QED BY <1>13, <2>1, <2>2 DEF Types, TypeOK, WriteData
<1>14. CASE WriteInode
  <2>1. job.size \in Nat /\ job.direct \in [Slots -> {0} \cup DataBlocks] /\ job.ino \in InodeNums
    BY DEF Job
  <2>2. inodes' \in [InodeNums -> Inode]
    <3>1. CASE inodes' = inodes
      BY <3>1
    <3>2. CASE inodes' = [inodes EXCEPT ![job.ino].size = job.size,
                                        ![job.ino].direct = job.direct]
      BY <2>1, <3>2 DEF Inode
    <3> QED BY <1>14, <3>1, <3>2 DEF WriteInode
  <2>3. ret' \in Ret
    <3>1. (job.dropped \/ heap = 0) \in BOOLEAN
      OBVIOUS
    <3> QED BY <1>14, <3>1 DEF WriteInode, Codes, Ret
  <2>4. heap' \in 0 .. HeapBlocks
    BY <1>14 DEF WriteInode
  <2> QED BY <1>14, <2>2, <2>3, <2>4 DEF Types, TypeOK, WriteInode
<1>15. ASSUME NEW i \in InodeNums, NEW len, Read(i, len) PROVE Types'
  <2>1. heap' \in 0 .. HeapBlocks
    BY <1>15 DEF Read
  <2>2. ret' \in Ret
    BY <1>15, ReturnType DEF Read, Codes
  <2> QED BY <1>15, <2>1, <2>2 DEF Types, TypeOK, Read, Ready
<1>16. ASSUME NEW i \in InodeNums, Stat(i) PROVE Types'
  <2>1. heap' \in 0 .. HeapBlocks
    BY <1>16 DEF Stat
  <2>2. ret' \in Ret
    BY <1>16, ReturnType DEF Stat, Codes
  <2> QED BY <1>16, <2>1, <2>2 DEF Types, TypeOK, Stat, Ready
<1>17. CASE Reset
  <2>1. ret' \in Ret
    BY <1>17 DEF Reset, Codes, Ret
  <2>2. /\ inodes' \in [InodeNums -> Inode] /\ raw' \subseteq InodeBlockNums
        /\ bitmap' \in {"none", "null", "ok"} /\ free' \subseteq DataBlocks
        /\ vain' \in BOOLEAN /\ ub' \in {"no"} \cup Ways
    BY <1>17 DEF Types, TypeOK, Reset
  <2>3. heap' \in 0 .. HeapBlocks /\ job' \in Job /\ job'.kind = "idle"
    BY <1>17 DEF Reset
  <2> QED BY <2>1, <2>2, <2>3 DEF Types, TypeOK
<1>18. CASE Info
  <2>1. CASE /\ Returns(IF heap = 0 THEN "nomem" ELSE "ok")
             /\ UNCHANGED <<inodes, raw, bitmap, free, heap, job, vain, ub>>
    <3>1. ret' \in Ret
      BY <2>1, ReturnType DEF Codes
    <3> QED BY <2>1, <3>1 DEF Types, TypeOK
  <2>2. CASE /\ heap \in 1 .. 2 /\ Returns("ok") /\ job.kind = "idle"
             /\ bitmap' = "null" /\ free' = {} /\ heap' = 1 /\ vain' = TRUE
             /\ UNCHANGED <<inodes, raw, job, ub>>
    <3>1. ret' \in Ret
      BY <2>2, ReturnType DEF Codes
    <3>2. heap' \in 0 .. HeapBlocks
      BY <2>2 DEF Types, TypeOK
    <3> QED BY <2>2, <3>1, <3>2 DEF Types, TypeOK
  <2> QED BY <1>4, <1>18, <2>1, <2>2 DEF Info
<1>19. CASE UNCHANGED vars
  BY <1>19 DEF Types, TypeOK, vars
<1> QED
  BY <1>1, <1>2, <1>3, <1>4, <1>5, <1>6, <1>7, <1>8, <1>9, <1>10, <1>11, <1>12, <1>13,
     <1>14, <1>15, <1>16, <1>17, <1>18, <1>19
  DEF Next, Step, Call, UseRaw, StatNoMemory, Find, UseNoBitmap, Ways

-----------------------------------------------------------------------------
(* A call that gives no block to an inode, or has none in progress.          *)

Safe == NoSharing /\ BitmapSafe /\ PointersDense /\ JobExtends

LEMMA InodeTypes ==
    ASSUME Types
    PROVE  /\ \A i \in InodeNums : inodes[i].direct \in [Slots -> Nat]
           /\ \A i \in InodeNums, k \in Slots : inodes[i].direct[k] \in {0} \cup DataBlocks
           /\ job.direct \in [Slots -> Nat] /\ job.ino \in InodeNums
           /\ \A k \in Slots : job.direct[k] \in {0} \cup DataBlocks
           /\ job.avail \in Nat /\ job.next \in Nat
<1>1. inodes \in [InodeNums -> Inode] /\ job \in Job
  BY DEF Types, TypeOK
<1>2. {0} \cup DataBlocks \subseteq Nat
  BY Layout
<1>3. \A i \in InodeNums : inodes[i].direct \in [Slots -> {0} \cup DataBlocks]
  BY <1>1 DEF Inode
<1>4. job.direct \in [Slots -> {0} \cup DataBlocks] /\ job.ino \in InodeNums
  BY <1>1 DEF Job
<1>5. job.avail \in Nat /\ job.next \in Nat
  BY <1>1, Layout DEF Job
<1> QED BY <1>2, <1>3, <1>4, <1>5

\* Steps that end with no write in progress and leave the inodes alone.
LEMMA Quiet ==
    ASSUME IInv, inodes' = inodes, free' \subseteq free, ~Writing'
    PROVE  Safe'
<1>1. \A i \in InodeNums : Pending(i)' = inodes[i].direct
  BY DEF Pending
<1>2. NoSharing'
  BY <1>1 DEF NoSharing, IInv
<1>3. BitmapSafe'
  BY <1>1 DEF BitmapSafe, IInv
<1>4. PointersDense'
  BY DEF PointersDense, IInv
<1>5. JobExtends'
  BY DEF JobExtends
<1> QED BY <1>2, <1>3, <1>4, <1>5 DEF Safe

\* Steps of a write that leave the inode it will save as it is.
LEMMA Carry ==
    ASSUME IInv, Writing, inodes' = inodes, free' = free, job'.kind = "data",
           job'.ino = job.ino, job'.direct = job.direct, job'.avail = job.avail
    PROVE  Safe'
<1>1. \A i \in InodeNums : Pending(i)' = Pending(i)
  BY DEF Pending, Writing
<1>2. NoSharing'
  BY <1>1 DEF NoSharing, IInv
<1>3. BitmapSafe'
  BY <1>1 DEF BitmapSafe, IInv
<1>4. PointersDense'
  BY DEF PointersDense, IInv
<1>5. JobExtends'
  BY DEF JobExtends, IInv, Writing
<1> QED BY <1>2, <1>3, <1>4, <1>5 DEF Safe

-----------------------------------------------------------------------------
(* The steps that change an inode, the bitmap or the write in progress.      *)

LEMMA FormatBlockSafe == IInv /\ FormatBlock => Safe'
<1> SUFFICES ASSUME IInv, FormatBlock PROVE Safe'
  OBVIOUS
<1>1. ~Writing /\ ~Writing'
  <2>1. job'.kind = "format"
    BY DEF FormatBlock, IInv, Types, TypeOK, Job
  <2> QED BY <2>1 DEF FormatBlock, Writing
<1>2. \A i \in InodeNums : inodes'[i] = inodes[i] \/ inodes'[i] = ClearInode
  BY DEF FormatBlock
<1>3. \A i \in InodeNums : Pending(i)' = inodes'[i].direct
  BY <1>1 DEF Pending
<1>4. \A k \in Slots : ClearInode.direct[k] = 0
  BY DEF ClearInode
<1>5. ~ClearInode.valid
  BY DEF ClearInode
<1>6. NoSharing'
  BY <1>2, <1>3, <1>4 DEF NoSharing, IInv
<1>7. BitmapSafe'
  <2>1. \A i \in InodeNums : Referenced(inodes'[i].direct) \subseteq Referenced(inodes[i].direct)
    BY <1>2, <1>4 DEF Referenced
  <2> QED BY <1>3, <2>1 DEF BitmapSafe, IInv, FormatBlock
<1>8. PointersDense'
  BY <1>2, <1>4, <1>5, Layout DEF PointersDense, IInv
<1>9. JobExtends'
  BY <1>1 DEF JobExtends
<1> QED BY <1>6, <1>7, <1>8, <1>9 DEF Safe

LEMMA MountSafe == IInv /\ Mount => Safe'
<1> SUFFICES ASSUME IInv, Mount PROVE Safe'
  OBVIOUS
<1>1. ~Writing' /\ inodes' = inodes
  BY DEF Mount, Writing
<1>2. CASE free' \subseteq free
  BY <1>1, <1>2, Quiet
<1>3. CASE free' = DataBlocks \ UsedBlocks
  <2>1. \A i \in InodeNums : Pending(i)' = inodes[i].direct
    BY <1>1 DEF Pending
  <2>2. \A i \in InodeNums : ~inodes[i].valid => Referenced(inodes[i].direct) = {}
    BY Layout DEF IInv, PointersDense, Referenced
  <2>3. \A i \in InodeNums : Referenced(inodes[i].direct) \subseteq UsedBlocks
    BY <2>2 DEF UsedBlocks
  <2>4. BitmapSafe'
    BY <1>1, <1>3, <2>1, <2>3 DEF BitmapSafe
  <2>5. NoSharing'
    BY <1>1, <2>1 DEF NoSharing, IInv
  <2>6. PointersDense' /\ JobExtends'
    BY <1>1 DEF PointersDense, JobExtends, IInv
  <2> QED BY <2>4, <2>5, <2>6 DEF Safe
<1> QED BY <1>2, <1>3 DEF Mount

LEMMA CreateSafe == IInv /\ Create => Safe'
<1> SUFFICES ASSUME IInv, Create PROVE Safe'
  OBVIOUS
<1> DEFINE b == Lowest(free)
           new == [valid |-> TRUE, size |-> 0,
                   direct |-> [k \in Slots |-> IF k = 0 THEN b ELSE 0]]
           ino == Lowest(FreeInodes)
<1>1. b \in free /\ b # 0 /\ b \in DataBlocks /\ free \subseteq DataBlocks
  BY Layout, LowestIsMember DEF Create, IInv, Types, TypeOK
<1>2. ino \in InodeNums /\ ~inodes[ino].valid
  <2>1. FreeInodes \subseteq Nat /\ FreeInodes # {}
    BY Layout DEF FreeInodes, Create
  <2> QED BY <2>1, LowestIsMember DEF FreeInodes
<1>3. ~Writing /\ ~Writing' /\ free' = free \ {b}
  BY DEF Create, Ready, Writing
<1>4. CASE inodes' = inodes
  BY <1>3, <1>4, Quiet
<1>5. CASE inodes' = [inodes EXCEPT ![ino] = new]
  <2>1. inodes \in [InodeNums -> Inode]
    BY DEF IInv, Types, TypeOK
  <2>2. /\ inodes'[ino].valid /\ inodes'[ino].direct[0] = b
        /\ \A k \in Slots : k # 0 => inodes'[ino].direct[k] = 0
        /\ \A i \in InodeNums : i # ino => inodes'[i] = inodes[i]
    BY <1>2, <1>5, <2>1, Layout
  <2>3. \A i \in InodeNums : Pending(i)' = inodes'[i].direct /\ Pending(i) = inodes[i].direct
    BY <1>3 DEF Pending
  <2>4. \A i \in InodeNums, k \in Slots : inodes[i].direct[k] # b
    BY <1>1 DEF IInv, BitmapSafe, Referenced
  <2> HIDE DEF b, new, ino
  <2>5. NoSharing'
    <3>1. ASSUME NEW i \in InodeNums, NEW j \in InodeNums, NEW k \in Slots, NEW l \in Slots,
                 <<i, k>> # <<j, l>>, inodes'[i].direct[k] = inodes'[j].direct[l]
          PROVE  inodes'[i].direct[k] = 0
      <4>1. CASE i = ino /\ j = ino
        BY <2>2, <3>1, <4>1
      <4>2. CASE i = ino /\ j # ino
        BY <2>2, <2>4, <3>1, <4>2
      <4>3. CASE i # ino /\ j = ino
        BY <2>2, <2>4, <3>1, <4>3
      <4>4. CASE i # ino /\ j # ino
        BY <2>2, <3>1, <4>4 DEF NoSharing, IInv
      <4> QED BY <4>1, <4>2, <4>3, <4>4
    <3> QED BY <2>3, <3>1 DEF NoSharing
  <2>6. BitmapSafe'
    <3>1. ASSUME NEW i \in InodeNums PROVE free' \cap Referenced(inodes'[i].direct) = {}
      <4>1. CASE i = ino
        BY <1>3, <2>2, <4>1, Layout DEF Referenced
      <4>2. CASE i # ino
        BY <1>3, <2>2, <4>2 DEF IInv, BitmapSafe
      <4> QED BY <4>1, <4>2
    <3> QED BY <2>3, <3>1 DEF BitmapSafe
  <2>7. PointersDense'
    BY <1>1, <1>2, <2>2, Layout DEF PointersDense, IInv
  <2>8. JobExtends'
    BY <1>3 DEF JobExtends
  <2> QED BY <2>5, <2>6, <2>7, <2>8 DEF Safe
<1> QED BY <1>4, <1>5 DEF Create

LEMMA WriteStartSafe ==
    ASSUME IInv, NEW i \in InodeNums, NEW q \in Requests, WriteStart(i, q)
    PROVE  Safe'
<1> DEFINE avail == PointersLen(inodes[i].direct)
<1>1. /\ inodes[i].direct \in [Slots -> Nat]
      /\ \A k \in Slots : k < avail => inodes[i].direct[k] # 0
      /\ avail \in Slots => inodes[i].direct[avail] = 0
      /\ avail \in 0 .. Pointers
  BY InodeTypes, PointersLenFacts DEF IInv
<1>2. /\ ~Writing /\ job'.kind = "alloc" /\ job'.ino = i /\ job'.avail = avail
      /\ job'.next = 0 /\ job'.direct = inodes[i].direct /\ avail > 0
      /\ inodes' = inodes /\ free' = free
  BY DEF WriteStart, Ready, Writing
<1> HIDE DEF avail
<1>3. \A n \in InodeNums : Pending(n)' = inodes[n].direct
  BY <1>2 DEF Pending
<1>4. \A k \in Slots : inodes[i].direct[k] # 0 <=> k < avail
  <2>1. ASSUME NEW k \in Slots, inodes[i].direct[k] # 0 PROVE k < avail
    <3>1. SUFFICES ASSUME ~(k < avail) PROVE FALSE
      OBVIOUS
    <3>2. avail \in Slots /\ (avail < k \/ avail = k)
      BY <1>1, <3>1, Layout DEF Slots
    <3>3. inodes[i].direct[avail] # 0
      BY <2>1, <3>2 DEF IInv, PointersDense
    <3> QED BY <1>1, <3>2, <3>3
  <2> QED BY <1>1, <2>1
<1>5. inodes[i].valid
  BY <1>1, <1>2, Layout DEF IInv, PointersDense
<1>6. NoSharing' /\ BitmapSafe' /\ PointersDense'
  BY <1>2, <1>3 DEF NoSharing, BitmapSafe, PointersDense, IInv
<1>7. JobExtends'
  <2>1. \A k \in Slots : k < avail + 0 <=> k < avail
    BY <1>1, Layout
  <2> QED BY <1>2, <1>4, <1>5, <2>1 DEF JobExtends, IInv, PointersDense
<1> QED BY <1>6, <1>7 DEF Safe

LEMMA AllocateSafe == IInv /\ Allocate => Safe'
<1> SUFFICES ASSUME IInv, Allocate PROVE Safe'
  OBVIOUS
<1> DEFINE b == Lowest(free)
           slot == job.avail + job.next
<1>1. b \in free /\ b # 0 /\ b \in DataBlocks
  BY Layout, LowestIsMember DEF Allocate, IInv, Types, TypeOK
<1>2. /\ Writing /\ job.kind = "alloc" /\ inodes' = inodes /\ free' = free \ {b}
      /\ job' = [job EXCEPT !.left = @ - 1, !.next = @ + 1,
                   !.direct = IF slot \in Slots THEN [@ EXCEPT ![slot] = b] ELSE @]
  BY DEF Allocate, Writing
<1>3. /\ job'.kind = "alloc" /\ job'.ino = job.ino /\ job'.avail = job.avail
      /\ job'.next = job.next + 1
      /\ job'.direct = IF slot \in Slots THEN [job.direct EXCEPT ![slot] = b] ELSE job.direct
  BY <1>2 DEF IInv, Types, TypeOK, Job
<1>4. /\ job.ino \in InodeNums /\ job.direct \in [Slots -> Nat]
      /\ job.avail \in Nat /\ job.next \in Nat /\ slot \in Nat
  BY InodeTypes DEF IInv
<1> HIDE DEF b
<1>5. \A k \in Slots : job'.direct[k] = IF k = slot THEN b ELSE job.direct[k]
  BY <1>3, <1>4
<1>6. \A n \in InodeNums, k \in Slots :
         Pending(n)'[k] = IF n = job.ino /\ k = slot THEN b ELSE Pending(n)[k]
  <2>1. \A n \in InodeNums : n # job.ino => Pending(n)' = Pending(n)
    BY <1>2, <1>3 DEF Pending
  <2>2. \A n \in InodeNums :
           n = job.ino => Pending(n) = job.direct /\ Pending(n)' = job'.direct
    BY <1>2, <1>3 DEF Pending, Writing
  <2> QED BY <1>5, <2>1, <2>2
<1>7. /\ \A n \in InodeNums, k \in Slots : Pending(n)[k] # b
      /\ \A n \in InodeNums, k \in Slots : inodes[n].direct[k] # b
  BY <1>1 DEF IInv, BitmapSafe, Referenced
<1>8. \A k \in Slots : job.direct[k] # 0 <=> k < slot
  BY <1>2 DEF IInv, JobExtends
<1>9. NoSharing'
  <2>1. ASSUME NEW i \in InodeNums, NEW j \in InodeNums, NEW k \in Slots, NEW l \in Slots,
               <<i, k>> # <<j, l>>, Pending(i)'[k] = Pending(j)'[l]
        PROVE  Pending(i)'[k] = 0
    <3>1. /\ Pending(i)'[k] = Pending(i)[k] \/ (i = job.ino /\ k = slot /\ Pending(i)'[k] = b)
          /\ Pending(j)'[l] = Pending(j)[l] \/ (j = job.ino /\ l = slot /\ Pending(j)'[l] = b)
      BY <1>6
    <3>2. CASE Pending(i)'[k] = b
      BY <1>7, <2>1, <3>1, <3>2
    <3>3. CASE Pending(i)'[k] # b
      BY <2>1, <3>1, <3>3 DEF NoSharing, IInv
    <3> QED BY <3>2, <3>3
  <2> QED BY <1>2, <2>1 DEF NoSharing, IInv
<1>10. BitmapSafe'
  <2>1. ASSUME NEW n \in InodeNums PROVE Referenced(Pending(n)') \subseteq Referenced(Pending(n)) \cup {b}
    BY <1>6 DEF Referenced
  <2> QED BY <1>2, <2>1 DEF BitmapSafe, IInv
<1>11. PointersDense'
  BY <1>2 DEF PointersDense, IInv
<1>12. JobExtends'
  <2>1. \A k \in Slots : job'.direct[k] # 0 <=> k < job.avail + (job.next + 1)
    <3>1. \A k \in Slots : k < job.avail + (job.next + 1) <=> k < slot \/ k = slot
      BY <1>4, Layout
    <3>2. \A k \in Slots : job'.direct[k] # 0 <=> k < slot \/ k = slot
      BY <1>1, <1>5, <1>8
    <3> QED BY <3>1, <3>2
  <2>2. \A k \in Slots : inodes[job.ino].direct[k] # 0 =>
           job'.direct[k] = inodes[job.ino].direct[k] /\ k < job.avail
    BY <1>2, <1>4, <1>5, Layout DEF JobExtends, IInv
  <2>3. \A k, l \in Slots : k < l /\ job'.direct[l] # 0 => job'.direct[k] # 0
    BY <1>4, <2>1, Layout
  <2> QED BY <1>2, <1>3, <2>1, <2>2, <2>3 DEF JobExtends, IInv, Writing
<1> QED BY <1>9, <1>10, <1>11, <1>12 DEF Safe

LEMMA WriteInodeSafe == IInv /\ WriteInode => Safe'
<1> SUFFICES ASSUME IInv, WriteInode PROVE Safe'
  OBVIOUS
<1>1. Writing /\ ~Writing' /\ free' = free
  BY NoJobType DEF WriteInode, Writing
<1>2. CASE inodes' = inodes
  BY <1>1, <1>2, Quiet
<1>3. CASE inodes' = [inodes EXCEPT ![job.ino].size = job.size, ![job.ino].direct = job.direct]
  <2>1. inodes \in [InodeNums -> Inode] /\ job.ino \in InodeNums
    BY InodeTypes DEF IInv, Types, TypeOK
  <2>2. /\ \A i \in InodeNums : inodes'[i].valid = inodes[i].valid
        /\ \A i \in InodeNums : inodes'[i].direct = Pending(i)
    BY <1>1, <1>3, <2>1 DEF Pending, Inode
  <2>3. \A i \in InodeNums : Pending(i)' = inodes'[i].direct
    BY <1>1 DEF Pending
  <2>4. NoSharing'
    BY <2>2, <2>3 DEF NoSharing, IInv
  <2>5. BitmapSafe'
    BY <1>1, <2>2, <2>3 DEF BitmapSafe, IInv
  <2>6. PointersDense'
    <3>1. ASSUME NEW i \in InodeNums, i # job.ino PROVE inodes'[i].direct = inodes[i].direct
      BY <2>2, <3>1 DEF Pending
    <3>2. /\ inodes'[job.ino].direct = job.direct /\ inodes[job.ino].valid
          /\ inodes[job.ino].direct[0] # 0
      BY <1>1, <2>1, <2>2 DEF Pending, JobExtends, PointersDense, IInv
    <3>3. job.direct[0] # 0
      BY <1>1, <3>2, Layout DEF JobExtends, IInv
    <3> QED BY <1>1, <2>1, <2>2, <3>1, <3>2, <3>3 DEF PointersDense, JobExtends, IInv
  <2>7. JobExtends'
    BY <1>1 DEF JobExtends
  <2> QED BY <2>4, <2>5, <2>6, <2>7 DEF Safe
<1> QED BY <1>2, <1>3 DEF WriteInode

-----------------------------------------------------------------------------
(* The theorems.                                                             *)

LEMMA StepInvariant == IInv /\ [Next]_vars => IInv'
<1> SUFFICES ASSUME IInv, [Next]_vars PROVE IInv'
  OBVIOUS
<1>0. Types'
  BY TypesKept DEF IInv
<1> SUFFICES Safe'
  BY <1>0 DEF IInv, Safe
<1>1. CASE FormatStart
  <2>1. ~Writing'
    BY <1>1, NoJobType DEF FormatStart, Writing, NoJob
  <2> QED BY <1>1, <2>1, Quiet DEF FormatStart
<1>2. CASE FormatBlock
  BY <1>2, FormatBlockSafe
<1>3. CASE Mount
  BY <1>3, MountSafe
<1>4. CASE Create
  BY <1>4, CreateSafe
<1>5. ASSUME NEW i \in InodeNums, NEW q \in Requests, WriteStart(i, q) PROVE Safe'
  BY <1>5, WriteStartSafe
<1>6. CASE Allocate
  BY <1>6, AllocateSafe
<1>7. CASE WriteInode
  BY <1>7, WriteInodeSafe
<1>8. CASE AllocationEnd
  <2>1. /\ Writing /\ job'.kind = "data" /\ job'.ino = job.ino
        /\ job'.direct = job.direct /\ job'.avail = job.avail
    BY <1>8 DEF AllocationEnd, Writing, IInv, Types, TypeOK, Job
  <2> QED BY <1>8, <2>1, Carry DEF AllocationEnd
<1>9. CASE WriteData
  <2>1. /\ Writing /\ job'.kind = "data" /\ job'.ino = job.ino
        /\ job'.direct = job.direct /\ job'.avail = job.avail
    BY <1>9 DEF WriteData, Writing, IInv, Types, TypeOK, Job
  <2> QED BY <1>9, <2>1, Carry DEF WriteData
<1>10. CASE job'.kind = "idle" /\ inodes' = inodes /\ free' \subseteq free
  BY <1>10, Quiet DEF Writing
<1>11. CASE UNCHANGED vars
  BY <1>11
  DEF vars, IInv, Safe, NoSharing, BitmapSafe, PointersDense, JobExtends, Pending, Writing
<1>12. CASE \/ FormatEnd \/ AllocationFails \/ CreateFails \/ Reset
            \/ \E how \in Ways : Undefined(how)
            \/ \E i \in InodeNums :
                  \/ Stat(i)
                  \/ \E q \in Requests : WriteFails(i, q) \/ Read(i, q.len)
  <2>1. job'.kind = "idle" /\ inodes' = inodes /\ free' \subseteq free
    BY <1>12, NoJobType
    DEF FormatEnd, AllocationFails, Undefined, CreateFails, Reset, Stat, WriteFails, Read, Ready
  <2> QED BY <2>1, <1>10
<1>13. CASE Info
  <2>1. CASE UNCHANGED <<inodes, job>> /\ job.kind = "idle" /\ free' \subseteq free
    BY <1>10, <2>1
  <2> QED BY <1>3, <1>13, <2>1 DEF Info
<1> QED
  BY <1>1, <1>2, <1>3, <1>4, <1>5, <1>6, <1>7, <1>8, <1>9, <1>11, <1>12, <1>13
  DEF Next, Step, Call, UseRaw, StatNoMemory, Find, UseNoBitmap, Ways

\* The inductive invariant holds of every behaviour, with no assumption beyond
\* those on the layout and the requests.
THEOREM Invariance == Spec => []IInv
<1>1. Init => IInv
  BY InitInvariant
<1>2. IInv /\ [Next]_vars => IInv'
  BY StepInvariant
<1> QED BY <1>1, <1>2, PTL DEF Spec

\* Every variable keeps its type.
THEOREM TypeCorrectness == Spec => []TypeOK
<1>1. IInv => TypeOK
  BY DEF IInv, Types
<1> QED BY <1>1, Invariance, PTL

\* No block is ever in two files.
THEOREM BlocksNotShared == Spec => []NoSharing
<1>1. IInv => NoSharing
  BY DEF IInv
<1> QED BY <1>1, Invariance, PTL

\* No block that the bitmap calls free is in a file.
THEOREM BitmapSafety == Spec => []BitmapSafe
<1>1. IInv => BitmapSafe
  BY DEF IInv
<1> QED BY <1>1, Invariance, PTL

\* An inode is valid exactly when it has a block; its blocks come first.
THEOREM DensePointers == Spec => []PointersDense
<1>1. IInv => PointersDense
  BY DEF IInv
<1> QED BY <1>1, Invariance, PTL

\* A mount that found no memory left none: only info's does, and it leaves a mark.
NullIsBlocked == bitmap = "null" /\ ~vain => heap = 0 /\ job.kind = "idle"

LEMMA NullStaysBlocked ==
    ASSUME IInv, NullIsBlocked, [Next]_vars
    PROVE  NullIsBlocked'
<1> SUFFICES ASSUME bitmap' = "null", ~vain'
             PROVE  heap' = 0 /\ job'.kind = "idle"
  BY DEF NullIsBlocked
<1>1. ~vain \/ Reset
  BY DEF Next, Step, Call, vars, FormatStart, FormatBlock, FormatEnd, Mount, UseRaw, Undefined,
         CreateFails, Create, WriteFails, WriteStart, Allocate, AllocationFails, AllocationEnd,
         WriteData, WriteInode, Read, Stat, StatNoMemory, Find, Info, UseNoBitmap, IInv, Types,
         TypeOK
<1>2. ~Reset
  BY DEF Reset
<1>3. CASE bitmap = "null"
  <2>1. heap = 0 /\ job.kind = "idle"
    BY <1>1, <1>2, <1>3 DEF NullIsBlocked
  <2> QED
    BY <1>2, <2>1, NoJobType
    DEF Next, Step, Call, vars, FormatStart, FormatBlock, FormatEnd, Mount, UseRaw, Undefined,
        CreateFails, Create, WriteFails, WriteStart, Allocate, AllocationFails, AllocationEnd,
        WriteData, WriteInode, Read, Stat, StatNoMemory, Find, Info, UseNoBitmap
<1>4. CASE bitmap # "null"
  <2>1. Mount
    BY <1>4
    DEF Next, Step, Call, vars, FormatStart, FormatBlock, FormatEnd, UseRaw, Undefined,
        CreateFails, Create, WriteFails, WriteStart, Allocate, AllocationFails, AllocationEnd,
        WriteData, WriteInode, Read, Stat, StatNoMemory, Find, Info, UseNoBitmap, Reset
  <2> QED BY <1>4, <2>1 DEF Mount, IInv, Types, TypeOK
<1> QED BY <1>3, <1>4

\* Unless info has mounted in vain since the reset, no create or write takes a block
\* through a missing bitmap.
THEOREM NullBitmapSafety == Spec => NullBitmapUnused
<1>1. Init => NullIsBlocked
  BY DEF Init, NullIsBlocked
<1>2. IInv /\ NullIsBlocked /\ [Next]_vars => NullIsBlocked'
  BY NullStaysBlocked
<1>3. IInv /\ NullIsBlocked /\ [Next]_vars => [ub # "bitmap" /\ ub' = "bitmap" => vain]_vars
  <2> SUFFICES ASSUME IInv, NullIsBlocked, [Next]_vars, ub # "bitmap", ub' = "bitmap"
               PROVE  vain
    OBVIOUS
  <2>1. UseNoBitmap
    BY DEF Next, Step, Call, vars, FormatStart, FormatBlock, FormatEnd, Mount, UseRaw, Undefined,
           CreateFails, Create, WriteFails, WriteStart, Allocate, AllocationFails, AllocationEnd,
           WriteData, WriteInode, Read, Stat, StatNoMemory, Find, Info, Reset
  <2>2. bitmap = "null" /\ (heap > 0 \/ job.kind = "alloc")
    BY <2>1 DEF UseNoBitmap
  <2> QED BY <2>2 DEF NullIsBlocked
<1>4. Spec => [][ub # "bitmap" /\ ub' = "bitmap" => vain]_vars
  BY <1>1, <1>2, <1>3, Invariance, PTL DEF Spec
<1> QED BY <1>4 DEF NullBitmapUnused

-----------------------------------------------------------------------------
(* What a step may do to the inodes, and the refinement.                     *)

\* The three actions that write an inode block, and nothing else does.
LEMMA InodesChange ==
    ASSUME [Next]_vars, inodes' # inodes
    PROVE  FormatBlock \/ Create \/ WriteInode
BY DEF Next, Step, Call, vars, FormatStart, FormatEnd, Mount, UseRaw, Undefined, CreateFails,
       WriteFails, WriteStart, Allocate, AllocationFails, AllocationEnd, WriteData,
       Read, Stat, StatNoMemory, Find, Info, UseNoBitmap, Reset

\* A create or a write changes one inode: it adds blocks that no inode has.
LEMMA OneInodeGrows ==
    ASSUME IInv, Create \/ WriteInode, inodes' # inodes
    PROVE  \E i \in InodeNums :
              /\ \A n \in InodeNums : n # i => inodes'[n] = inodes[n]
              /\ \A k \in Slots :
                    inodes[i].direct[k] # 0 => inodes'[i].direct[k] = inodes[i].direct[k]
              /\ \A k \in Slots, n \in InodeNums :
                    /\ inodes'[i].direct[k] \in {0} \cup DataBlocks
                    /\ n # i => inodes'[i].direct[k] \notin Referenced(inodes[n].direct)
<1>1. inodes \in [InodeNums -> Inode]
  BY DEF IInv, Types, TypeOK
<1>2. CASE Create
  <2> DEFINE b == Lowest(free)
             new == [valid |-> TRUE, size |-> 0,
                     direct |-> [k \in Slots |-> IF k = 0 THEN b ELSE 0]]
             ino == Lowest(FreeInodes)
  <2>1. b \in free /\ b \in DataBlocks
    BY <1>2, Layout, LowestIsMember DEF Create, IInv, Types, TypeOK
  <2>2. ino \in InodeNums /\ ~inodes[ino].valid
    <3>1. FreeInodes \subseteq Nat /\ FreeInodes # {}
      BY <1>2, Layout DEF FreeInodes, Create
    <3> QED BY <3>1, LowestIsMember DEF FreeInodes
  <2>3. inodes' = [inodes EXCEPT ![ino] = new]
    BY <1>2 DEF Create
  <2>4. \A k \in Slots : inodes'[ino].direct[k] \in {0, b}
    BY <1>1, <2>2, <2>3
  <2>5. \A n \in InodeNums : n # ino => inodes'[n] = inodes[n]
    BY <1>1, <2>2, <2>3
  <2>6. \A k \in Slots : inodes[ino].direct[k] = 0
    <3>1. inodes[ino].direct[0] = 0
      BY <2>2 DEF IInv, PointersDense
    <3>2. \A k \in Slots : k # 0 => 0 < k
      BY Layout
    <3> QED BY <2>2, <3>1, <3>2, Layout DEF IInv, PointersDense
  <2>7. \A n \in InodeNums : b \notin Referenced(inodes[n].direct)
    BY <2>1 DEF IInv, BitmapSafe
  <2>8. \A n \in InodeNums : 0 \notin Referenced(inodes[n].direct)
    BY DEF Referenced
  <2> HIDE DEF ino, b
  <2> QED BY <2>1, <2>2, <2>4, <2>5, <2>6, <2>7, <2>8
<1>3. CASE WriteInode
  <2>1. /\ job.ino \in InodeNums
        /\ \A k \in Slots : job.direct[k] \in {0} \cup DataBlocks
    BY InodeTypes DEF IInv
  <2>2. /\ inodes'[job.ino].direct = job.direct
        /\ \A n \in InodeNums : n # job.ino => inodes'[n] = inodes[n]
    BY <1>1, <1>3, <2>1 DEF WriteInode, Inode
  <2>3. Writing
    BY <1>3 DEF WriteInode, Writing
  <2>4. \A k \in Slots :
           inodes[job.ino].direct[k] # 0 => job.direct[k] = inodes[job.ino].direct[k]
    BY <2>3 DEF IInv, JobExtends
  <2>5. ASSUME NEW k \in Slots, NEW n \in InodeNums, n # job.ino
        PROVE  job.direct[k] \notin Referenced(inodes[n].direct)
    <3>1. Pending(n) = inodes[n].direct /\ Pending(job.ino) = job.direct
      BY <2>3, <2>5 DEF Pending
    <3>2. \A l \in Slots : job.direct[k] = inodes[n].direct[l] => job.direct[k] = 0
      BY <2>1, <2>5, <3>1 DEF IInv, NoSharing
    <3> QED BY <3>2 DEF Referenced
  <2> QED BY <2>1, <2>2, <2>4, <2>5
<1> QED BY <1>2, <1>3

\* Only a format takes a block away from a file.
THEOREM BlocksKept == Spec => FilesKeepTheirBlocks
<1> DEFINE Kept == job.kind # "format" =>
                     \A i \in InodeNums : \A k \in Slots :
                        inodes[i].direct[k] # 0 => inodes'[i].direct[k] = inodes[i].direct[k]
<1>1. IInv /\ [Next]_vars => Kept
  <2> SUFFICES ASSUME IInv, [Next]_vars, job.kind # "format", inodes' # inodes PROVE Kept
    OBVIOUS
  <2>1. Create \/ WriteInode
    BY InodesChange DEF FormatBlock
  <2> QED BY <2>1, OneInodeGrows
<1>2. IInv /\ [Next]_vars => [Kept]_vars
  BY <1>1
<1> HIDE DEF Kept
<1>3. Spec => [][Kept]_vars
  BY <1>2, Invariance, PTL DEF Spec
<1> QED BY <1>3 DEF Kept, FilesKeepTheirBlocks

\* fs.c implements the ownership of blocks that its users rely on.
THEOREM Refinement == Spec => ImplementsBlockOwnership
<1>1. Init => Ownership!Init
  BY DEF Init, Ownership!Init, Owned, Referenced, ClearInode
<1>2. IInv /\ [Next]_vars => [Ownership!Next]_Owned
  <2> SUFFICES ASSUME IInv, [Next]_vars, inodes' # inodes PROVE Ownership!Next \/ UNCHANGED Owned
    BY DEF Owned
  <2>1. CASE Create \/ WriteInode
    <3>1. PICK i \in InodeNums :
              /\ \A n \in InodeNums : n # i => inodes'[n] = inodes[n]
              /\ \A k \in Slots :
                    inodes[i].direct[k] # 0 => inodes'[i].direct[k] = inodes[i].direct[k]
              /\ \A k \in Slots, n \in InodeNums :
                    /\ inodes'[i].direct[k] \in {0} \cup DataBlocks
                    /\ n # i => inodes'[i].direct[k] \notin Referenced(inodes[n].direct)
      BY <2>1, OneInodeGrows
    <3> DEFINE S == Referenced(inodes'[i].direct) \ Referenced(inodes[i].direct)
    <3>2. S \subseteq Ownership!Unowned
      BY <3>1 DEF Ownership!Unowned, Owned, Referenced
    <3>3. Referenced(inodes[i].direct) \subseteq Referenced(inodes'[i].direct)
      BY <3>1 DEF Referenced
    <3>4. Owned' = [Owned EXCEPT ![i] = @ \cup S]
      BY <3>1, <3>3 DEF Owned
    <3>5. Ownership!Extend(i)
      BY <3>2, <3>4 DEF Ownership!Extend
    <3> QED BY <3>5 DEF Ownership!Next
  <2>2. CASE FormatBlock
    <3>1. Owned' = [i \in InodeNums |-> IF i \in Neighbours(job.next) THEN {} ELSE Owned[i]]
      BY <2>2 DEF FormatBlock, Owned, Neighbours, ClearInode, Referenced
    <3>2. job.next \in Nat /\ InodeBlocks \in Nat /\ job.next <= InodeBlocks
      BY <2>2, LayoutAssumption DEF FormatBlock, IInv, Types, TypeOK, Job
    <3>3. CASE job.next = 0
      <4>1. \A i \in InodeNums : BlockOf(i) # 0
        <5>1. \A i \in InodeNums : i \in Nat /\ PerBlock \in Nat /\ PerBlock > 0
          BY Layout, LayoutAssumption
        <5>2. \A i \in InodeNums : i \div PerBlock \in Nat
          BY <5>1
        <5> QED BY <5>2 DEF BlockOf
      <4>2. inodes' = inodes
        BY <2>2, <3>3, <4>1 DEF FormatBlock, IInv, Types, TypeOK
      <4> QED BY <4>2
    <3>4. CASE job.next # 0
      <4>1. job.next \in InodeBlockNums
        BY <3>2, <3>4 DEF InodeBlockNums
      <4>2. Ownership!Erase(Neighbours(job.next))
        BY <3>1 DEF Ownership!Erase
      <4> QED BY <4>1, <4>2 DEF Ownership!Next
    <3> QED BY <3>3, <3>4
  <2> QED BY <2>1, <2>2, InodesChange
<1> QED BY <1>1, <1>2, Invariance, PTL DEF Spec, ImplementsBlockOwnership, Ownership!Spec
=============================================================================
