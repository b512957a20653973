--------------------------- MODULE FileSystemSizes ----------------------------
(***************************************************************************)
(* What fs_write counts - the blocks a request needs, those it allocates,  *)
(* the chunks it writes, the size it saves - fits together, for every      *)
(* layout and every request: no data leaves the file's own blocks and no   *)
(* size exceeds them, in spite of the unsigned count that can wrap.        *)
(***************************************************************************)
EXTENDS FileSystemProofs

LEMMA Sizes ==
    /\ BlockSize \in Nat /\ BlockSize > 0 /\ SizeMod \in Nat /\ SizeMod > Pointers
    /\ Pointers \in Nat
BY LayoutAssumption, RequestAssumption DEF FirstDataBlock

\* The definition of division, for the block size.
LEMMA Division ==
    ASSUME NEW v \in Nat
    PROVE  /\ v \div BlockSize \in Nat /\ v % BlockSize \in Nat
           /\ v % BlockSize < BlockSize
           /\ v = (v \div BlockSize) * BlockSize + (v % BlockSize)
BY Sizes

\* A quotient is what fits.
LEMMA QuotientBound ==
    ASSUME NEW v \in Nat, NEW n \in Nat, v < n * BlockSize
    PROVE  v \div BlockSize < n
<1>1. v \div BlockSize \in Nat /\ (v \div BlockSize) * BlockSize <= v
  BY Division, Sizes
<1>2. SUFFICES ASSUME v \div BlockSize >= n PROVE FALSE
  BY <1>1
<1> DEFINE d == v \div BlockSize
<1>3. d \in Nat /\ d - n \in Nat /\ d = n + (d - n)
  BY <1>1, <1>2
<1>4. d * BlockSize = n * BlockSize + (d - n) * BlockSize
  BY <1>3, Sizes
<1>5. (d - n) * BlockSize \in Nat /\ n * BlockSize \in Nat /\ d * BlockSize \in Nat
  BY <1>3, Sizes
<1> QED BY <1>1, <1>4, <1>5

\* More blocks hold more bytes.
LEMMA BlocksMonotone ==
    ASSUME NEW m \in Nat, NEW n \in Nat, m <= n
    PROVE  m * BlockSize \in Nat /\ n * BlockSize \in Nat /\ m * BlockSize <= n * BlockSize
<1>1. n = m + (n - m) /\ n - m \in Nat
  OBVIOUS
<1>2. n * BlockSize = m * BlockSize + (n - m) * BlockSize
  BY <1>1, Sizes
<1>3. (n - m) * BlockSize \in Nat /\ m * BlockSize \in Nat
  BY <1>1, Sizes
<1> QED BY <1>2, <1>3

\* fs_write writes no more chunks than blocks it asks for, and they hold its bytes.
LEMMA NeedSuffices ==
    ASSUME NEW q \in Requests
    PROVE  /\ Need(q) \in Nat /\ Chunks(q) \in Nat
           /\ Chunks(q) <= Need(q)
           /\ q.off + q.len <= Need(q) * BlockSize
<1>0. q.off \in Nat /\ q.len \in Nat
  BY RequestAssumption
<1> DEFINE B == BlockSize
           o == q.off \div B
           r == Rem(q)
           x == q.len - r
           e == x \div B
<1>1. Need(q) \in Nat /\ Chunks(q) \in Nat
  BY RequestTypes, Layout
<1>2. /\ o \in Nat /\ r \in Nat /\ r > 0 /\ r <= B
      /\ q.off + r = o * B + B
  <2>1. /\ o \in Nat /\ q.off % B \in Nat /\ q.off % B < B
        /\ q.off = o * B + (q.off % B)
    BY <1>0, Division
  <2>2. r = B - (q.off % B)
    BY DEF Rem
  <2> DEFINE p == o * B
             m == q.off % B
  <2>3. p \in Nat
    BY <2>1, Sizes
  <2>4. q.off = p + m /\ m \in Nat /\ m < B /\ r = B - m
    BY <2>1, <2>2
  <2> HIDE DEF p, m
  <2>5. r \in Nat /\ r > 0 /\ r <= B /\ q.off + r = p + B
    BY <1>0, <2>3, <2>4, Sizes
  <2> QED BY <2>1, <2>5 DEF p
<1>3. (o + 1) * B = o * B + B /\ o * B \in Nat
  BY <1>2, Sizes
<1>4. CASE q.len <= r
  <2>1. Need(q) = o + 1
    BY <1>2, <1>4 DEF Need
  <2>2. Chunks(q) <= 1
    BY <1>4 DEF Chunks
  <2> QED BY <1>0, <1>1, <1>2, <1>3, <1>4, <2>1, <2>2, Sizes
<1>5. CASE ~(q.len <= r)
  <2>1. x \in Nat /\ x > 0
    BY <1>0, <1>2, <1>5
  <2>2. e \in Nat /\ x < e * B + B /\ e * B \in Nat
    BY <2>1, Division, Sizes
  <2>3. Need(q) = o + 1 + (e + 1)
    BY <1>2, <1>5, <2>2 DEF Need
  <2>4. (e + 1) * B = e * B + B /\ (e + 2) * B = e * B + B + B
    BY <2>2, Sizes
  <2>5. Chunks(q) <= e + 2
    <3>1. x + (B - 1) \in Nat /\ x + (B - 1) < (e + 2) * B
      BY <2>1, <2>2, <2>4, Sizes
    <3>2. (x + (B - 1)) \div B < e + 2 /\ (x + (B - 1)) \div B \in Nat
      BY <2>2, <3>1, QuotientBound, Division
    <3>3. Chunks(q) = 1 + ((x + (B - 1)) \div B)
      BY <1>0, <1>2, <1>5 DEF Chunks
    <3> QED BY <2>2, <3>2, <3>3
  <2>6. (o + 1 + (e + 1)) * B = (o * B + B) + (e * B + B)
    BY <1>2, <2>2, Sizes
  <2>7. q.off + q.len = (q.off + r) + x
    BY <1>0, <1>2
  <2>8. q.off + q.len <= (o * B + B) + (e * B + B)
    BY <1>0, <1>2, <1>3, <2>1, <2>2, <2>7, Sizes
  <2> HIDE DEF o, r, x, e
  <2> QED BY <1>1, <1>2, <2>2, <2>3, <2>5, <2>6, <2>8
<1> QED BY <1>4, <1>5

\* A request that is not too big needs no more blocks than an inode points to; and those
\* an inode has with those allocated are enough, whether or not the count has wrapped.
LEMMA TotalSuffices ==
    ASSUME NEW q \in Requests, NEW n \in 0 .. Pointers,
           (Total(q, n) + n) % SizeMod <= Pointers
    PROVE  Need(q) <= Pointers /\ Need(q) <= n + Total(q, n) /\ Total(q, n) \in Nat
<1>1. Need(q) \in Nat /\ Need(q) < SizeMod /\ n \in Nat /\ n < SizeMod /\ n <= Pointers
  BY NeedSuffices, NeedAssumption, Sizes
<1>2. CASE Need(q) >= n
  <2>1. Total(q, n) = Need(q) - n
    <3>1. (Need(q) + SizeMod) - n = (Need(q) - n) + SizeMod
      BY <1>1, Sizes
    <3>2. Need(q) - n \in Nat /\ Need(q) - n < SizeMod
      BY <1>1, <1>2, Sizes
    <3> QED BY <3>1, <3>2, Sizes DEF Total
  <2>2. (Total(q, n) + n) % SizeMod = Need(q)
    <3>1. Total(q, n) + n = Need(q)
      BY <1>1, <2>1
    <3> QED BY <1>1, <3>1, Sizes
  <2> QED BY <1>1, <1>2, <2>1, <2>2
<1>3. CASE Need(q) < n
  <2>1. Total(q, n) = (Need(q) + SizeMod) - n
    <3>1. (Need(q) + SizeMod) - n \in Nat /\ (Need(q) + SizeMod) - n < SizeMod
      BY <1>1, <1>3, Sizes
    <3> QED BY <3>1, Sizes DEF Total
  <2> QED BY <1>1, <1>3, <2>1, Sizes
<1> QED BY <1>1, <1>2, <1>3, Sizes

-----------------------------------------------------------------------------
(* The invariant: some number m of blocks covers the write in progress.      *)

Covers(j, m) ==
    /\ j.chunks <= m /\ j.size <= m * BlockSize
    /\ j.kind = "alloc" => m <= j.avail + j.next + j.left
    /\ j.kind = "data" => \A k \in Slots : k < m => j.direct[k] # 0

JobCovers == Writing => \E m \in 0 .. Pointers : Covers(job, m)

\* A file whose first m pointers are set has m blocks.
LEMMA FirstPointers ==
    ASSUME NEW d \in [Slots -> Nat], NEW m \in 0 .. Pointers,
           \A k \in Slots : k < m => d[k] # 0
    PROVE  m <= PointersLen(d)
<1>1. PointersLen(d) \in 0 .. Pointers /\ (PointersLen(d) \in Slots => d[PointersLen(d)] = 0)
  BY PointersLenFacts
<1>2. CASE PointersLen(d) \in Slots
  BY <1>1, <1>2, Sizes DEF Slots
<1>3. CASE PointersLen(d) \notin Slots
  BY <1>1, <1>3, Sizes DEF Slots
<1> QED BY <1>2, <1>3

\* A write starts with as many blocks as it needs, had or counted.
LEMMA StartCovers ==
    ASSUME IInv, NEW i \in InodeNums, NEW q \in Requests, WriteStart(i, q)
    PROVE  JobCovers'
<1> DEFINE avail == PointersLen(inodes[i].direct)
<1>1. avail \in 0 .. Pointers
  BY InodeTypes, PointersLenFacts DEF IInv
<1>2. /\ Need(q) <= Pointers /\ Need(q) <= avail + Total(q, avail)
      /\ Total(q, avail) \in Nat
  BY <1>1, TotalSuffices DEF WriteStart
<1>3. /\ Need(q) \in Nat /\ Chunks(q) <= Need(q)
      /\ q.off + q.len <= Need(q) * BlockSize
  BY NeedSuffices
<1>4. /\ job'.kind = "alloc" /\ job'.chunks = Chunks(q) /\ job'.size = q.off + q.len
      /\ job'.avail = avail /\ job'.next = 0 /\ job'.left = Total(q, avail)
  BY DEF WriteStart
<1>5. Need(q) \in 0 .. Pointers
  BY <1>2, <1>3, Sizes
<1> HIDE DEF avail
<1>6. Covers(job', Need(q))
  BY <1>1, <1>2, <1>3, <1>4 DEF Covers
<1> QED BY <1>5, <1>6 DEF JobCovers

\* The steps of a write keep them.
LEMMA CoversKept ==
    ASSUME IInv, JobCovers, [Next]_vars
    PROVE  JobCovers'
<1> SUFFICES ASSUME Writing' PROVE \E m \in 0 .. Pointers : Covers(job', m)
  BY DEF JobCovers
<1>0. job \in Job /\ inodes \in [InodeNums -> Inode]
  BY DEF IInv, Types, TypeOK
<1>1. CASE \E i \in InodeNums, q \in Requests : WriteStart(i, q)
  BY <1>1, StartCovers DEF JobCovers
<1>2. CASE Allocate
  <2>1. Writing
    BY <1>2 DEF Allocate, Writing
  <2>2. PICK m \in 0 .. Pointers : Covers(job, m)
    BY <2>1 DEF JobCovers
  <2>3. /\ job.kind = "alloc" /\ job.left \in Nat /\ job.left > 0 /\ job.next \in Nat
        /\ job.avail \in Nat /\ m \in Nat
    BY <1>0, <1>2, Sizes DEF Allocate, Job
  <2>4. /\ job'.kind = "alloc" /\ job'.chunks = job.chunks /\ job'.size = job.size
        /\ job'.avail = job.avail /\ job'.next = job.next + 1 /\ job'.left = job.left - 1
    BY <1>0, <1>2 DEF Allocate, Job
  <2>5. Covers(job', m)
    BY <2>2, <2>3, <2>4 DEF Covers
  <2> QED BY <2>5
<1>3. CASE AllocationEnd
  <2>1. Writing /\ job.kind = "alloc" /\ job.left = 0
    BY <1>3 DEF AllocationEnd, Writing
  <2>2. PICK m \in 0 .. Pointers : Covers(job, m)
    BY <2>1 DEF JobCovers
  <2>3. /\ job.next \in Nat /\ job.avail \in Nat /\ m \in Nat /\ Slots \subseteq Nat
    BY <1>0, Sizes, Layout DEF Job
  <2>4. m <= job.avail + job.next
    BY <2>1, <2>2, <2>3 DEF Covers
  <2>5. \A k \in Slots : k < m => job.direct[k] # 0
    BY <2>1, <2>3, <2>4 DEF IInv, JobExtends
  <2>6. /\ job'.kind = "data" /\ job'.chunks = job.chunks /\ job'.size = job.size
        /\ job'.direct = job.direct
    BY <1>0, <1>3 DEF AllocationEnd, Job
  <2>7. Covers(job', m)
    BY <2>2, <2>5, <2>6 DEF Covers
  <2> QED BY <2>7
<1>4. CASE WriteData
  <2>1. Writing /\ job.kind = "data"
    BY <1>4 DEF WriteData, Writing
  <2>2. PICK m \in 0 .. Pointers : Covers(job, m)
    BY <2>1 DEF JobCovers
  <2>3. /\ job'.kind = "data" /\ job'.chunks = job.chunks /\ job'.size = job.size
        /\ job'.direct = job.direct
    BY <1>0, <1>4 DEF WriteData, Job
  <2>4. Covers(job', m)
    BY <2>1, <2>2, <2>3 DEF Covers
  <2> QED BY <2>4
<1>5. CASE UNCHANGED job
  BY <1>5 DEF JobCovers, Writing
<1>6. CASE job'.kind \in {"idle", "format"}
  BY <1>6 DEF Writing
<1> QED
  BY <1>0, <1>1, <1>2, <1>3, <1>4, <1>5, <1>6, NoJobType
  DEF Next, Step, Call, vars, FormatStart, FormatBlock, FormatEnd, Mount, UseRaw, Undefined,
      CreateFails, Create, WriteFails, AllocationFails, WriteInode, Read, Stat,
      StatNoMemory, Find, Info, UseNoBitmap, Reset, NoJob, Job

\* No chunk of data is written outside the blocks that the file will have.
THEOREM DataStaysInside == Spec => []DataInOwnBlock
<1>1. Init => JobCovers
  BY NoJobType DEF Init, JobCovers, Writing
<1>2. IInv /\ JobCovers /\ [Next]_vars => JobCovers'
  BY CoversKept
<1>3. IInv /\ JobCovers => DataInOwnBlock
  <2> SUFFICES ASSUME IInv, JobCovers, job.kind = "data", job.next < job.chunks
               PROVE  job.next \in Slots /\ job.direct[job.next] \in DataBlocks
    BY DEF DataInOwnBlock
  <2>1. job \in Job
    BY DEF IInv, Types, TypeOK
  <2>2. PICK m \in 0 .. Pointers : Covers(job, m)
    BY DEF JobCovers, Writing
  <2>3. job.next \in Nat /\ job.chunks \in Nat /\ m \in Nat /\ m <= Pointers /\ job.chunks <= m
    BY <2>1, <2>2, Sizes DEF Job, Covers
  <2>4. job.next \in Slots /\ job.next < m
    BY <2>3, Sizes DEF Slots
  <2>5. job.direct[job.next] # 0
    BY <2>2, <2>4 DEF Covers
  <2> QED BY <2>1, <2>4, <2>5, InodeTypes DEF IInv
<1> QED BY <1>1, <1>2, <1>3, Invariance, PTL DEF Spec

\* A file's size never exceeds what its blocks hold.
THEOREM SizesCovered == Spec => []SizeCovered
<1>1. Init => JobCovers /\ SizeCovered
  BY NoJobType DEF Init, JobCovers, Writing, SizeCovered, Valid, ClearInode
<1>2. IInv /\ JobCovers /\ [Next]_vars => JobCovers'
  BY CoversKept
<1>3. IInv /\ JobCovers /\ SizeCovered /\ [Next]_vars => SizeCovered'
  <2> SUFFICES ASSUME IInv, JobCovers, SizeCovered, [Next]_vars, NEW n \in Valid'
               PROVE  inodes'[n].size <= PointersLen(inodes'[n].direct) * BlockSize
    BY DEF SizeCovered
  <2>0. inodes \in [InodeNums -> Inode] /\ n \in InodeNums /\ inodes'[n].valid
    BY DEF IInv, Types, TypeOK, Valid
  <2>1. CASE inodes'[n] = inodes[n]
    BY <2>0, <2>1 DEF SizeCovered, Valid
  <2>2. CASE FormatBlock /\ inodes'[n] # inodes[n]
    BY <2>0, <2>2 DEF FormatBlock, ClearInode
  <2>3. CASE Create /\ inodes'[n] # inodes[n]
    <3>1. inodes'[n].size = 0 /\ inodes'[n].direct \in [Slots -> Nat]
      <4>1. inodes'[n] \in Inode
        BY <2>0, TypesKept DEF IInv, Types, TypeOK
      <4>2. inodes'[n].direct \in [Slots -> Nat]
        BY <4>1, Layout DEF Inode
      <4>3. inodes'[n].size = 0
        BY <2>0, <2>3 DEF Create
      <4> QED BY <4>2, <4>3
    <3>2. PointersLen(inodes'[n].direct) \in Nat
      BY <3>1, PointersLenFacts, Sizes
    <3> QED BY <3>1, <3>2, BlocksMonotone
  <2>4. CASE WriteInode /\ inodes'[n] # inodes[n]
    <3>1. job.ino = n /\ inodes'[n].size = job.size /\ inodes'[n].direct = job.direct
      BY <2>0, <2>4, InodeTypes DEF WriteInode, IInv, Inode
    <3>2. PICK m \in 0 .. Pointers : Covers(job, m)
      BY <2>4 DEF WriteInode, JobCovers, Writing
    <3>3. job.direct \in [Slots -> Nat] /\ job.size \in Nat
      BY InodeTypes DEF IInv, Types, TypeOK, Job
    <3>4. m <= PointersLen(job.direct)
      BY <2>4, <3>2, <3>3, FirstPointers DEF WriteInode, Covers
    <3>5. PointersLen(job.direct) \in Nat /\ m \in Nat
      BY <3>3, PointersLenFacts, Sizes
    <3>6. job.size <= m * BlockSize
      BY <3>2 DEF Covers
    <3>7. /\ m * BlockSize \in Nat /\ PointersLen(job.direct) * BlockSize \in Nat
          /\ m * BlockSize <= PointersLen(job.direct) * BlockSize
      BY <3>4, <3>5, BlocksMonotone
    <3> QED BY <3>1, <3>3, <3>6, <3>7
  <2>5. CASE inodes' = inodes
    BY <2>1, <2>5
  <2> QED BY <2>1, <2>2, <2>3, <2>4, <2>5, InodesChange
<1> QED BY <1>1, <1>2, <1>3, Invariance, PTL DEF Spec
=============================================================================
