# 8-bit-computer in TLA+

A verification development for the 8-bit-computer repository: a 65C02 computer,
the programs that run on it, the terminal program on the host that is also its
disk, and the simulator. It holds TLA+ modules translated from the source, TLC
configurations that check them on small instances, and theorems that TLAPS
checks for every instance.

    tlc -workers 4 -config MCScheduler.cfg MCScheduler
    tlc -workers 4 -config MCFileSystem.cfg MCFileSystem
    tlc -workers 4 -config MCDiskLink.cfg MCDiskLink
    tlc -workers 4 -config MCFileContents.cfg MCFileContents
    tlc -workers 4 -config MCBoard.cfg MCBoard
    tlapm SchedulerProofs.tla
    tlapm SchedulerIsolation.tla
    tlapm FileSystemProofs.tla
    tlapm FileSystemSizes.tla
    tlapm FileContentsProofs.tla
    tlapm Flattening.tla
    tlapm DiskLinkProofs.tla
    tlapm BoardProofs.tla

## 1. Inventory

| component | state | operations | interacts with | what is hard |
|---|---|---|---|---|
| scheduler (`scheduler/`) | registers, page 1, `thread_running`, two saved contexts, `_data` | `_scheduler_init`, `_scheduler_irq`, two threads, `_serial_writeline` | timer 1 of the VIA (IRQ), UM245R on port A | an interrupt after any instruction; two stacks in one page; one zero page pointer for both threads |
| file system (`shell_in_c/fs/src/common/fs.c`) | inodes and blocks on the disk, a bitmap in memory, the heap | format, mount, create, write, read, stat, info, find | `disk_read`/`disk_write`; called by the shell and by the FUSE bindings | several disk writes per call and a reset between them; calls that fail half way; memory that is never freed; a block written over in place |
| FUSE bindings (`fs/src/fuse`) | none: the disk file is opened anew by each `disk_read` | `do_getattr`, `do_read`, `do_readdir` | the disk file that the host terminal writes for the computer | the inode is read twice, and the computer writes in between |
| disk client (`fs/src/mcu/disk.c`) | none but the stream | `disk_read`, `disk_write` | UM245R; the host's tokenizer | packets and console text in one byte stream, no timeout |
| host terminal (`serial/`) | tokenizer, port, disk file | read loop, tokenizer, `handleToken`, keyboard goroutine | the computer; a disk file | goroutines without locks; a port that is reopened; a tokenizer that outlives the session |
| shell (`shell_in_c/main.c`) | `fs_mounted`, the command line | commands `info`, `spi`, `fsfmt`, `fsmnt`, `fscreate`, `fsread`, `fswrite`, `fsstat`, `fsfind`, `ledon`, `ledoff`, `wozmon` | all drivers | commands typed while a packet is on the line; what it allocates and never frees |
| UM245R, SPI, LED drivers (`um245.s`, `spi.s`, `io.s`) | port A, its direction register, port B | read, write, transfer a byte; LEDs on, off | one VIA, the UM245R, an SPI slave | three users of one port and one direction register; pins that nobody drives; a chip whose queues fill and empty between any two accesses |
| millisecond counter (`counter.s`, `interrupt.s`) | four bytes | `_counter_irq`, `_millis`, `counter_init` | timer 1 | a multi-byte counter read while it is incremented |
| hash table (`hash.c`) | buckets and their arrays, lengths | set, get, del, resize | linked into the shell; nothing creates a table, `fs_find` asks one that was never set up | growing a bucket, deleting from the middle, setting a key twice |
| LCD driver (`lcd.s`) | mode of the controller | init, command, character | VIA | nibbles, busy flag |
| simulator (`sim/`) | bus, state of the simulated UM245R | `Bus_Read`, `Bus_Write`, `Um245_Read`, `Um245_Write` | a pipe to a terminal | devices that overlap, edges of the strobes |
| Wozmon, LED and LCD programs, assembly demonstrations | little | straight-line code | | |
| vendored code, data sheets, pictures | | | | |

Properties that make each of them correct:

* scheduler: a thread cannot see that it was interrupted; no return goes astray;
  lines on the serial port are whole and in turn; both threads keep running.
* file system: a block belongs to one file, or is free, never both, whatever
  fails and wherever a reset falls; sizes and data fit the blocks; a success means
  written; every call ends. What a reader is shown, on the computer or through
  FUSE, was typed into that file.
* disk client and host: a block that was acknowledged is the block that was
  sent; a read returns the last write; no byte of the console is lost or taken
  for data, whatever the cable does; nobody waits for ever.
* millisecond counter: `_millis` returns a value the counter had during the call.
* hash table: it is a map, whatever it did to its buckets.
* port A: the host gets the bytes that the program writes and the program the keys
  that were typed, each once and in order, and the SPI slave the bits that were
  typed, whichever drivers ran before; the strobes rest high; two chips never drive
  one port.

`PROJECT.json` lists the hazards at their lines, with the property that covers
each or the reason why none does yet.

## 2. What is modelled

### Scheduler (`Scheduler`, `SerialLines`, `SchedulerProofs`, `SchedulerIsolation`, `MCScheduler`)

`scheduler/scheduler.s`, `main.s` and what they call of `um245.s` and
`counter.s`. The variables are the registers (`pc a x y sp p`), page 1 (`stack`),
`thread_running`, the two saved contexts, the zero page pointer `_data`, timer 1's
flag and the UM245R's TXE pin. There is one action per instruction of the two
threads and of `busy_loop`; `serial_writeline` runs with interrupts masked and is
cut at its call, at each byte and at its return; the interrupt handler is one
action, `Irq`; `Boot` is `_main` up to CLI. The page 1 cells are tagged: an RTS
or RTI whose two cells are not the two halves of one address goes to `Wild`.
`polled` models that the 65C02 samples the interrupt line before SEI and CLI take
effect.

`SerialLines` is what the reader of the line sees: one owner per line, each byte
once and in order. `Scheduler` is shown to implement it.

Left out: `_serial_readbyte`, `_serial_writebyte` and `_counter_irq`, which the
threads do not call; texts of more than 255 bytes.

### File system (`FileSystem`, `BlockOwnership`, `FileSystemProofs`, `FileSystemSizes`, `MCFileSystem`)

`fs.c` over a disk of blocks, driven as the shell does. `inodes` and `raw` are on
the disk and survive `Reset`; `bitmap`, `free` (`fs->free_blocks`), `heap` and
`job` (the call in progress) do not. Each `disk_write` is a step, and so is each
turn of `fs_write`'s allocation loop, so a reset falls between any two of them.

Abstractions. The heap is counted in blocks: every allocation of a block or of a
packet takes one, smaller ones succeed; what the code never frees stays taken.
A `disk_write` without memory writes nothing and nobody notices
(`ret.dropped`). Of the contents, only which chunk goes where and whether it got
there is kept. A disk that was never formatted is all 0xFF; mounting one follows
pointers outside the bitmap, and the model stops there (`ub`). The library is
called with any `[len, off]` of `Requests`; the shell itself passes offset 0 and
less than 64 bytes. Inode numbers stay below the number of inodes. `fsfind` looks
a name up in a table that `fs_mount` never creates, so the model stops there, too
(`Find`). `Info` mounts in vain when its own 512 bytes are what the mount lacks, and
gives them back (`vain`); `fs_info` has then counted 42 bytes at address 0, which
changes nothing, and the calls after it go on with memory and without a bitmap. What
they find at address 0 is open: no free block, which fails, or one, and then they
clear that byte, which is where the model stops (`UseNoBitmap`).

`BlockOwnership` is the promise: a file obtains only blocks that no file has, and
loses them only when its inode block is erased. `FileSystem` is shown to
implement it.

### What a file holds (`FileContents`, `FileContentsProofs`, `MCFileContents`)

The bytes, where `FileSystem` has the blocks: the keys typed into `fswrite` and
the "EOF" that ends them, `strlen(data) - 3` in an unsigned type, `fs_write_data_block`
over a block that other files may have used (`Leftover`), the inode after it,
`fsread`, `fsstat`, and the FUSE bindings. These are a second program on the same
disk file: `do_read` is `FuseStat`, `FuseInode` and `FuseData`, one per
`disk_read`, and the computer's commands and resets go on in between.

The file is inode 0, the only one that the bindings look at, and its first block
is the only one a text reaches: a text has less than 64 bytes. `texts` is a history of
what the file's bytes may come from: one text once a write is complete, two while
one is cut between its data and its inode. `fuse.seen` collects it over a `do_read`.
A text is what the user means: what precedes "EOF", or all that the computer takes. `Kept`
is what is left of it after `strlen(data) - 3`: the whole, if it leaves room for "EOF" and
has no NUL; otherwise what precedes the NUL or the end, but for three characters.
Which block the file has and memory are in `FileSystem`, except that a `disk_write` without
memory leaves the disk as a reset at the same place does (`Reset`). `fsread` that finds memory
for its text and none for `fs_read`'s block prints what `malloc` gave it (`main.c:263-269`);
that is not modelled.

### Port A (`Board`, `BoardProofs`, `MCBoard`)

A driver's routine is the sequence of its accesses to the VIA (`todo`), one step
each, and between any two of them the host takes a byte or the user types one.
`hw = "um245r"` is the board under the shell: `Boot` (the order of `main.c:75-78`), then
`_shell` and `shell_spi`, which call the routines of `um245.s`, `spi.s` and `io.s`.
`hw = "simulator"` is the scheduler's program on `sim/src`: `Device` is the bus's choice
among devices that overlap (the UM245R's address is one of the VIA's), and
`Um245_Read` and `Um245_Write` take the place of port A.

The VIA, the UM245R and the SPI slave are external: a read of port A gives the
latch for an output and the pin for an input; pins that nobody drives are pulled up,
and every pin is an input after power-on; the UM245R takes port B at the rising edge of WR#
and drops the byte read at the rising edge of RD#; the slave samples at the falling edge
of the clock (SPI mode 1, `spi.s:1`).

### The disk over the serial line (`Tokenizer`, `DiskLink`, `Flattening`, `DiskLinkProofs`, `MCDiskLink`)

`Tokenizer` is `serial/tokenizer.go` as functions from a state and a byte to the
next state, the text shown and the packet completed. `DiskLink` composes it with
`mcu/disk.c`, the shell's order of echo, text and disk calls, `handleToken` and
the disk file, and the keyboard goroutine, over two bounded streams of bytes, one
action per byte at either end. A reset leaves what is in the streams and in the
tokenizer, as the UM245R and the host do. `asked` and `last` are histories: what
the computer printed and asked that the host has not yet done, and what it last
wrote to each block.

The port is the host's: `Open` waits for it at the start and again after `Unplug`,
the cable pulled at any byte. Any bytes that were on their way to the host and that no `Read`
had returned are lost then, and any end of what was on its way to the computer. The host goes
on with the bytes it had read (`held`), keeps its tokenizer and its disk, panics if it has a
block to write or if a key is typed before the first `Open`, and loses a key typed while the
port is closed. An `Open` or a `Read` that returns another error ends it (`OpenFails`).

Two histories say what the losses leave. `cutOff`: bytes of either direction went with the
cable that the read under way may need, or the line was astray when it began. `astray`:
a reset has cut a packet, bytes for the host were lost, or the console has printed
the magic value itself, and since then the line has not been at rest, that is with the host
in no packet and nothing on the way or still to be sent. The tokenizer counts bytes and has
no other way back, and a line that is used may never come to rest. While it is astray,
`asked` is empty, and nothing is promised of what the host does.

Abstractions. Bytes are `0 .. Radix - 1`, the magic value any sequence whose first
byte does not come back in it ("@cmdmode" is one: this is what makes dropping a
partial match at the first other byte safe, except for a first byte typed just
before). Which command the shell executes and what a command prints before its
first disk call is open. The keyboard's and the block's writes to the port are
not divided; a key that finds the buffer full waits in `s.Write` in front of a block that is
written later, and is counted as on its way, so that `down` may hold `Ahead` keys besides.
A host that exits on an unknown command or panics is `host = "exited"`. A `disk_write` that
finds no memory sends nothing, and is in `FileSystem`.

## 3. The runs

| run | instance | what it shows |
|---|---|---|
| `scheduler` | 16-byte stack page split at 7, texts of 2 bytes in different pages, one turn of `busy_loop`; interrupts at every instruction | no return goes astray, threads are isolated, one writer at a time, whole lines, both threads print for ever |
| `scheduler_text` (violated) | texts of 3 bytes, two turns | a thread prints from another address: A is not saved |
| `writeline_registers` (violated) | the same | `serial_writeline` returns A and Y exchanged |
| `file_system` | 6 blocks, 2 inode blocks of 2 inodes with 3 pointers, memory for 8 blocks, requests of one, two and three blocks; any number of resets | blocks are never shared or both free and used; data and sizes stay in a file's own blocks; files keep their blocks; every call ends; only after an `info` that mounted in vain is a missing bitmap used |
| `lost_write` (violated) | 6 blocks, memory for 8 | `fs_write` answers 0 and wrote nothing |
| `allocation` (violated) | 6 blocks, memory for 14 | a rewrite that fits takes every free block, because an unsigned count wraps |
| `disk_link` | 5 byte values, a magic value of 3, blocks of 3, streams of 2; a user who types when asked | the host does what was asked, in order; reads return the last write; reads end |
| `disk_link_type_ahead` | 3 byte values, a magic value of 2, blocks and streams of 1, a user two keys ahead, one reset and one cable pulled at any byte, in a packet or not, a port that may not open | the host does what was asked but between a loss and the next rest of the line; a read that never ends has lost bytes, began astray, lost the host or met the two full buffers |
| `disk_link_reset` (violated) | `disk_link` and one reset, which may cut a packet | the host executes a command that the computer never sends |
| `file_contents` | eight keys, blocks of 5 bytes, six texts (of one and of five characters, one without an end and with EOF too early, NULs after the first, the third and the fourth key), a block that starts as another file's; FUSE reads of 2 and 6 bytes | only bytes typed into the file are shown, on the computer and through FUSE; a finished text that leaves room for EOF and has no NUL is shown whole, another one but for its last three characters |
| `board` | bytes of 3 bits, queues of 2, texts of 1 and 2 bytes, the board and the simulator, no LED command | bytes, keys and SPI bits arrive once and in order, no contention, writes end |
| `board_led` (violated) | `board` on the board, one LED command | `ledoff` leaves the strobes low between two accesses |

The bounds, and why they are enough.

* Scheduler: each thread needs seven bytes of stack (a call, three registers and
  a call, or a call, the interrupt's three and the handler's own call), and the
  instance gives it eight. A text of two bytes has a first byte, a last and a NUL;
  one turn of `busy_loop` has both exits of its test. The theorems have no such
  bounds.
* File system: three data blocks for four inodes that could take twelve, so the
  disk fills; two inode blocks, so a format can be cut between them; three pointers,
  so an inode can be extended, filled and refused; memory for eight blocks,
  one more than a mount and the largest write take, so a format (which keeps one
  block per inode block), a mount, a create and a write can succeed or fail at each
  of their allocations.
* Link: a packet is longer than both streams together, so a packet, an answer and
  keys are in flight at once and every wait for room happens. The magic value is
  one of the blocks written, all of its bytes but the last are typed, and sectors
  0 and 4 write to both ends of the disk. In `disk_link` keys cannot spell the
  magic value: the shell echoes what is typed, so whoever types it sends a packet.
  `disk_link_type_ahead` is as small as the interleavings of two losses allow. The echo of
  Enter begins like the magic value, and a key in the place of a block's byte shifts the block
  into the command line, where the echo may complete it. Its streams hold one byte, so that
  two keys typed ahead fill both, and the two ends do come to wait for each other for ever: the
  host to finish the block, the computer to finish its echo. The property names that state
  (`Blocked`), and without any one of its three exceptions (`Blocked`, `cutOff`, a host that has
  exited) TLC finds a read that never ends. The real streams hold kilobytes.

* Contents: texts of one character and of five, which is the whole block, so a shorter one
  follows a longer one and the reverse, and each of the ways in which the length can go wrong;
  requests below and above the size. `SizeMod` need only exceed
  what an inode holds, and three more. The theorems have no such bounds.
* Board: three bits give SPI a first, a middle and a last one, and queues of two are empty,
  half full and full. The passing run gives no LED command, since its properties fail
  after one: that is the finding of `board_led`.

Deadlock is checked in every run that must pass except `disk_link_type_ahead`,
where a host that has exited leaves the computer waiting.

Fairness. Scheduler: the processor runs (`Boot`, `Irq`), timer 1 is free running
(`counter_init` sets continuous mode), the host drains the UM245R, and each
thread executes infinitely often if it is scheduled infinitely often: a quantum is
10,000 cycles (`counter.s`), the handler far less, so strong fairness per thread
is what the hardware gives. File system: a call in progress goes on; nobody has to
make one. Link: the loops that send and receive bytes run on; nobody has to type
and no command has to be given. With the cable, the user puts it back (`Open`): without
that a read has no one to answer it. Board: the processor never stops and the host goes
on reading; nobody has to type.

### Findings

* `scheduler_text`: the handler loads A with `thread_running` before saving it
  (`scheduler.s:98`), so an interrupt between loading a text's address and SEI makes
  `_serial_writeline` print from elsewhere in the page.
* `writeline_registers`: `pla plx ply` after `pha phx phy` (`um245.s:85`).
* `lost_write`: `fs_write` ignores what `disk_write` returns (`fs.c:460`), and
  `disk_write` never frees its 515 bytes, so it will fail.
* `allocation`: `fs.c:389` wraps below zero. (The division at `fs.c:398` also counts one
  block too many for exact multiples, which the same property shows when a request
  of two whole blocks is added; `SizeCovered` holds all the same.)
* `disk_link_reset`: nothing tells the tokenizer that the computer was reset.
* `board_led`: `ledoff` (`io.s:25`) writes 0 to all of port A with all of it an
  output, so the UM245R's WR# and RD# are low until the next byte written raises the one and the
  next byte read the other; the LED routines also make its busy flags outputs.

Met on the way and not given a run: no instruction loads the stack pointer after
reset (`scheduler.s:42`), and with one that starts just above thread 1's stack a
return goes astray, which is why the theorems assume `StacksApart`; the shell
sets `fs_mounted` after a mount that failed (`main.c:166`), which is harmless only
as long as memory is not given back. `info` gives some back (`main.c:159`): with one or two
blocks of memory left it mounts in vain, and the next create or write looks for free blocks,
and clears one, through a null pointer. The model reaches that state, and `NullBitmapUnused`
says that no other sequence of calls does. Of 63 keys without "EOF" `fswrite` drops the last
three, against "Space for 63 characters" (`main.c:198`), and of a text with a NUL all that
follows the NUL and the three characters before it; `WholeTextIsShown` says exactly that. The bindings' `disk_write` opens the disk file with "w", which
would empty it, but nothing calls it. The simulated UM245R overwrites what it found about
RD# by what it finds about WR#, so it never sees a read. On the board the strobes are
high before they become outputs only because `spi_init` runs before `serial_init`.

## 4. What is proved

| theorem | statement |
|---|---|
| `SchedulerProofs!TypeCorrectness`, `ControlSafety`, `WriterExclusion` | `StacksApart => (Spec => []TypeOK)`, and so for `ControlStaysInProgram` and `OneWriter` |
| `SchedulerIsolation!ThreadIsolation`, `PageSafety`, `WholeLines` | `StacksApart => (Spec => Isolation)`, `(Spec => []OwnPage)`, `(Spec => ImplementsSerialLines)` |
| `FileSystemProofs!TypeCorrectness`, `BlocksNotShared`, `BitmapSafety`, `DensePointers`, `NullBitmapSafety` | `Spec => []Inv` |
| `FileSystemProofs!BlocksKept` | `Spec => FilesKeepTheirBlocks` |
| `FileSystemProofs!Refinement` | `Spec => ImplementsBlockOwnership` |
| `FileSystemSizes!DataStaysInside`, `SizesCovered` | `Spec => []DataInOwnBlock`, `Spec => []SizeCovered` |
| `FileContentsProofs!TypeCorrectness`, `NoStrangeBytes`, `TextRoundTrip` | `Spec => []Inv` for `TypeOK`, `OnlyTypedBytesAreShown`, `WholeTextIsShown` |
| `DiskLinkProofs!TypeCorrectness` | `Spec => []TypeOK` |
| `DiskLinkProofs!HostDoes` | with `MagicApart`: `Spec => HostDoesWhatWasAsked` |
| `DiskLinkProofs!FileIsUpToDate`, `CommandsAreAsked` | with `MagicApart`: `Spec /\ []~astray => []DataInv`, `=> CommandsWereAsked` |
| `DiskLinkProofs!ReadsReturn` | with `MagicApart`, `Ahead = 0` and `Resets = 0`: `Spec /\ []~astray => ReadsReturnTheLastWrite` |
| `DiskLinkProofs!PatientUser` | the same, `Unplugs = 0` and `Unspoken`: `Spec => []~astray /\ HostDoesWhatWasAsked /\ ReadsReturnTheLastWrite` |
| `BoardProofs!UntilTheLeds` | `Spec => [](leds \in 0 .. Leds /\ (leds = 0 => ...))`, where `...` is the five properties of the next row |
| `BoardProofs!TypeCorrectness`, `Written`, `KeysRead`, `Shifted`, `OneDriver` | with `Leds = 0`: `Spec => []Inv` for `TypeOK`, `HostGetsWhatWasWritten`, `KeysAreReadOnce`, `SlaveGetsWhatWasTyped`, `NoContention` |

**Scheduler.** The hypothesis `StacksApart` says that the seven bytes below the
reset stack pointer and below thread 1's first byte are distinct cells of the
page. It is true of $FF and $80 and of the checked instance, and false of a stack
pointer left by chance just above thread 1's. The inductive invariant `IInv`
describes, for every label, the frame that must lie on the stack of the thread
that is there (`Frame`), for the thread that runs (`RunningOK`) and for the one that
waits (`Waiting`, the same frame under the interrupt's three bytes and the
handler's return address). `ControlStaysInProgram` alone is not inductive: that a
return finds its address needs the whole frame. The two key lemmas are
`FrameKept` (a write outside a thread's region leaves its frame) and
`RegionsApart`. `OneWriter` follows since a thread between SEI and CLI has I set
and `Waiting` only holds of a thread that had it clear, or was interrupted in the
instruction after SEI.

`SchedulerIsolation` draws the rest from the same invariant. An instruction
writes only to the region of the thread that executes it (`InstructionWrites`), and
the handler's pushes go to the interrupted thread's region, so what a waiting thread
has saved and its stack are as it left them: `Isolation`. For `OwnPage` a second
invariant follows the pointer from its store to its use; for `ImplementsSerialLines` one more
says that a line is complete when the writer is about to return. Nothing
about the scheduler's safety is left to TLC alone.

**File system.** `IInv` adds to the safety properties `JobExtends` (the write in
progress keeps every pointer the inode has, sets only zero ones, from `avail`
upwards) and that a format holds the block it will give back. `PointersDense` is
needed for `BitmapSafe`: mount counts the blocks of valid inodes only, so an
inode that is not valid must have none. There is one lemma per action that
disturbs an invariant, and `Carry` for those that do not. `Refinement` follows
from the invariant: the blocks `WriteInode` and `Create` add were in no inode.
For `NullBitmapSafety` one more invariant, `NullIsBlocked`: without a bitmap, unless `info`
mounted in vain, no memory is left and no call under way, so none starts that would look for
a block.

`FileSystemSizes` proves that the counts of `fs_write` fit together: for some number
of blocks m, at most the pointers of an inode, the chunks still to be written have
their pointers below m and the size to be saved is at most m blocks
(`NeedSuffices`, `QuotientBound`). The unsigned count may wrap; then the loop takes
blocks until it fails, which returns before any data is written. The proof assumes
`NeedAssumption`: no request is so large that its number of blocks wraps.

**Contents.** The key lemma is `AcceptedIsKept`: whatever text `fs_write` gets and
accepts is what is kept of the text that was typed. It needs the arithmetic of
`strlen(data) - 3`: a NUL among the first keys makes the length zero, and then there is no
call, or makes it wrap to one that `TooBig` refuses; a later one cuts the text three characters
before it. Nothing is assumed of the text but that it is one of `InputLen` bytes. The inductive invariant
has four parts: a disk without the file (`NoFile`), what the file's bytes are
(`FileHolds`: as many bytes as the size, each from one of `texts`, and exactly what is
kept of the text when there is one), the write under way (`JobHolds`), and the `do_read` under
way (`FuseHolds`: the bytes it will return, or a format since).

**The disk link.** The proof is in three layers, each an invariant over the one below.

* `TypeInv` adds to the types what keeps the buffers within bounds (`HeldOK`): nothing
  is left of what the host had read unless the port is closed, a read under way lacks a
  byte.
* `LineInv` is the heart. `Stream(a)` is what the items `a`, texts and requests, look like
  byte for byte. What the tokenizer has of a packet, followed by what is in the
  stream and by what `disk.c` has yet to send of its packet, is the stream of what was asked
  and not done (`OnTheLine`). So a byte that the host takes is the next one of that stream
  whatever it is, and when the tokenizer completes a packet, it is the first request.
  `HostDoesWhatWasAsked` says what a step does, and follows from it. `LinkInv` is this for
  a line that may go astray: it holds whenever it is not, and nothing is expected while it is; at
  rest, with nothing expected, `LineInv` holds anew.
* `DataInv` says that the host's file with the writes in `asked` done is what was last
  written (`FileIsUpToDate`), and `ReadInv` that while a read waits, its request is the last
  thing asked or its answer is what comes to the computer, and that in no other mode
  anything but a key does. `ReadsReturnTheLastWrite` follows from the two.

The hypotheses, and what they leave out. `MagicApart`: the byte printed last before a disk
call is not one of the magic value, which is so since `main.c` prints a newline first; without it
a packet's first byte could end a match that the text began, and be dropped with it.
`MotdAssumption`: the greeting is not the magic value. `HostDoes` needs no more, and says
nothing of the time between a loss and the next rest of the line. The theorems with `[]~astray`
are about behaviours in which the line does not go astray at all: no reset and no cable
cuts a packet or takes console bytes, and the console does not print the magic value, which
nothing in the code prevents (`main.c:217`, a hazard that stays open). They would be false
otherwise: a write that goes with the cable leaves the file behind, and the violated run
`disk_link_reset` shows what a packet that is cut leads to, whether a reset or the cable cuts
it. `PatientUser` replaces the hypothesis by conditions on the constants: a cable that stays, and
`Unspoken`, some byte of the magic value is not among the keys and the shell's texts. Then a
user who waits cannot bring the magic value on the line; one who types ahead could, for a key
in a block's place shifts the block into the command line, which is echoed.
`Ahead = 0` and `Resets = 0`: a key typed ahead is read as a byte of the
block and an answer left by a reset as the next one, so a read returns something else then.

`Flattening` holds the lemmas on sequences that this and the board need: `FlattenSeq` is
a recursive function in the community modules, which exists by `FlattensExists` and is unfolded
at either end by `FlattenFirst` and `FlattenAppend`; `Cat` is a concatenation the provers do not
expand, and `Mapped` flattens what a function gives for each element.

**Port A.** What is left of a routine is a sequence of accesses, and `Then` says which kind may
follow which; every routine is such a chain (`Linked`), for every text and width, with the bytes
it prints and the bits it shifts out (`Code`). Once the program runs, the kind of the next access
determines the strobes, the direction of port B and whether the chip has room or a key
(`AtChip`), and `Histories` relates the ends: the bytes in the chip, the byte on the port and
those that `todo` still prints are what was asked, and so for keys and bits. This is `RunInv`; before
it, `BootInv` follows the six accesses from power-on, and says what makes the order of
`main.c:75-78` safe: the strobes' latches are high before they become outputs. On the
simulator (`AtSimulator`) the state of the simulated chip takes the place of the strobes' latches:
a WE that goes low on its way is a byte taken when it goes high, and nothing else is.

`UntilTheLeds` has no hypothesis: until the first LED command everything holds. The
other theorems say so of a program that never gives one; `board_led` is why they
need that. `PowerAssumption`, that the powers of two up to the width are positive numbers, is
true of every width; it is an assumption because the provers know nothing of powers.

**Only model-checked.** Liveness: `BothPrint`, `CallsEnd`, `ReadsEnd`, `ReadsEndUnlessCutOff` and
`WritesEnd`, as fairness and ENABLED are beyond the prover. Every other property of a run that
passes is a theorem, with the hypotheses above.

## 5. Plan

1. A block device as the abstract specification of `DiskLink` seen by `disk_read` and
   `disk_write`, and `FileSystem` over it.
2. What can be said of reads when the user types ahead or a reset falls between two packets:
   that a block is at most shifted by the keys that came before it.
3. The bytes of several files at once: that a write to one file leaves the bytes of the
   others alone (`FileSystem` has this for blocks, `FileContents` has one file).

## 6. What is not modelled

* Code that nothing calls or sets up: the hash table (`fs_mount`'s calls that
  would create it are comments), the shell's millisecond counter and its interrupt
  (`counter_init` is never called, so no interrupt is enabled), the LCD driver,
  `spiRead`, `serial_readline` and `led`, the scheduler's `_serial_readbyte`, `_serial_writebyte`
  and `_counter_irq`.
* Calls without a caller: `fs_write` with an offset and `fs_read` of several blocks
  as to their bytes (`FileSystem` has the offsets as to their blocks).
* Wozmon: it reads and writes any address that the user types, so there is nothing
  that it keeps.
* Inode numbers past the last, the line
  buffer of 64 bytes, a `FileSystem` allocated with the size of a `Disk`: they lead
  outside the arrays of the program, and what lies there is a matter of the linker.
  `PROJECT.json` lists these with the other uncovered hazards.
* The scheduler's program on the real board: it calls `serial_init` without `spi_init`, so that
  its strobes become outputs in the state that the latches have after power-on. `Board` has it on
  the simulator only, `hw = "simulator"`.
* `fsread` that has memory for the text and none for the block (`main.c:263-269`): it prints what
  `malloc` gave it.
* What the host does on a line that is astray beyond the commands it may execute, and what
  a create or write does after it cleared a byte at address 0.
* A VIA that is reset while the UM245R runs on: the button resets the processor, and the
  latches of the VIA with it, but the board's wiring is not in the repository.
* The host's CTRL-C, its pipe in the place of a port, its command line and the making
  of a new disk file; the simulator's debugger, RAM and ROM (only address ranges): no
  state that the program shares.
* `do_readdir`, which lists one fixed name.
* Vendored and generated code: the simulator's logging, its 6502 and VIA
  libraries, data sheets, pictures. `sim/src/disk.c`, `um245_disk.c`,
  `um245_tr.s`: not built or not called.
* LED and LCD programs and the assembly demonstrations: straight-line port writes.
