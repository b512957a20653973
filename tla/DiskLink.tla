------------------------------- MODULE DiskLink -------------------------------
(***************************************************************************)
(* The computer's disk is a file on the host: disk_read and disk_write     *)
(* (shell_in_c/fs/src/mcu/disk.c) send packets over the line that also     *)
(* carries the console, and the host (serial/main.go) answers a read with  *)
(* the bare bytes of the block, between the keys the user types.           *)
(*                                                                         *)
(* One action per byte at either end. The shell (main.c) is there for the  *)
(* order in which it echoes keys, prints lines and calls the disk; which   *)
(* command it executes is left open.                                       *)
(***************************************************************************)
EXTENDS Tokenizer

CONSTANTS
    BlockLen,   \* BLOCK_SIZE (512)
    R, W,       \* the bytes 'R' and 'W'
    Enter, Newline,
    Keys,       \* what the user types
    Line,       \* what a command prints before it calls the disk
    Prompt, Motd,
    Sectors,    \* the blocks the computer uses
    Data,       \* what it writes to them
    UpCap,      \* bytes buffered between the computer and the host's loop
    DownCap,    \* bytes buffered between the host and the computer
    Ahead,      \* keys the user types before the shell reads them
    Resets,     \* how often the computer is reset
    Unplugs,    \* how often the USB cable is pulled and put back
    Fails       \* whether the host may fail to open the port

ASSUME LinkAssumption ==
    /\ BlockLen \in Nat \ {0} /\ UpCap \in Nat \ {0} /\ DownCap \in Nat \ {0}
    /\ BlockLen + 2 < Radix * Radix
    /\ {R, W, Enter, Newline} \subseteq Byte /\ R # W /\ Keys \subseteq Byte
    /\ Line \in Seq(Byte) /\ Prompt \in Seq(Byte) /\ Motd \in Seq(Byte)
    /\ Sectors \subseteq Byte /\ Data \subseteq [1 .. BlockLen -> Byte]
    /\ Ahead \in Nat /\ Resets \in Nat /\ Unplugs \in Nat /\ Fails \in BOOLEAN

VARIABLES
    mode,    \* what the computer does once it has sent out
    out,     \* the bytes it is sending
    got,     \* the caller's buffer of disk_read
    sector,  \* the block it asked for
    up,      \* bytes on their way to the host
    down,    \* bytes on their way to the computer
    tok,     \* the tokenizer
    reply,   \* what the host has still to write of a block
    disk,    \* the file, byte by byte
    host,    \* the host program runs, or has exited
    port,    \* the serial port: not opened yet, open, or closed by the cable
    held,    \* how many bytes of up the host had read when the cable was pulled
    resets, unplugs,
    cutOff,  \* history: bytes went with the cable that the read under way may need
    astray,  \* history: a packet was cut, bytes for the host were lost or the magic value was
             \*   printed, and the line has not been at rest since: the host in no packet,
             \*   and nothing more to come
    asked,   \* history: what the computer has printed and asked, and the host not done yet;
             \*   nothing while the line is astray
    last     \* history: what the computer last wrote to each block

computer == <<mode, out, got, sector, resets, last>>
server == <<tok, reply, disk, host>>
cable == <<port, held, unplugs, cutOff>>
vars == <<computer, server, cable, up, down, astray, asked>>

Addresses == 0 .. (Radix * BlockLen) - 1
Stored(d, s) == [k \in 1 .. BlockLen |-> d[(s * BlockLen) + (k - 1)]]

Texts(bytes) == [k \in DOMAIN bytes |-> [kind |-> "text", bytes |-> <<bytes[k]>>]]
Command(body) == [kind |-> "command", bytes |-> body]

\* The magic value stands among the texts, be it typed by the user or read from a file.
Spelt(items) ==
    \E i \in 0 .. Len(items) - Len(Magic) : SubSeq(items, i + 1, i + Len(Magic)) = Texts(Magic)

ASSUME MotdAssumption == ~Spelt(Texts(Motd \o Prompt))

\* What the computer prints and asks from now on is items, unless it went astray.
Expect(items, lost) ==
    /\ astray' = (astray \/ lost \/ Spelt(items))
    /\ asked' = IF astray' THEN <<>> ELSE items
Record(items) == Expect(asked \o items, FALSE)

-----------------------------------------------------------------------------
(* The computer.                                                            *)

\* Mutant of Packet: the length's high byte first.
PacketHighFirst(body) == Magic \o <<Len(body) \div Radix, Len(body) % Radix>> \o body

\* sendPacket.
Packet(body) == Magic \o <<Len(body) % Radix, Len(body) \div Radix>> \o body

Say(text, next) ==
    /\ out' = text /\ mode' = next /\ Record(Texts(text))
    /\ UNCHANGED <<got, sector, resets, last, server, cable, up>>

Init ==
    /\ mode = "shell" /\ out = Motd \o Prompt /\ got = <<>>
    /\ sector \in Sectors /\ up = <<>> /\ down = <<>>
    /\ tok = NewTokenizer /\ reply = <<>> /\ host = "running"
    /\ disk = [n \in Addresses |-> Radix - 1]
    /\ port = "none" /\ held = 0 /\ resets = 0 /\ unplugs = 0 /\ cutOff = FALSE
    /\ astray = FALSE /\ asked = Texts(Motd \o Prompt) /\ last = [s \in Sectors |-> Stored(disk, s)]

\* Mutant of SendByte: TXE is not waited for.
SendByteBlindly ==
    /\ out # <<>>
    /\ up' = Append(up, Head(out)) /\ out' = Tail(out)
    /\ mode' = IF mode = "writing" /\ out' = <<>> THEN "command" ELSE mode
    /\ UNCHANGED <<got, sector, resets, last, server, cable, down, astray, asked>>

\* serial_writebyte, which waits while the buffer is full.
SendByte ==
    /\ out # <<>> /\ Len(up) < UpCap
    /\ up' = Append(up, Head(out)) /\ out' = Tail(out)
    /\ mode' = IF mode = "writing" /\ out' = <<>> THEN "command" ELSE mode
    /\ UNCHANGED <<got, sector, resets, last, server, cable, down, astray, asked>>

\* serial_readbyte in the shell's loop and its echo; Enter starts a command.
ReadKey ==
    /\ out = <<>> /\ mode = "shell" /\ down # <<>> /\ down' = Tail(down)
    /\ IF Head(down) = Enter THEN Say(<<Enter, Newline>>, "command")
                             ELSE Say(<<Head(down)>>, "shell")

\* fswrite takes the text of the file from the keyboard and echoes it, too.
StartInput ==
    /\ out = <<>> /\ mode = "command" /\ Say(<<Newline>>, "input") /\ UNCHANGED down
InputKey ==
    /\ out = <<>> /\ mode = "input" /\ down # <<>> /\ down' = Tail(down)
    /\ \E next \in {"input", "entered"} : Say(<<Head(down)>>, next)

\* Mutant of EndInput: nothing is printed between the echo and the first packet.
EndInputSilently ==
    /\ out = <<>> /\ mode = "entered" /\ mode' = "command"
    /\ UNCHANGED <<out, got, sector, resets, last, server, cable, up, down, astray, asked>>

EndInput == out = <<>> /\ mode = "entered" /\ Say(Line, "command") /\ UNCHANGED down

Return ==
    /\ out = <<>> /\ mode \in {"command", "entered"} /\ Say(Prompt, "shell") /\ UNCHANGED down

\* disk_read: the request, then BLOCK_SIZE bytes, whatever bytes come.
DiskRead(s) ==
    /\ out = <<>> /\ mode = "command"
    /\ out' = Packet(<<R, s>>) /\ mode' = "reading" /\ sector' = s /\ got' = <<>>
    /\ Record(<<Command(<<R, s>>)>>) /\ cutOff' = astray
    /\ UNCHANGED <<resets, last, server, port, held, unplugs, up, down>>

ReceiveByte ==
    /\ out = <<>> /\ mode = "reading" /\ down # <<>>
    /\ down' = Tail(down) /\ got' = Append(got, Head(down))
    /\ mode' = IF Len(got') = BlockLen THEN "command" ELSE mode
    /\ UNCHANGED <<out, sector, resets, last, server, cable, up, astray, asked>>

\* disk_write, when it finds the memory for its body (FileSystem has the case that it
\* does not): nothing comes back.
DiskWrite(s, d) ==
    /\ out = <<>> /\ mode = "command"
    /\ out' = Packet(<<W, s>> \o d) /\ mode' = "writing"
    /\ last' = [last EXCEPT ![s] = d]
    /\ Record(<<Command(<<W, s>> \o d)>>)
    /\ UNCHANGED <<got, sector, resets, server, cable, up, down>>

\* A reset: what the UM245R and the host hold stays. Of what was being sent,
\* the bytes that were not sent are never sent: a packet may be cut.
InPacket == mode \in {"reading", "writing"} /\ out # <<>>
Reset ==
    /\ resets < Resets /\ resets' = resets + 1
    /\ mode' = "shell" /\ out' = Motd \o Prompt /\ got' = <<>>
    /\ Expect(SubSeq(asked, 1, Len(asked) - Len(out)) \o Texts(Motd \o Prompt), InPacket)
    /\ UNCHANGED <<sector, last, server, cable, up, down>>

-----------------------------------------------------------------------------
(* The host: one goroutine runs the tokenizer, the disk and the terminal's    *)
(* output, another one the keyboard; a write to the port is not divided.      *)

\* Mutant of Written: the sector's number is taken for the first byte of the block.
WrittenWithSector(d, t) ==
    LET c == SubSeq(t, 2, Len(t))
        start == t[2] * BlockLen
    IN  [n \in Addresses |-> IF n >= start /\ n < start + Len(c) THEN c[(n - start) + 1] ELSE d[n]]

\* disk.write of the content of packet t, however long it is.
Written(d, t) ==
    LET c == SubSeq(t, 3, Len(t))
        start == t[2] * BlockLen
    IN  [n \in Addresses |-> IF n >= start /\ n < start + Len(c) THEN c[(n - start) + 1] ELSE d[n]]

\* handleToken. It exits at a packet that is no command, and panics at one
\* that has no sector.
Handle(t) ==
    \/ /\ t[1] \notin {R, W} \/ Len(t) = 1
       /\ host' = "exited" /\ UNCHANGED <<reply, disk>>
    \/ /\ t[1] = R /\ Len(t) > 1
       /\ reply' = Stored(disk, t[2]) /\ UNCHANGED <<host, disk>>
    \/ /\ t[1] = W /\ Len(t) > 1
       /\ disk' = Written(disk, t) /\ UNCHANGED <<host, reply>>

\* What the next byte makes the host do.
Done ==
    LET t == Token(tok, Head(up))
    IN  IF t = <<>> THEN Texts(Text(tok, Head(up))) ELSE <<Command(t)>>

\* One turn of the loop over the bytes read. Without its port the host goes on with
\* the bytes that it has read already.
HostByte ==
    /\ host = "running" /\ reply = <<>> /\ up # <<>>
    /\ \/ port = "open" /\ UNCHANGED held
       \/ port = "closed" /\ held > 0 /\ held' = held - 1
    /\ up' = Tail(up) /\ tok' = Advance(tok, Head(up))
    /\ asked' = SubSeq(asked, Len(Done) + 1, Len(asked))
    /\ astray' = (astray /\ ~(tok' = NewTokenizer /\ up' = <<>> /\ out = <<>>))
    /\ LET t == Token(tok, Head(up))
       IN  IF t = <<>> THEN UNCHANGED <<reply, disk, host>> ELSE Handle(t)
    /\ UNCHANGED <<computer, port, unplugs, cutOff, down>>

\* s.Write of a block, which waits while the buffer is full, and panics without a port.
HostReply ==
    /\ host = "running" /\ reply # <<>>
    /\ \/ /\ port = "open" /\ Len(down) < DownCap
          /\ down' = Append(down, Head(reply)) /\ reply' = Tail(reply) /\ UNCHANGED host
       \/ port = "closed" /\ host' = "exited" /\ UNCHANGED <<down, reply>>
    /\ UNCHANGED <<computer, tok, disk, cable, up, astray, asked>>

\* A key. A user who does not type ahead (Ahead = 0) waits until the shell reads
\* keys; another one types on while few bytes are on their way. A key that finds the
\* buffer full waits in s.Write, before whatever is written later, and is counted as
\* on its way. A key before the first Open finds no port to write to and panics; the
\* error of one typed while the port is closed is ignored, and the key is lost.
Patient == port # "none" /\ out = <<>> /\ mode \in {"shell", "input"} /\ down = <<>>
Type ==
    /\ host = "running" /\ reply = <<>>
    /\ Patient \/ Len(down) < Ahead
    /\ \/ port = "none" /\ host' = "exited" /\ UNCHANGED down
       \/ port = "open" /\ UNCHANGED host /\ \E k \in Keys : down' = Append(down, k)
    /\ UNCHANGED <<computer, tok, reply, disk, cable, up, astray, asked>>

\* The cable is pulled: the computer and its UM245R run on. Of what the computer sent,
\* the host keeps the h bytes it has read, and the m bytes that no Read has returned are
\* lost; the UM245R still has the others. So has it the first n bytes of what the host
\* had written, and the rest is lost.
Unplug ==
    /\ host = "running" /\ port = "open" /\ unplugs < Unplugs
    /\ port' = "closed" /\ unplugs' = unplugs + 1
    /\ \E h \in 0 .. Len(up), n \in 0 .. Len(down) :
       \E m \in 0 .. Len(up) - h :
          /\ held' = h /\ up' = SubSeq(up, 1, h) \o SubSeq(up, h + m + 1, Len(up))
          /\ down' = SubSeq(down, 1, n)
          /\ cutOff' = (cutOff \/ m > 0 \/ n < Len(down))
          /\ astray' = (astray \/ m > 0) /\ asked' = IF astray' THEN <<>> ELSE asked
    /\ UNCHANGED <<computer, server>>

\* Mutant of Open: the tokenizer begins anew with the port.
OpenAnew ==
    /\ host = "running" /\ port # "open" /\ held = 0 /\ reply = <<>>
    /\ port' = "open" /\ tok' = NewTokenizer
    /\ UNCHANGED <<computer, reply, disk, host, held, unplugs, cutOff, up, down, astray, asked>>

\* Open, at the start and again once Read has reported the port closed: it waits for
\* the cable. Disk and tokenizer are those of before.
Open ==
    /\ host = "running" /\ port # "open" /\ held = 0 /\ reply = <<>>
    /\ port' = "open"
    /\ UNCHANGED <<computer, server, held, unplugs, cutOff, up, down, astray, asked>>

\* An Open, or a Read for another reason than a closed port, that returns an error ends
\* run and with it the program.
OpenFails ==
    /\ Fails /\ host = "running" /\ held = 0 /\ reply = <<>> /\ host' = "exited"
    /\ UNCHANGED <<computer, tok, reply, disk, cable, up, down, astray, asked>>

-----------------------------------------------------------------------------
Computer ==
    \/ SendByte \/ ReadKey \/ StartInput \/ InputKey \/ EndInput \/ Return \/ ReceiveByte
    \/ \E s \in Sectors : DiskRead(s) \/ \E d \in Data : DiskWrite(s, d)

Next ==
    Computer \/ Reset \/ Open \/ OpenFails \/ HostByte \/ HostReply \/ Type \/ Unplug

Spec == Init /\ [][Next]_vars

\* The processor and the host's loop run on, and the cable is put back; nobody has to type.
Fairness ==
    WF_vars(SendByte) /\ WF_vars(ReceiveByte) /\ WF_vars(HostByte) /\ WF_vars(HostReply)
    /\ WF_vars(Open)

FairSpec == Spec /\ Fairness

-----------------------------------------------------------------------------
(* Properties.                                                              *)

Item == [kind : {"text", "command"}, bytes : Seq(Byte)]

\* Every variable holds a value of its kind, and no buffer more than it can.
TypeOK ==
    /\ mode \in {"shell", "command", "input", "entered", "reading", "writing"}
    /\ out \in Seq(Byte) /\ got \in Seq(Byte) /\ Len(got) <= BlockLen /\ sector \in Sectors
    /\ up \in Seq(Byte) /\ Len(up) <= UpCap /\ down \in Seq(Byte)
    /\ Len(down) <= DownCap \/ Len(down) <= Ahead
    /\ tok \in [state : {"magic", "size", "size2", "data"}, matched : 0 .. Len(Magic) - 1,
                length : 0 .. (Radix * Radix) - 1, body : Seq(Byte)]
    /\ reply \in Seq(Byte) /\ disk \in [Addresses -> Byte]
    /\ host \in {"running", "exited"} /\ port \in {"none", "open", "closed"}
    /\ held \in 0 .. Len(up) /\ unplugs \in 0 .. Unplugs /\ cutOff \in BOOLEAN
    /\ resets \in 0 .. Resets /\ astray \in BOOLEAN
    /\ asked \in Seq(Item) /\ last \in [Sectors -> [1 .. BlockLen -> Byte]]

\* Console and packets share one stream of bytes (tokenizer.go:53-110), and any
\* byte may occur in both: still what the host shows and what it does to its disk
\* is what the computer printed and asked, in that order, nothing lost, added or
\* mistaken for something else. When a reset cuts a packet, the cable takes bytes with it or
\* the console prints the magic value itself, that holds again from the moment when the
\* line has come to rest (tokenizer.go has no other way back, and it may never come).
HostDoesWhatWasAsked ==
    [][HostByte /\ ~astray => Len(Done) <= Len(asked) /\ SubSeq(asked, 1, Len(Done)) = Done]_vars

\* disk_read returns what was last written to the block, although disk_write
\* does not wait for an answer and the block shares the line with the keyboard.
ReadsReturnTheLastWrite ==
    [][mode = "reading" /\ mode' = "command" => got' = last[sector]]_vars

Commands == {<<R, s>> : s \in Sectors} \cup {<<W, s>> \o d : s \in Sectors, d \in Data}

\* "WR_CMD_START = <MAGIC><SIZE>W<SECTOR><DATA>" (disk.c:74), and a read likewise (:50):
\* what the host executes is what the computer asked for, and at least a command that it
\* sends at all when the line is astray.
CommandsWereAsked ==
    [][HostByte /\ Token(tok, Head(up)) # <<>> =>
          IF astray THEN Token(tok, Head(up)) \in Commands
          ELSE asked # <<>> /\ Head(asked) = Command(Token(tok, Head(up)))]_vars

\* Neither end waits for the other for ever: a disk_read gets its BLOCK_SIZE bytes.
ReadsEnd == mode = "reading" ~> mode # "reading"

\* The host cannot send, the computer neither, and neither reads before it has sent.
Blocked == reply # <<>> /\ Len(down) >= DownCap /\ out # <<>> /\ Len(up) = UpCap

\* With a cable that is pulled, resets in the middle of packets and a user who types
\* ahead: the host goes on where it was, in the middle of a packet, too, and answers the
\* read, unless it has exited, bytes of either direction went with the cable, the line was
\* still astray when the read began, or more was typed ahead than the buffers hold beside
\* a block (main.go:219), so that each end waits for the other.
ReadsEndUnlessCutOff ==
    mode = "reading" ~> mode # "reading" \/ host = "exited" \/ cutOff \/ Blocked
=============================================================================
