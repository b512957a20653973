-------------------------------- MODULE Board ---------------------------------
(***************************************************************************)
(* Port A of the VIA and who shares it: the strobes of the UM245R and its  *)
(* busy flags (shell_in_c/um245.s), the SPI bus (spi.s) and the LEDs       *)
(* (io.s). A routine is the sequence of its accesses to the VIA; what      *)
(* calls it is the shell (main.c) on the board, and the scheduler's        *)
(* threads on the simulator (sim/src), whose bus and UM245R stand in for   *)
(* the VIA's port A and the chip.                                          *)
(*                                                                         *)
(* The VIA, the chip and the SPI slave are external. The strobes and the   *)
(* pins that nobody drives are pulled up; so is every pin after power-on.  *)
(***************************************************************************)
EXTENDS Naturals, Sequences, SequencesExt

CONSTANTS
    Hardware,        \* a subset of {"um245r", "simulator"}
    Width,           \* bits of a byte (8)
    Enter, Newline,
    Bar,             \* the byte '|'
    Keys,            \* what the user types
    Texts,           \* what a command prints
    Motd, Prompt,
    TxCap, RxCap,    \* the chip's two queues
    Leds             \* how often an LED command is given

Byte == 0 .. (2^Width) - 1

ASSUME BoardAssumption ==
    /\ Hardware \subseteq {"um245r", "simulator"} /\ Width \in Nat \ {0}
    /\ {Enter, Newline, Bar} \subseteq Byte /\ Keys \subseteq Byte
    /\ Texts \subseteq Seq(Byte) /\ {Motd, Prompt} \subseteq Seq(Byte)
    /\ TxCap \in Nat \ {0} /\ RxCap \in Nat \ {0} /\ Leds \in Nat

\* True of every width; the provers know nothing of powers.
ASSUME PowerAssumption == \A k \in 0 .. Width : 2^k \in Nat \ {0}

VARIABLES
    hw,
    ora, ddra,     \* port A: the pins whose latch is 1, and those that are outputs
    orb, ddrb,     \* port B: its latch, and whether it is an output
    um,            \* um->state of the simulated chip
    tx, rx,        \* bytes in the chip for the host, and for the computer
    slave,         \* the bits the SPI slave has sampled of the current byte
    todo,          \* the accesses left of the routine under way
    val,           \* what serial_readbyte has read
    mode,          \* whether shell_spi runs
    leds,
    asked,         \* history: bytes written that the host has not taken
    typed,         \* history: keys that serial_readbyte has not returned
    want           \* history: the bits of the last spiWrite

via == <<ora, ddra, orb, ddrb>>
chip == <<um, tx, rx, slave>>
program == <<todo, val, mode, leds, want>>
vars == <<hw, via, chip, program, asked, typed>>

Pins == {"WE", "RD", "TXE", "RXF", "MOSI", "CLK", "CS"}

-----------------------------------------------------------------------------
(* The accesses, and the routines as sequences of them.                     *)

DirA(on) == [op |-> "dirA", on |-> on]
DirB(d) == [op |-> "dirB", to |-> d]
PutB(b) == [op |-> "putB", byte |-> b]
GetB == [op |-> "getB"]
OutA(on, off) == [op |-> "outA", on |-> on, off |-> off]   \* read, change, write back
FlipA(pin) == [op |-> "flipA", pin |-> pin]
Wait(pin) == [op |-> "wait", pin |-> pin]                  \* until it is 0
Return == [op |-> "return"]

serial_init ==
    <<DirB("out"), PutB(0), DirA({"WE", "RD"}), OutA({"WE", "RD"}, {})>>

\* Mutant of PrintByte: the byte is put without asking whether there is room.
PrintByteBlindly(b) == <<PutB(b), OutA({}, {"WE"}), OutA({"WE"}, {})>>
\* Mutant of PrintByte: the other flag is asked.
PrintByteRXF(b) == <<Wait("RXF"), PutB(b), OutA({}, {"WE"}), OutA({"WE"}, {})>>

PrintByte(b) == <<Wait("TXE"), PutB(b), OutA({}, {"WE"}), OutA({"WE"}, {})>>
serial_writebyte(b) == <<DirB("out")>> \o PrintByte(b)
serial_writeline(s) ==
    <<DirB("out")>> \o FlattenSeq([k \in DOMAIN s |-> PrintByte(s[k])]) \o <<Wait("TXE")>>

\* Mutant of serial_readbyte: port B is read after RD# is high again.
serial_readbyte_late ==
    <<DirB("in"), Wait("RXF"), OutA({}, {"RD"}), OutA({"RD"}, {}), GetB, Return>>
\* Mutant of serial_readbyte: port B is left as it was.
serial_readbyte_out ==
    <<Wait("RXF"), OutA({}, {"RD"}), GetB, OutA({"RD"}, {}), Return>>

serial_readbyte ==
    <<DirB("in"), Wait("RXF"), OutA({}, {"RD"}), GetB, OutA({"RD"}, {}), Return>>

spiInit == <<OutA({"CS"}, {"CLK"}), DirA({"MOSI", "CS", "CLK"})>>
spiBegin == <<OutA({}, {"CS"})>>
spiEnd == <<OutA({"CS"}, {})>>

\* The bits of a byte, the highest first.
Bits(b) == [k \in 1 .. Width |-> (b \div 2^(Width - k)) % 2]
Shift(bit) ==
    <<IF bit = 1 THEN OutA({"MOSI"}, {}) ELSE OutA({}, {"MOSI"}),
      OutA({"CLK"}, {}), FlipA("CLK")>>

\* Mutant of spiWrite: the lowest bit is shifted out first.
spiWriteLowFirst(b) == FlattenSeq([k \in 1 .. Width |-> Shift(Bits(b)[Width + 1 - k])])

spiWrite(b) == FlattenSeq([k \in 1 .. Width |-> Shift(Bits(b)[k])])

ledOn == <<DirA(Pins), OutA(Pins, {})>>
ledOff == <<DirA(Pins), OutA({}, Pins)>>

\* Mutant of Boot: the two initialisations in the other order.
BootSerialFirst ==
    serial_init \o spiInit \o serial_writeline(Motd) \o serial_writeline(Prompt)

Boot == spiInit \o serial_init \o serial_writeline(Motd) \o serial_writeline(Prompt)

Init ==
    /\ hw \in Hardware
    /\ ora = {} /\ ddra = {} /\ orb = 0 /\ ddrb = "in"
    /\ um = "UNDEFINED_STATE" /\ tx = <<>> /\ rx = <<>> /\ slave = <<>>
    /\ todo = IF hw = "um245r" THEN Boot ELSE serial_init
    /\ asked = IF hw = "um245r" THEN Motd \o Prompt ELSE <<>>
    /\ val = 0 /\ mode = "shell" /\ leds = 0 /\ typed = <<>> /\ want = <<>>

-----------------------------------------------------------------------------
(* What is behind the addresses of the simulator's bus.                     *)

Ram == [name |-> "ram", start |-> 0, length |-> 32768]
Rom == [name |-> "rom", start |-> 35840, length |-> 29696]
Spy == [name |-> "spy", start |-> 32784, length |-> 5]
Um245 == [name |-> "um245", start |-> 32769, length |-> 1]
Via6522 == [name |-> "via", start |-> 32768, length |-> 15]
Between(addr, d) == addr >= d.start /\ addr < d.start + d.length

\* The device that Bus_Read and Bus_Write choose: the first in their order.
Device(addr) ==
    LET devices == <<Ram, Rom, Spy, Um245, Via6522>>
        here == {k \in DOMAIN devices : Between(addr, devices[k])}
    IN  devices[CHOOSE k \in here : \A j \in here : k <= j].name

PORTB == 32768
PORTA == 32769

\* Whether an access to a register of the VIA gets there.
ToVia(addr) == hw = "um245r" \/ Device(addr) = "via"

-----------------------------------------------------------------------------
(* The pins.                                                                *)

Level(p, o, d) == p \in d => p \in o
Inputs ==
    (Pins \ {"TXE", "RXF"}) \cup (IF Len(tx) = TxCap THEN {"TXE"} ELSE {})
                            \cup (IF rx = <<>> THEN {"RXF"} ELSE {})

\* What a read of port A gives: on the simulator Um245_Read's 1, so "can always write".
PortA ==
    IF ToVia(PORTA) THEN (ora \cap ddra) \cup (Inputs \ ddra) ELSE {"CS"}

Falls(p) == Level(p, ora, ddra) /\ ~Level(p, ora', ddra')
Rises(p) == ~Level(p, ora, ddra) /\ Level(p, ora', ddra')

\* What the chip and the slave do at an edge. The rising edge of WE# takes the byte
\* on port B, of which a full queue loses the byte; that of RD# drops the byte read.
Edges ==
    /\ IF Rises("WE") /\ Len(tx) < TxCap
       THEN \E b \in IF ddrb = "out" THEN {orb} ELSE Byte : tx' = Append(tx, b)
       ELSE UNCHANGED tx
    /\ rx' = IF Rises("RD") /\ rx # <<>> THEN Tail(rx) ELSE rx
    /\ slave' = IF Falls("CLK") /\ ~Level("CS", ora, ddra)
                THEN Append(slave, IF Level("MOSI", ora, ddra) THEN 1 ELSE 0) ELSE slave

\* updateState overwrites what it found about RD# by what it finds about WE#, so the
\* simulated chip never sees a read.
updateState(v) == um' = IF "WE" \in v THEN "WRITE_HIGH" ELSE "WRITE_LOW"

\* It waits for room in the pipe.
pipeWrite(b) == Len(tx) < TxCap /\ tx' = Append(tx, b)

Um245_Write(v) ==
    /\ updateState(v)
    /\ IF um = "WRITE_LOW" /\ um' = "WRITE_HIGH" THEN pipeWrite(orb) ELSE UNCHANGED tx

StoreA(v) ==
    IF ToVia(PORTA)
    THEN ora' = v /\ UNCHANGED <<ddra, um>> /\ Edges
    ELSE Um245_Write(v) /\ UNCHANGED <<ora, ddra, rx, slave>>

-----------------------------------------------------------------------------
(* The accesses. Between them only the chip's queues change.                *)

Does(op) == todo # <<>> /\ Head(todo).op = op
Access == Head(todo)
Done ==
    /\ todo' = Tail(todo)
    /\ UNCHANGED <<hw, mode, leds, asked, typed, want>>

SetDirA ==
    /\ Does("dirA") /\ ddra' = ddra \cup Access.on /\ UNCHANGED <<ora, um>>
    /\ IF hw = "um245r" THEN Edges ELSE UNCHANGED <<tx, rx, slave>>
    /\ UNCHANGED <<orb, ddrb, val>> /\ Done
SetDirB ==
    /\ Does("dirB") /\ ddrb' = Access.to
    /\ UNCHANGED <<ora, ddra, orb, chip, val>> /\ Done
PutByte ==
    /\ Does("putB") /\ ToVia(PORTB) /\ orb' = Access.byte
    /\ UNCHANGED <<ora, ddra, ddrb, chip, val>> /\ Done
GetByte ==
    /\ Does("getB")
    /\ val' \in CASE ddrb = "out" -> {orb}
                  [] ddrb = "in" /\ ~Level("RD", ora, ddra) /\ rx # <<>> -> {Head(rx)}
                  [] OTHER -> Byte
    /\ UNCHANGED <<via, chip>> /\ Done
ChangeA ==
    /\ \/ Does("outA") /\ StoreA((PortA \ Access.off) \cup Access.on)
       \/ Does("flipA") /\ StoreA(IF Access.pin \in PortA THEN PortA \ {Access.pin}
                                                          ELSE PortA \cup {Access.pin})
    /\ UNCHANGED <<orb, ddrb, val>> /\ Done
Waited ==
    /\ Does("wait") /\ Access.pin \notin PortA
    /\ UNCHANGED <<via, chip, val>> /\ Done

Step == SetDirA \/ SetDirB \/ PutByte \/ GetByte \/ ChangeA \/ Waited

-----------------------------------------------------------------------------
(* Who calls the routines.                                                  *)

Prints(bytes) == asked' = asked \o bytes /\ UNCHANGED <<slave, want>>
Echoes == serial_writebyte(val) \o serial_writebyte(Newline)

\* The loops of _shell and shell_spi.
Reads ==
    /\ hw = "um245r" /\ todo = <<>> /\ todo' = serial_readbyte
    /\ UNCHANGED <<hw, via, chip, val, mode, leds, asked, typed, want>>

Echo ==
    /\ mode = "shell" /\ val # Enter
    /\ todo' = serial_writebyte(val) /\ Prints(<<val>>) /\ UNCHANGED <<mode, leds>>
Execute(text) ==
    /\ mode = "shell" /\ val = Enter
    /\ todo' = Echoes \o serial_writeline(text) \o serial_writeline(Prompt)
    /\ Prints(<<val, Newline>> \o text \o Prompt) /\ UNCHANGED <<mode, leds>>
ExecuteLed(routine) ==
    /\ mode = "shell" /\ val = Enter /\ leds < Leds /\ leds' = leds + 1
    /\ todo' = Echoes \o routine \o serial_writeline(Prompt)
    /\ Prints(<<val, Newline>> \o Prompt) /\ UNCHANGED mode
ExecuteSpi ==
    /\ mode = "shell" /\ val = Enter
    /\ todo' = Echoes \o spiBegin /\ mode' = "spi"
    /\ Prints(<<val, Newline>>) /\ UNCHANGED leds
Spi ==
    /\ mode = "spi" /\ val # Bar
    /\ todo' = spiWrite(val) /\ want' = Bits(val) /\ slave' = <<>>
    /\ UNCHANGED <<mode, leds, asked>>
LeaveSpi ==
    /\ mode = "spi" /\ val = Bar
    /\ todo' = spiEnd \o serial_writeline(Prompt) /\ mode' = "shell"
    /\ Prints(Prompt) /\ UNCHANGED leds

\* serial_readbyte returns.
HasRead ==
    /\ todo = <<Return>> /\ typed' = Tail(typed)
    /\ \/ Echo \/ ExecuteSpi \/ Spi \/ LeaveSpi
       \/ \E text \in Texts : Execute(text)
       \/ \E routine \in {ledOn, ledOff} : ExecuteLed(routine)
    /\ UNCHANGED <<hw, via, um, tx, rx, val>>

\* A thread of the scheduler's program.
ThreadPrints(text) ==
    /\ hw = "simulator" /\ todo = <<>> /\ todo' = serial_writeline(text) /\ Prints(text)
    /\ UNCHANGED <<hw, via, um, tx, rx, val, mode, leds, typed>>

Program == Step \/ Reads \/ HasRead \/ \E text \in Texts : ThreadPrints(text)

HostTakes ==
    /\ tx # <<>> /\ tx' = Tail(tx) /\ asked' = Tail(asked)
    /\ UNCHANGED <<hw, via, um, rx, slave, program, typed>>
UserTypes(key) ==
    /\ hw = "um245r" /\ Len(rx) < RxCap
    /\ rx' = Append(rx, key) /\ typed' = Append(typed, key)
    /\ UNCHANGED <<hw, via, um, tx, slave, program, asked>>

Next == Program \/ HostTakes \/ \E key \in Keys : UserTypes(key)

\* The processor never stops, and the host goes on reading.
Spec == Init /\ [][Next]_vars /\ WF_vars(Program) /\ WF_vars(HostTakes)

-----------------------------------------------------------------------------
(* Properties.                                                              *)

AtMostOneCallAhead ==
    \E s \in Texts \cup {Motd} : Len(asked) <= TxCap + (Len(s) + Len(Prompt) + 2)

\* Every variable holds a value of its kind, no queue of the chip holds more than it can,
\* and the program is never further ahead of the host than the chip's queue and one call.
TypeOK ==
    /\ hw \in Hardware /\ ora \subseteq Pins /\ ddra \subseteq Pins
    /\ orb \in Byte /\ ddrb \in {"in", "out"} /\ val \in Byte
    /\ um \in {"UNDEFINED_STATE", "WRITE_HIGH", "WRITE_LOW"}
    /\ tx \in Seq(Byte) /\ Len(tx) <= TxCap /\ rx \in Seq(Byte) /\ Len(rx) <= RxCap
    /\ slave \in Seq({0, 1}) /\ mode \in {"shell", "spi"} /\ leds \in 0 .. Leds
    /\ asked \in Seq(Byte) /\ AtMostOneCallAhead

IsIn(access) == \E k \in DOMAIN todo : todo[k] = access

\* From the first bytes after power-on, the host gets the bytes that the program writes,
\* each once and in their order, and no other. On the board this rests on spiInit being
\* called first (main.c:75): only its read of the floating port gives the latch the
\* strobes' high level before serial_init makes them outputs.
HostGetsWhatWasWritten ==
    IsPrefix(tx, asked) /\ (~IsIn(OutA({"WE"}, {})) => tx = asked)

\* serial_readbyte returns every key once and in order, whatever is typed meanwhile and
\* between what other calls: no key is dropped by a strobe that nobody reads.
KeysAreReadOnce == typed = IF todo = <<Return>> THEN <<val>> \o rx ELSE rx

\* The SPI slave samples exactly the bits of the keys typed, the highest first, although
\* each key is fetched through the same port in between with the slave still selected.
SlaveGetsWhatWasTyped ==
    IsPrefix(slave, want) /\ (~IsIn(FlipA("CLK")) => slave = want)

\* The VIA and the chip never drive port B both at once.
NoContention == hw = "um245r" /\ ~Level("RD", ora, ddra) => ddrb = "in"

\* What is to be written gets written, however slow the host reads and however full the
\* chip or the simulator's pipe.
Writing == \E k \in DOMAIN todo : todo[k].op = "putB"
WritesEnd == Writing ~> ~Writing

\* um245.s:1-2 asks for both strobes to be high but for the moment of an access. Here:
\* they are high whenever a routine is about to begin or has returned.
StrobesStableHigh ==
    hw = "um245r" /\ todo # <<>> /\ todo[1].op = "dirB" /\ "WE" \in ddra
        => {"WE", "RD"} \subseteq ora
=============================================================================
