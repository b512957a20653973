------------------------------ MODULE Scheduler ------------------------------
(***************************************************************************)
(* The two-thread preemptive scheduler of scheduler/: scheduler.s, main.s  *)
(* and the part of um245.s and counter.s they call, on one 65C02 whose IRQ *)
(* line is driven by timer 1 of the VIA.                                   *)
(*                                                                         *)
(* The model runs at the grain at which the processor takes interrupts:    *)
(* one action per instruction of the two threads and of busy_loop.         *)
(* serial_writeline is cut at its call of uart_write_line and at every     *)
(* byte it sends; the interrupt handler runs with interrupts masked and is *)
(* one action.  Page 1 is the function "stack"; a JSR, an interrupt, an    *)
(* RTS and an RTI move tagged bytes in it, so a return through a cell that *)
(* something else has overwritten goes Wild.                               *)
(***************************************************************************)
EXTENDS Naturals

CONSTANTS
    StackMax,   \* highest offset in the stack page ($FF)
    ResetSP,    \* what the stack pointer holds when the reset vector is taken
    T1Top,      \* first stack byte of thread 1 ($80)
    Delay,      \* iterations of busy_loop ($FF)
    TextLo,     \* low byte of the address of the text each thread prints
    TextHi,     \* and its high byte
    LineLen,    \* bytes of a text before its NUL
    StrayLen,   \* bytes before the first NUL at any other address
    PortA,      \* what VIA_PORTA reads back between two bytes
    Ram         \* what uninitialised RAM may hold

Threads == {0, 1}
NoThread == 2
Byte == 0 .. 255
Text(t) == <<TextLo[t], TextHi[t]>>
LineLength(addr) == IF \E t \in Threads : addr = Text(t) THEN LineLen ELSE StrayLen

ASSUME StackAssumption ==
    /\ StackMax \in Byte /\ ResetSP \in 0 .. StackMax /\ T1Top \in 0 .. StackMax
ASSUME DataAssumption ==
    /\ Delay \in Byte /\ PortA \in Byte
    /\ LineLen \in Byte /\ StrayLen \in Byte
    /\ TextLo \in [Threads -> Byte] /\ TextHi \in [Threads -> Byte]
    /\ Ram \subseteq Byte

-----------------------------------------------------------------------------
(* Code addresses. Only addresses that are fetched or pushed have a name.   *)

Code(t) == IF t = 0 THEN "thread_0" ELSE "thread_1"
At(t, where) == <<Code(t), where>>

ThreadLabels(t) ==
    {Code(t)} \X {"lda", "ldx", "sei", "print", "cli",
                  "busy1", "busy2", "busy3", "busy4", "again"}
WriteLabels == {"serial_writeline"} \X {"enter", "uart", "restore"}
BusyLabels == {"busy_loop"} \X {"ldy", "beq", "dey", "jmp", "rts"}
BootLabels == {"main"} \X {"reset", "scheduler_init", "counter_init"}
IsrLabel == <<"scheduler_irq", "counter_reset">>
Wild == <<"wild", "wild">>
Label == ThreadLabels(0) \cup ThreadLabels(1) \cup WriteLabels \cup BusyLabels
           \cup BootLabels \cup {IsrLabel, Wild}

AfterBusy(where) == CASE where = "busy1" -> "busy2"
                      [] where = "busy2" -> "busy3"
                      [] where = "busy3" -> "busy4"
                      [] where = "busy4" -> "again"

Flags == [i : BOOLEAN, z : BOOLEAN]
Cell == ({"hi", "lo"} \X Label) \cup ({"p"} \X Flags) \cup ({"reg"} \X Byte)

VARIABLES
    pc, a, x, y, sp, \* the registers of the 65C02
    p,               \* its flags: I (interrupts inhibited) and Z
    polled,          \* the I flag the interrupt poll of the next boundary sees
    stack,           \* page 1
    irq,             \* the interrupt line: timer 1's flag in the VIA
    running,         \* thread_running
    ctx,             \* ctx_switch_mem_t0 and ctx_switch_mem_t1
    data,            \* _data, the zero page pointer of serial_writeline
    busy,            \* the UM245R's TXE pin: its buffer takes no byte
    wire             \* the last byte strobed into the UM245R: <<text, index>>

cpu == <<pc, a, x, y, sp, p, polled, stack>>
kernel == <<irq, running, ctx>>
serial == <<data, busy, wire>>
vars == <<cpu, kernel, serial>>

-----------------------------------------------------------------------------
(* The 65C02, as far as the code depends on it.                             *)

\* The stack pointer is one byte: it wraps in the stack page.
Below(s, n) == IF n <= s THEN s - n ELSE (s + StackMax + 1) - n
Above(s, n) == IF s + n <= StackMax THEN s + n ELSE (s + n) - (StackMax + 1)

Pushed(stk, s, l) == [stk EXCEPT ![s] = <<"hi", l>>, ![Below(s, 1)] = <<"lo", l>>]

\* Where an RTS or RTI goes that finds an address in these two cells.
Target(lo, hi) ==
    IF lo[1] = "lo" /\ hi[1] = "hi" /\ lo[2] = hi[2] THEN lo[2] ELSE Wild

\* What a PLA, PLX or PLY may load: a byte of an address or of the flags has no
\* number here.
Pulled(cell) == IF cell[1] = "reg" THEN {cell[2]} ELSE Ram

\* The line is polled once per instruction, before SEI and CLI take effect:
\* an interrupt may still follow SEI, and need not follow CLI.
MayInterrupt == irq /\ (~p.i \/ ~polled)
MustInterrupt == irq /\ ~p.i /\ ~polled

\* An instruction at l, in the state an interrupt does not pre-empt.
Fetch(l) == pc = l /\ ~MustInterrupt /\ polled' = p.i /\ UNCHANGED kernel

Jsr(target, return) ==
    /\ pc' = target
    /\ stack' = Pushed(stack, sp, return)
    /\ sp' = Below(sp, 2)

\* RTS, when n registers have been pulled before it.
Rts(n) ==
    /\ pc' = Target(stack[Above(sp, n + 1)], stack[Above(sp, n + 2)])
    /\ sp' = Above(sp, n + 2)
    /\ UNCHANGED stack

-----------------------------------------------------------------------------
(* _main: serial_init, the scheduler's initialisation and CLI.  Interrupts  *)
(* are masked from reset to CLI, and no instruction sets the stack pointer. *)

Init ==
    /\ pc = <<"main", "reset">> /\ sp = ResetSP
    /\ a \in Ram /\ x \in Ram /\ y \in Ram
    /\ p = [i |-> TRUE, z |-> FALSE] /\ polled = TRUE
    /\ \E r \in Ram : stack = [n \in 0 .. StackMax |-> <<"reg", r>>]
    /\ irq = FALSE /\ running \in Threads
    /\ \E r \in Ram : ctx = [t \in Threads |-> [a |-> r, x |-> r, y |-> r, sp |-> r]]
    /\ \E r \in Ram : data = <<r, r>>
    /\ busy = FALSE /\ wire = <<>>

\* Mutant of InitialStack: the flags of thread 1's first frame above its address.
InitialStackFlagsFirst ==
    LET called == Pushed(stack, ResetSP, <<"main", "scheduler_init">>)
    IN  [Pushed(called, Below(T1Top, 1), At(1, "lda")) EXCEPT
           ![T1Top] = <<"p", [i |-> FALSE, z |-> FALSE]>>]

\* The stack after _scheduler_init: its own return address, thread 1's first
\* frame, and what _counter_init leaves under the stack pointer.
InitialStack ==
    LET called == Pushed(stack, ResetSP, <<"main", "scheduler_init">>)
        framed == [Pushed(called, T1Top, At(1, "lda")) EXCEPT
                     ![Below(T1Top, 2)] = <<"p", [i |-> FALSE, z |-> FALSE]>>]
        counter == Pushed(Pushed(framed, Below(ResetSP, 2), <<"main", "counter_init">>),
                          Below(ResetSP, 4), <<"main", "counter_init">>)
    IN  [counter EXCEPT ![Below(ResetSP, 6)] = <<"reg", 0>>]

Boot ==
    /\ pc = <<"main", "reset">>
    /\ stack' = InitialStack
    /\ ctx' = [ctx EXCEPT ![0].sp = StackMax, ![1].sp = Below(T1Top, 3)]
    /\ running' = 0
    /\ pc' = IF /\ Target(stack'[Below(ResetSP, 1)], stack'[ResetSP])
                     = <<"main", "scheduler_init">>
             THEN At(0, "lda") ELSE Wild
    /\ a' = 0 /\ x' = Below(ResetSP, 2) /\ p' = [i |-> FALSE, z |-> TRUE]
    /\ UNCHANGED <<y, sp, polled, irq, serial>>

-----------------------------------------------------------------------------
(* thread_0 and thread_1: the same ten instructions over different texts.   *)

LdaText(t) ==
    /\ Fetch(At(t, "lda"))
    /\ a' = TextLo[t] /\ p' = [p EXCEPT !.z = (TextLo[t] = 0)]
    /\ pc' = At(t, "ldx")
    /\ UNCHANGED <<x, y, sp, stack, serial>>

LdxText(t) ==
    /\ Fetch(At(t, "ldx"))
    /\ x' = TextHi[t] /\ p' = [p EXCEPT !.z = (TextHi[t] = 0)]
    /\ pc' = At(t, "sei")
    /\ UNCHANGED <<a, y, sp, stack, serial>>

\* Mutant of Sei: the critical section does not mask interrupts.
SeiMissing(t) ==
    /\ Fetch(At(t, "sei"))
    /\ pc' = At(t, "print")
    /\ UNCHANGED <<a, x, y, p, sp, stack, serial>>

Sei(t) ==
    /\ Fetch(At(t, "sei"))
    /\ p' = [p EXCEPT !.i = TRUE] /\ pc' = At(t, "print")
    /\ UNCHANGED <<a, x, y, sp, stack, serial>>

CallWriteline(t) ==
    /\ Fetch(At(t, "print"))
    /\ Jsr(<<"serial_writeline", "enter">>, At(t, "cli"))
    /\ UNCHANGED <<a, x, y, p, serial>>

Cli(t) ==
    /\ Fetch(At(t, "cli"))
    /\ p' = [p EXCEPT !.i = FALSE] /\ pc' = At(t, "busy1")
    /\ UNCHANGED <<a, x, y, sp, stack, serial>>

CallBusy(t) ==
    \E where \in {"busy1", "busy2", "busy3", "busy4"} :
        /\ Fetch(At(t, where))
        /\ Jsr(<<"busy_loop", "ldy">>, At(t, AfterBusy(where)))
        /\ UNCHANGED <<a, x, y, p, serial>>

Again(t) ==
    /\ Fetch(At(t, "again"))
    /\ pc' = At(t, "lda")
    /\ UNCHANGED <<a, x, y, p, sp, stack, serial>>

-----------------------------------------------------------------------------
(* busy_loop.                                                               *)

Ldy ==
    /\ Fetch(<<"busy_loop", "ldy">>)
    /\ y' = Delay /\ p' = [p EXCEPT !.z = (Delay = 0)]
    /\ pc' = <<"busy_loop", "beq">>
    /\ UNCHANGED <<a, x, sp, stack, serial>>

Beq ==
    /\ Fetch(<<"busy_loop", "beq">>)
    /\ pc' = IF p.z THEN <<"busy_loop", "rts">> ELSE <<"busy_loop", "dey">>
    /\ UNCHANGED <<a, x, y, p, sp, stack, serial>>

Dey ==
    /\ Fetch(<<"busy_loop", "dey">>)
    /\ y' = (y + 255) % 256 /\ p' = [p EXCEPT !.z = (y' = 0)]
    /\ pc' = <<"busy_loop", "jmp">>
    /\ UNCHANGED <<a, x, sp, stack, serial>>

JmpBusy ==
    /\ Fetch(<<"busy_loop", "jmp">>)
    /\ pc' = <<"busy_loop", "beq">>
    /\ UNCHANGED <<a, x, y, p, sp, stack, serial>>

RtsBusy ==
    /\ Fetch(<<"busy_loop", "rts">>)
    /\ Rts(0)
    /\ UNCHANGED <<a, x, y, p, serial>>

-----------------------------------------------------------------------------
(* _serial_writeline and uart_write_line.                                   *)

\* Mutant of EnterWriteline: the two bytes of the address swapped.
EnterWritelineSwapped ==
    /\ Fetch(<<"serial_writeline", "enter">>)
    /\ stack' = [Pushed(stack, Below(sp, 3), <<"serial_writeline", "restore">>) EXCEPT
                   ![sp] = <<"reg", a>>,
                   ![Below(sp, 1)] = <<"reg", x>>,
                   ![Below(sp, 2)] = <<"reg", y>>]
    /\ sp' = Below(sp, 5)
    /\ data' = <<x, a>> /\ y' = 0 /\ a' = 255 /\ p' = [p EXCEPT !.z = FALSE]
    /\ pc' = <<"serial_writeline", "uart">>
    /\ UNCHANGED <<x, busy, wire>>

\* Push A, X and Y, set _data from A and X, call uart_write_line.
EnterWriteline ==
    /\ Fetch(<<"serial_writeline", "enter">>)
    /\ stack' = [Pushed(stack, Below(sp, 3), <<"serial_writeline", "restore">>) EXCEPT
                   ![sp] = <<"reg", a>>,
                   ![Below(sp, 1)] = <<"reg", x>>,
                   ![Below(sp, 2)] = <<"reg", y>>]
    /\ sp' = Below(sp, 5)
    /\ data' = <<a, x>> /\ y' = 0 /\ a' = 255 /\ p' = [p EXCEPT !.z = FALSE]
    /\ pc' = <<"serial_writeline", "uart">>
    /\ UNCHANGED <<x, busy, wire>>

\* Mutant of PutByte: the index is incremented before the byte is loaded.
PutByteLate ==
    /\ Fetch(<<"serial_writeline", "uart">>)
    /\ ~busy /\ y < LineLength(data)
    /\ wire' = <<data, y + 1>> /\ busy' \in BOOLEAN
    /\ y' = y + 1 /\ a' = PortA /\ p' = [p EXCEPT !.z = FALSE]
    /\ UNCHANGED <<pc, x, sp, stack, data>>

\* One turn of the loop: the UM245R is ready and the byte at (_data),y is not NUL.
PutByte ==
    /\ Fetch(<<"serial_writeline", "uart">>)
    /\ ~busy /\ y < LineLength(data)
    /\ wire' = <<data, y>> /\ busy' \in BOOLEAN
    /\ y' = y + 1 /\ a' = PortA /\ p' = [p EXCEPT !.z = FALSE]
    /\ UNCHANGED <<pc, x, sp, stack, data>>

\* The byte is NUL: return from uart_write_line.
EndOfLine ==
    /\ Fetch(<<"serial_writeline", "uart">>)
    /\ ~busy /\ y = LineLength(data)
    /\ a' = 0 /\ p' = [p EXCEPT !.z = TRUE]
    /\ Rts(0)
    /\ UNCHANGED <<x, y, serial>>

\* "pla plx ply rts": the registers come back in the order they were pushed.
LeaveWriteline ==
    /\ Fetch(<<"serial_writeline", "restore">>)
    /\ a' \in Pulled(stack[Above(sp, 1)])
    /\ x' \in Pulled(stack[Above(sp, 2)])
    /\ y' \in Pulled(stack[Above(sp, 3)])
    /\ p' = [p EXCEPT !.z = (y' = 0)]
    /\ Rts(3)
    /\ UNCHANGED serial

-----------------------------------------------------------------------------
(* Mutants of Irq: the number of the thread only ever incremented, Y left   *)
(* out of what is saved, timer 1's flag not cleared.                        *)

IrqCountsOn ==
    /\ MayInterrupt /\ pc # Wild
    /\ LET other == 1 - running
           entered == [Pushed(stack, sp, pc) EXCEPT ![Below(sp, 2)] = <<"p", p>>]
           s == ctx[other].sp
       IN  /\ irq' = FALSE
           /\ stack' = Pushed(entered, Below(sp, 3), IsrLabel)
           /\ ctx' = [ctx EXCEPT ![running] =
                        [a |-> running, x |-> x, y |-> y, sp |-> Below(sp, 3)]]
           /\ running' = running + 1
           /\ a' = ctx[other].a /\ x' = ctx[other].x /\ y' = ctx[other].y
           /\ sp' = Above(s, 3)
           /\ \/ /\ stack'[Above(s, 1)][1] = "p"
                 /\ p' = stack'[Above(s, 1)][2] /\ polled' = p'.i
                 /\ pc' = Target(stack'[Above(s, 2)], stack'[Above(s, 3)])
              \/ /\ stack'[Above(s, 1)][1] # "p"
                 /\ pc' = Wild /\ UNCHANGED <<p, polled>>
    /\ UNCHANGED serial

IrqForgetsY ==
    /\ MayInterrupt /\ pc # Wild
    /\ LET other == 1 - running
           entered == [Pushed(stack, sp, pc) EXCEPT ![Below(sp, 2)] = <<"p", p>>]
           s == ctx[other].sp
       IN  /\ irq' = FALSE
           /\ stack' = Pushed(entered, Below(sp, 3), IsrLabel)
           /\ ctx' = [ctx EXCEPT ![running] =
                        [a |-> running, x |-> x, y |-> ctx[running].y, sp |-> Below(sp, 3)]]
           /\ running' = other
           /\ a' = ctx[other].a /\ x' = ctx[other].x /\ y' = ctx[other].y
           /\ sp' = Above(s, 3)
           /\ \/ /\ stack'[Above(s, 1)][1] = "p"
                 /\ p' = stack'[Above(s, 1)][2] /\ polled' = p'.i
                 /\ pc' = Target(stack'[Above(s, 2)], stack'[Above(s, 3)])
              \/ /\ stack'[Above(s, 1)][1] # "p"
                 /\ pc' = Wild /\ UNCHANGED <<p, polled>>
    /\ UNCHANGED serial

IrqNotCleared ==
    /\ MayInterrupt /\ pc # Wild
    /\ LET other == 1 - running
           entered == [Pushed(stack, sp, pc) EXCEPT ![Below(sp, 2)] = <<"p", p>>]
           s == ctx[other].sp
       IN  /\ irq' = irq
           /\ stack' = Pushed(entered, Below(sp, 3), IsrLabel)
           /\ ctx' = [ctx EXCEPT ![running] =
                        [a |-> running, x |-> x, y |-> y, sp |-> Below(sp, 3)]]
           /\ running' = other
           /\ a' = ctx[other].a /\ x' = ctx[other].x /\ y' = ctx[other].y
           /\ sp' = Above(s, 3)
           /\ \/ /\ stack'[Above(s, 1)][1] = "p"
                 /\ p' = stack'[Above(s, 1)][2] /\ polled' = p'.i
                 /\ pc' = Target(stack'[Above(s, 2)], stack'[Above(s, 3)])
              \/ /\ stack'[Above(s, 1)][1] # "p"
                 /\ pc' = Wild /\ UNCHANGED <<p, polled>>
    /\ UNCHANGED serial

-----------------------------------------------------------------------------
(* The interrupt: the 65C02 pushes PC and P, _scheduler_irq clears timer 1's *)
(* flag, saves the running thread and returns into the other one.  A has    *)
(* been loaded with thread_running before it is saved.                      *)

Irq ==
    /\ MayInterrupt /\ pc # Wild
    /\ LET other == 1 - running
           entered == [Pushed(stack, sp, pc) EXCEPT ![Below(sp, 2)] = <<"p", p>>]
           s == ctx[other].sp
       IN  /\ irq' = FALSE
           /\ stack' = Pushed(entered, Below(sp, 3), IsrLabel)
           /\ ctx' = [ctx EXCEPT ![running] =
                        [a |-> running, x |-> x, y |-> y, sp |-> Below(sp, 3)]]
           /\ running' = other
           /\ a' = ctx[other].a /\ x' = ctx[other].x /\ y' = ctx[other].y
           /\ sp' = Above(s, 3)
           /\ \/ /\ stack'[Above(s, 1)][1] = "p"
                 /\ p' = stack'[Above(s, 1)][2] /\ polled' = p'.i
                 /\ pc' = Target(stack'[Above(s, 2)], stack'[Above(s, 3)])
              \/ /\ stack'[Above(s, 1)][1] # "p"
                 /\ pc' = Wild /\ UNCHANGED <<p, polled>>
    /\ UNCHANGED serial

\* The hardware around the processor.
Timer ==
    /\ pc # <<"main", "reset">> /\ ~irq /\ irq' = TRUE
    /\ UNCHANGED <<cpu, running, ctx, serial>>

UartReady ==
    /\ busy /\ busy' = FALSE
    /\ UNCHANGED <<cpu, kernel, data, wire>>

-----------------------------------------------------------------------------
ThreadStep(t) ==
    \/ LdaText(t) \/ LdxText(t) \/ Sei(t) \/ CallWriteline(t) \/ Cli(t)
    \/ CallBusy(t) \/ Again(t)
SharedStep ==
    \/ Ldy \/ Beq \/ Dey \/ JmpBusy \/ RtsBusy
    \/ EnterWriteline \/ PutByte \/ EndOfLine \/ LeaveWriteline
Instruction == (\E t \in Threads : ThreadStep(t)) \/ SharedStep

Next == Boot \/ Instruction \/ Irq \/ Timer \/ UartReady

Spec == Init /\ [][Next]_vars

\* The processor never halts and an interrupt cannot be held off for ever by
\* code that keeps unmasking it; the timer is free running; the host drains
\* the UM245R.  A quantum of 10 000 cycles is longer than the handler, so each
\* thread gets to execute in its quanta: strong fairness per thread.
Fairness ==
    /\ WF_vars(Boot) /\ WF_vars(Irq) /\ WF_vars(Timer) /\ WF_vars(UartReady)
    /\ \A t \in Threads : SF_vars(running = t /\ Instruction)

FairSpec == Spec /\ Fairness

-----------------------------------------------------------------------------
(* Properties.                                                              *)

\* Every register and every memory cell holds a value of its kind.
TypeOK ==
    /\ pc \in Label /\ a \in Byte /\ x \in Byte /\ y \in Byte
    /\ sp \in 0 .. StackMax /\ p \in Flags /\ polled \in BOOLEAN
    /\ stack \in [0 .. StackMax -> Cell]
    /\ irq \in BOOLEAN /\ running \in Threads
    /\ ctx \in [Threads -> [a : Byte, x : Byte, y : Byte, sp : Byte]]
    /\ data \in Byte \X Byte /\ busy \in BOOLEAN
    /\ wire \in {<<>>} \cup ((Byte \X Byte) \X Byte)

Booted == pc # <<"main", "reset">>

\* The machine as thread t will find it when it next executes: the registers if
\* it is running, else what the handler's RTI will restore.  A is left out.
View(t) ==
    IF running = t
    THEN [pc |-> pc, x |-> x, y |-> y, p |-> p, sp |-> sp]
    ELSE LET s == ctx[t].sp
         IN  [pc |-> Target(stack[Above(s, 2)], stack[Above(s, 3)]),
              x |-> ctx[t].x, y |-> ctx[t].y,
              p |-> stack[Above(s, 1)][2], sp |-> Above(s, 3)]

Printing(t) == Booted /\ View(t).pc \in {<<"serial_writeline", "uart">>,
                                        <<"serial_writeline", "restore">>}

\* Every RTS and RTI finds the address that was pushed for it (scheduler.s
\* builds thread 1's first frame by hand and moves the stack pointer between
\* two stacks in one page): control never leaves the program, of the thread
\* that runs or of the one that waits.
ControlStaysInProgram == pc # Wild /\ (Booted => \A t \in Threads : View(t).pc # Wild)

\* A thread's address, X, Y, flags and stack pointer change only by its own
\* instructions: not when it is interrupted (scheduler.s:106-153 saves and
\* restores), not while the other thread runs in the same page 1.
Isolation ==
    [][Booted => \A t \in Threads :
           View(t)' # View(t) => running = t /\ running' = t]_vars

\* The critical section of main.s:42-44: _data belongs to one thread at a time.
OneWriter == ~(Printing(0) /\ Printing(1))

\* A thread that sends bytes sends them from the page of its own text; what
\* the interrupt handler may have done to A before SEI can only move the start
\* to the byte of that page whose number is the thread's own.
OwnPage ==
    \A t \in Threads :
        Printing(t) => data[2] = TextHi[t] /\ data[1] \in {TextLo[t], t}

\* "_serial_writeline works correctly if the messages to print are in the code
\* section" (main.s:30-31): what a thread prints is its own text.
OwnText == \A t \in Threads : Printing(t) => data = Text(t)

\* "function preserves all registers" (um245.s:68): serial_writeline returns
\* with the A, X and Y it pushed, in that order, on entry.
WritelinePreservesRegisters ==
    [][pc = <<"serial_writeline", "restore">> /\ pc' # pc =>
          <<a, x, y>>' = <<stack[Above(sp, 3)][2], stack[Above(sp, 2)][2],
                           stack[Above(sp, 1)][2]>>]_vars

\* What main.s is for: both threads keep printing whole lines.
BothPrint == \A t \in Threads : []<>Printing(t) /\ []<>~Printing(t)

-----------------------------------------------------------------------------
(* Refinement: the serial line as its reader sees it.                       *)

Owner == CHOOSE t \in Threads \cup {NoThread} :
           IF t = NoThread THEN \A u \in Threads : ~Printing(u) ELSE Printing(t)
Addresses == Byte \X Byte

Lines == INSTANCE SerialLines
           WITH Writers <- Threads, NoWriter <- NoThread, Texts <- Addresses,
                Length <- LineLength,
                owner <- Owner,
                text <- IF Owner = NoThread THEN <<0, 0>> ELSE data,
                sent <- IF Owner = NoThread THEN 0 ELSE View(Owner).y

\* The bytes on the wire come in whole lines: no line starts before the NUL of
\* the one before it, none is cut, repeated or mixed with the other thread's.
ImplementsSerialLines == Lines!Spec
=============================================================================
