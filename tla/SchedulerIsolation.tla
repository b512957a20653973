------------------------- MODULE SchedulerIsolation --------------------------
(***************************************************************************)
(* What the invariant of SchedulerProofs gives of the two threads as a     *)
(* whole: neither sees that it was interrupted, what each prints, and the  *)
(* lines that the reader of the serial port gets.                          *)
(***************************************************************************)
EXTENDS SchedulerProofs

-----------------------------------------------------------------------------
(* The thread that waits.                                                   *)

\* The three bytes below which it waits lie in its own region.
LEMMA WaitingCells ==
    ASSUME StacksApart, IInv, Booted
    PROVE  LET o == 1 - running
               s == ctx[o].sp
           IN  /\ running \in Threads /\ o \in Threads /\ o # running /\ s \in Nat
               /\ Above(s, 1) = s + 1 /\ Above(s, 2) = s + 2 /\ Above(s, 3) = s + 3
               /\ {s + 1, s + 2, s + 3} \subseteq Region(o)
<1> DEFINE o == 1 - running
           c == ctx[o]
<1>1. running \in Threads /\ o \in Threads /\ o # running
  BY DEF IInv, TypeOK, Threads
<1>2. PICK l \in Preemptible(o) : Frame(stack, o, l, c.sp + 3)
  BY DEF IInv, Waiting
<1>3. c.sp \in Nat
  <2>1. c \in [a : Byte, x : Byte, y : Byte, sp : Byte]
    BY <1>1 DEF IInv, TypeOK
  <2> QED BY <2>1 DEF Byte
<1>4. c.sp + 3 = Top(o) \/ c.sp + 3 = Top(o) - 2
  BY <1>2 DEF Frame, Preemptible, BusyLabels, ThreadLabels, Code, Enter, Uart, Restore
<1>5. Top(o) \in Nat /\ Top(o) >= 7 /\ Top(o) <= StackMax /\ StackMax \in Nat
  BY <1>1, TopRange
<1>6. {c.sp + 1, c.sp + 2, c.sp + 3} \subseteq Region(o)
  BY <1>3, <1>4, <1>5 DEF Region, Depth
<1>7. /\ Above(c.sp, 1) = c.sp + 1 /\ Above(c.sp, 2) = c.sp + 2
      /\ Above(c.sp, 3) = c.sp + 3
  BY <1>3, <1>4, <1>5 DEF Above
<1> QED BY <1>1, <1>3, <1>6, <1>7

\* An instruction writes to the stack of the thread that executes it only.
LEMMA InstructionWrites ==
    ASSUME StacksApart, IInv, Instruction
    PROVE  /\ Booted /\ UNCHANGED <<irq, running, ctx>>
           /\ \A n \in Region(1 - running) : stack'[n] = stack[n]
<1>1. Booted /\ UNCHANGED <<irq, running, ctx>>
  <2>1. CASE \E t \in Threads : ThreadStep(t)
    <3>1. PICK t \in Threads : \E w : Fetch(At(t, w))
      BY <2>1 DEF ThreadStep, LdaText, LdxText, Sei, CallWriteline, Cli, CallBusy, Again
    <3> QED BY <3>1 DEF Fetch, kernel, Booted, At, Code
  <2>2. CASE SharedStep
    BY <2>2 DEF SharedStep, Ldy, Beq, Dey, JmpBusy, RtsBusy, EnterWriteline, PutByte,
                EndOfLine, LeaveWriteline, Fetch, kernel, Booted
  <2> QED BY <2>1, <2>2 DEF Instruction
<1>2. TypeOK /\ RunningOK(running) /\ running \in Threads
  BY <1>1 DEF IInv, TypeOK
<1>3. CASE \E t \in Threads : CallWriteline(t) \/ CallBusy(t)
  <2>1. PICK t \in Threads : CallWriteline(t) \/ CallBusy(t)
    BY <1>3
  <2>2. PICK w, r, target : pc = At(t, w) /\ Jsr(target, At(t, r))
    BY <2>1 DEF CallWriteline, CallBusy, Fetch
  <2>3. t = running /\ sp = Top(t)
    BY <2>2, <1>2, AtFrame DEF RunningOK
  <2>4. Top(t) \in Nat /\ Top(t) >= 7 /\ Top(t) <= StackMax /\ StackMax \in Nat
    BY TopRange
  <2>5. Below(sp, 1) = Top(t) - 1
    BY <2>3, <2>4 DEF Below
  <2>6. stack' = [stack EXCEPT ![Top(t)] = <<"hi", At(t, r)>>, ![Top(t) - 1] = <<"lo", At(t, r)>>]
    BY <2>2, <2>3, <2>5 DEF Jsr, Pushed
  <2>7. \A n \in Region(1 - t) : n \in 0 .. StackMax /\ n # Top(t) /\ n # Top(t) - 1
    <3>1. Top(t) = Top(t) - 0
      BY <2>4
    <3> QED BY <3>1, TopRange, RegionsApart DEF Threads
  <2> QED BY <1>1, <1>2, <2>3, <2>6, <2>7 DEF TypeOK
<1>4. CASE EnterWriteline
  <2> DEFINE T == Top(running)
  <2>1. T \in Nat /\ T >= 7 /\ T <= StackMax /\ StackMax \in Nat
    BY <1>2, TopRange
  <2>2. sp = T - 2
    BY <1>2, <1>4, WriteFrame DEF RunningOK, EnterWriteline, Fetch
  <2>3. /\ Below(sp, 1) = T - 3 /\ Below(sp, 2) = T - 4 /\ Below(sp, 3) = T - 5
        /\ Below(T - 5, 1) = T - 6
    BY <2>1, <2>2 DEF Below
  <2>4. stack' = [stack EXCEPT ![T - 5] = <<"hi", Restore>>, ![T - 6] = <<"lo", Restore>>,
                    ![T - 2] = <<"reg", a>>, ![T - 3] = <<"reg", x>>, ![T - 4] = <<"reg", y>>]
    BY <2>2, <2>3, <1>4 DEF EnterWriteline, Pushed, Restore
  <2>5. ASSUME NEW n \in Region(1 - running)
        PROVE  n \in 0 .. StackMax /\ n \notin {T - 2, T - 3, T - 4, T - 5, T - 6}
    <3>1. \A k \in 0 .. 6 : n # T - k
      BY <1>2, TopRange
    <3>2. n \in 0 .. StackMax
      BY <1>2, RegionsApart DEF Threads
    <3> QED BY <3>1, <3>2
  <2> QED BY <1>1, <1>2, <2>4, <2>5 DEF TypeOK
<1>5. CASE UNCHANGED stack
  BY <1>1, <1>5
<1> QED BY <1>3, <1>4, <1>5
        DEF Instruction, ThreadStep, SharedStep, LdaText, LdxText, Sei, Cli, Again, Ldy, Beq,
            Dey, JmpBusy, RtsBusy, PutByte, EndOfLine, LeaveWriteline, Rts

\* So the thread that waits finds everything as it was.
LEMMA InstructionKeepsView ==
    ASSUME StacksApart, IInv, Instruction, NEW o \in Threads, o # running
    PROVE  View(o)' = View(o)
<1> DEFINE s == ctx[o].sp
<1>0. o = 1 - running
  <2>1. running \in Threads
    BY DEF IInv, TypeOK
  <2> QED BY <2>1 DEF Threads
<1>1. /\ Booted /\ UNCHANGED <<running, ctx>>
      /\ \A n \in Region(o) : stack'[n] = stack[n]
  BY <1>0, InstructionWrites
<1>2. /\ o # running
      /\ Above(s, 1) = s + 1 /\ Above(s, 2) = s + 2 /\ Above(s, 3) = s + 3
      /\ {s + 1, s + 2, s + 3} \subseteq Region(o)
  BY <1>0, <1>1, WaitingCells
<1>3. /\ stack'[Above(s, 1)] = stack[Above(s, 1)] /\ stack'[Above(s, 2)] = stack[Above(s, 2)]
      /\ stack'[Above(s, 3)] = stack[Above(s, 3)]
  BY <1>1, <1>2
<1> QED BY <1>1, <1>2, <1>3 DEF View

\* Nor does it see the interrupt that stops it, or the one that resumes it.
LEMMA IrqKeepsViews ==
    ASSUME StacksApart, IInv, Irq
    PROVE  /\ Booted /\ Booted' /\ running' = 1 - running /\ UNCHANGED <<data, busy, wire>>
           /\ pc \in ThreadLabels(running) \cup BusyLabels
           /\ \A t \in Threads : View(t)' = View(t)
           /\ a' = ctx[1 - running].a /\ ctx'[running].a = running
<1>0. PICK r \in Threads, o \in Threads : r = running /\ o = 1 - running
  BY DEF IInv, TypeOK, Threads
<1> DEFINE T == Top(r)
           s == ctx[o].sp
<1>1. Booted /\ irq /\ (~p.i \/ ~polled)
  BY DEF Irq, MayInterrupt, Booted, IInv, TypeOK
<1>2. TypeOK /\ RunningOK(r) /\ o # r /\ o = 1 - r /\ (\A t \in Threads : t = r \/ t = o)
  BY <1>0, <1>1 DEF IInv, TypeOK, Threads
<1>3. T \in Nat /\ T >= 7 /\ T <= StackMax /\ StackMax \in Nat
  BY <1>2, TopRange
<1>4. pc \in ThreadLabels(r) \cup BusyLabels /\ sp \in {T, T - 2}
  <2>1. pc \in ThreadLabels(r) \cup BusyLabels
    <3>1. p.i => pc = At(r, "print")
      BY <1>1, <1>2 DEF RunningOK
    <3>2. ~p.i => pc \notin WriteLabels
      BY <1>2 DEF RunningOK, Masked
    <3>3. pc \in ThreadLabels(r) \cup BusyLabels \cup WriteLabels
      BY <1>2 DEF RunningOK, Frame, Enter, Uart, Restore, WriteLabels
    <3>4. At(r, "print") \in ThreadLabels(r)
      BY DEF ThreadLabels, At
    <3> QED BY <3>1, <3>2, <3>3, <3>4
  <2> QED BY <1>2, <2>1 DEF RunningOK, Frame, BusyLabels, ThreadLabels, Code, Enter, Uart, Restore
<1>5. /\ sp \in Nat /\ sp >= 5 /\ sp <= StackMax
      /\ Below(sp, 1) = sp - 1 /\ Below(sp, 2) = sp - 2 /\ Below(sp, 3) = sp - 3
      /\ Below(sp - 3, 1) = sp - 4
      /\ Above(sp - 3, 1) = sp - 2 /\ Above(sp - 3, 2) = sp - 1 /\ Above(sp - 3, 3) = sp
  BY <1>3, <1>4 DEF Below, Above
<1>6. \A n \in 0 .. StackMax :
         stack'[n] = IF n = sp - 4 THEN <<"lo", IsrLabel>>
                     ELSE IF n = sp - 3 THEN <<"hi", IsrLabel>>
                     ELSE IF n = sp - 2 THEN <<"p", p>>
                     ELSE IF n = sp - 1 THEN <<"lo", pc>>
                     ELSE IF n = sp THEN <<"hi", pc>>
                     ELSE stack[n]
  <2>1. stack' = [stack EXCEPT ![sp] = <<"hi", pc>>, ![sp - 1] = <<"lo", pc>>,
                    ![sp - 2] = <<"p", p>>,
                    ![sp - 3] = <<"hi", IsrLabel>>, ![sp - 4] = <<"lo", IsrLabel>>]
    BY <1>5 DEF Irq, Pushed
  <2> QED BY <1>2, <2>1 DEF TypeOK
<1>7. /\ running' = o /\ UNCHANGED <<data, busy, wire>>
      /\ ctx' = [ctx EXCEPT ![r] = [a |-> r, x |-> x, y |-> y, sp |-> sp - 3]]
      /\ a' = ctx[o].a /\ x' = ctx[o].x /\ y' = ctx[o].y /\ sp' = Above(s, 3)
  BY <1>0, <1>5 DEF Irq, serial
<1>8. /\ s \in Nat /\ Above(s, 1) = s + 1 /\ Above(s, 2) = s + 2 /\ Above(s, 3) = s + 3
      /\ {s + 1, s + 2, s + 3} \subseteq Region(o)
  BY <1>0, <1>1, WaitingCells
\* The thread that is resumed.
<1>9. /\ stack'[Above(s, 1)] = stack[Above(s, 1)] /\ stack'[Above(s, 2)] = stack[Above(s, 2)]
      /\ stack'[Above(s, 3)] = stack[Above(s, 3)]
  <2>1. ASSUME NEW n \in Region(o)
        PROVE  n \in 0 .. StackMax /\ n \notin {sp, sp - 1, sp - 2, sp - 3, sp - 4}
    <3>1. \A k \in 0 .. 6 : n # T - k
      BY <1>2, TopRange
    <3>2. n \in 0 .. StackMax
      BY <1>2, RegionsApart
    <3>3. \A k \in 0 .. 4 : \E m \in 0 .. 6 : sp - k = T - m
      BY <1>3, <1>4
    <3>4. sp = sp - 0
      BY <1>5
    <3> QED BY <3>1, <3>2, <3>3, <3>4
  <2>2. \A n \in Region(o) : stack'[n] = stack[n]
    BY <1>6, <2>1
  <2> QED BY <1>8, <2>2
<1>10. PICK l \in Preemptible(o), f \in Flags :
         /\ stack[s + 1] = <<"p", f>>
         /\ stack[s + 2] = <<"lo", l>>
         /\ stack[s + 3] = <<"hi", l>>
  BY <1>0, <1>1 DEF IInv, Waiting
<1>11. View(o)' = View(o) /\ pc' = l
  <2>1. stack'[Above(s, 1)] = <<"p", f>>
    BY <1>8, <1>9, <1>10
  <2>2. p' = stack[Above(s, 1)][2]
    <3>1. stack'[Above(s, 1)][1] = "p"
      BY <2>1
    <3>2. p' = stack'[Above(s, 1)][2]
      BY <3>1, <1>0 DEF Irq
    <3> QED BY <3>2, <1>9
  <2>3. pc' = Target(stack[Above(s, 2)], stack[Above(s, 3)])
    <3>1. stack'[Above(s, 1)][1] = "p"
      BY <2>1
    <3>2. pc' = Target(stack'[Above(s, 2)], stack'[Above(s, 3)])
      BY <3>1, <1>0 DEF Irq
    <3> QED BY <3>2, <1>9
  <2>4. pc' = l
    BY <2>3, <1>8, <1>10, TargetOfPair
  <2> QED BY <1>0, <1>2, <1>7, <2>2, <2>3, <2>4 DEF View
\* The thread that is interrupted.
<1>12. View(r)' = View(r)
  <2>1. ctx'[r] = [a |-> r, x |-> x, y |-> y, sp |-> sp - 3]
    BY <1>2, <1>7 DEF TypeOK
  <2>2. /\ stack'[sp - 2] = <<"p", p>> /\ stack'[sp - 1] = <<"lo", pc>>
        /\ stack'[sp] = <<"hi", pc>>
    <3>1. {sp, sp - 1, sp - 2, sp - 3, sp - 4} \subseteq 0 .. StackMax
      BY <1>3, <1>5
    <3> HIDE DEF T, s
    <3> QED BY <1>5, <1>6, <3>1
  <2>3. Target(stack'[sp - 1], stack'[sp]) = pc /\ stack'[sp - 2][2] = p
    BY <2>2, TargetOfPair
  <2> QED BY <1>0, <1>2, <1>5, <1>7, <2>1, <2>3 DEF View
<1>13. ctx'[r].a = r
  BY <1>2, <1>7 DEF TypeOK
<1>14. Booted'
  BY <1>10, <1>11 DEF Booted, Preemptible, BusyLabels, ThreadLabels, Code
<1> QED BY <1>0, <1>1, <1>2, <1>4, <1>7, <1>11, <1>12, <1>13, <1>14

\* The rest of the hardware, and no step at all.
LEMMA HardwareKeepsViews ==
    ASSUME Timer \/ UartReady \/ UNCHANGED vars
    PROVE  /\ UNCHANGED <<pc, a, x, running, ctx, data, wire>> /\ Booted' = Booted
           /\ \A t \in Threads : View(t)' = View(t)
<1>1. UNCHANGED <<pc, a, x, y, sp, p, stack, running, ctx, data, wire>>
  BY DEF Timer, UartReady, vars, cpu, kernel, serial
<1> QED BY <1>1 DEF View, Booted

\* A thread's address, X, Y, flags and stack pointer change by its own instructions
\* only: the interrupt handler restores what it saved, and the other thread's calls
\* and the handler's own write to the other half of page 1.
THEOREM ThreadIsolation == StacksApart => (Spec => Isolation)
<1> SUFFICES ASSUME StacksApart
             PROVE  Spec => Isolation
  OBVIOUS
<1>1. ASSUME IInv, [Next]_vars, Booted, NEW t \in Threads, View(t)' # View(t)
      PROVE  running = t /\ running' = t
  <2>1. CASE Boot
    BY <2>1, <1>1 DEF Boot, Booted
  <2>2. CASE Instruction
    BY <2>2, <1>1, InstructionWrites, InstructionKeepsView
  <2>3. CASE Irq
    BY <2>3, <1>1, IrqKeepsViews
  <2>4. CASE Timer \/ UartReady \/ UNCHANGED vars
    BY <2>4, <1>1, HardwareKeepsViews
  <2> QED BY <1>1, <2>1, <2>2, <2>3, <2>4 DEF Next
<1>2. IInv /\ [Next]_vars =>
          [Booted => \A t \in Threads : View(t)' # View(t) => running = t /\ running' = t]_vars
  BY <1>1
<1> QED BY <1>2, Invariance, PTL DEF Spec, Isolation

-----------------------------------------------------------------------------
(* What a thread prints.                                                    *)

\* The accumulator as thread t will find it: the handler leaves the thread's own
\* number in the place where A should be.
Accumulator(t) == IF running = t THEN a ELSE ctx[t].a

\* From the loading of the address of its text to the end of uart_write_line.
OnOwnPage(t) ==
    LET l == View(t).pc IN
    /\ l \in {At(t, "ldx"), At(t, "sei"), At(t, "print")} =>
           Accumulator(t) \in {TextLo[t], t}
    /\ l \in {At(t, "sei"), At(t, "print")} => View(t).x = TextHi[t]
    /\ l = Enter => a \in {TextLo[t], t} /\ x = TextHi[t]
    /\ l \in {Uart, Restore} => data[2] = TextHi[t] /\ data[1] \in {TextLo[t], t}

\* Where uart_write_line has sent the whole line.
LineSent == pc = Restore => y = LineLength(data)

PageInv == Booted => (\A t \in Threads : OnOwnPage(t)) /\ LineSent

\* The first instructions of both threads.
LEMMA BootViews ==
    ASSUME StacksApart, IInv, Boot
    PROVE  /\ Booted' /\ running' = 0 /\ pc' = At(0, "lda")
           /\ View(0)'.pc = At(0, "lda") /\ View(1)'.pc = At(1, "lda")
           /\ UNCHANGED <<data, busy, wire>>
<1>1. /\ ResetSP \in Nat /\ ResetSP >= 7 /\ ResetSP <= StackMax /\ StackMax \in 0 .. 255
      /\ T1Top \in Nat /\ T1Top >= 7 /\ T1Top <= StackMax
  BY StackAssumption DEF StacksApart, Depth, Top, Threads, Byte
<1>2. TypeOK /\ sp = ResetSP
  BY DEF Boot, IInv, Booted
<1>3. Below(ResetSP, 1) = ResetSP - 1 /\ Below(T1Top, 3) = T1Top - 3
  BY <1>1 DEF Below
<1>4. /\ stack'[ResetSP] = <<"hi", <<"main", "scheduler_init">> >>
      /\ stack'[ResetSP - 1] = <<"lo", <<"main", "scheduler_init">> >>
      /\ stack'[T1Top] = <<"hi", At(1, "lda")>> /\ stack'[T1Top - 1] = <<"lo", At(1, "lda")>>
  BY BootCells
<1>5. /\ pc' = At(0, "lda") /\ running' = 0 /\ UNCHANGED <<data, busy, wire>>
      /\ ctx' = [ctx EXCEPT ![0].sp = StackMax, ![1].sp = T1Top - 3]
  BY <1>3, <1>4, TargetOfPair DEF Boot, serial
<1>6. ctx'[1].sp = T1Top - 3
  BY <1>2, <1>5 DEF TypeOK, Threads
<1>7. Above(T1Top - 3, 2) = T1Top - 1 /\ Above(T1Top - 3, 3) = T1Top
  BY <1>1 DEF Above
<1>8. View(1)'.pc = At(1, "lda")
  BY <1>4, <1>5, <1>6, <1>7, TargetOfPair DEF View
<1> QED BY <1>5, <1>8 DEF View, Booted, At, Code

\* Where the three returns go.
LEMMA Returns ==
    ASSUME StacksApart, IInv
    PROVE  /\ RtsBusy => \E v \in {"busy2", "busy3", "busy4", "again"} : pc' = At(running, v)
           /\ EndOfLine => pc' = Restore
           /\ LeaveWriteline => pc' = At(running, "cli")
<1> DEFINE T == Top(running)
<1>1. ASSUME RtsBusy \/ EndOfLine \/ LeaveWriteline
      PROVE  /\ RunningOK(running) /\ running \in Threads
             /\ T \in Nat /\ T >= 7 /\ T <= StackMax /\ StackMax \in Nat
  <2>1. Booted /\ running \in Threads
    BY <1>1 DEF RtsBusy, EndOfLine, LeaveWriteline, Fetch, Booted, IInv, TypeOK
  <2> QED BY <2>1, TopRange DEF IInv
<1>2. ASSUME RtsBusy
      PROVE  \E v \in {"busy2", "busy3", "busy4", "again"} : pc' = At(running, v)
  <2>1. pc = <<"busy_loop", "rts">>
    BY <1>2 DEF RtsBusy, Fetch
  <2>2. PICK v \in {"busy2", "busy3", "busy4", "again"} : CallFrame(stack, T, At(running, v))
    BY <1>1, <1>2, <2>1, BusyFrame DEF RunningOK
  <2>3. sp = T - 2
    BY <1>1, <1>2, <2>1, BusyFrame DEF RunningOK
  <2>4. Above(sp, 1) = T - 1 /\ Above(sp, 2) = T
    BY <1>1, <1>2, <2>3 DEF Above
  <2>5. pc' = At(running, v)
    BY <1>2, <2>2, <2>4, TargetOfPair DEF RtsBusy, Rts, CallFrame
  <2> QED BY <2>5
<1>3. ASSUME EndOfLine PROVE pc' = Restore
  <2>1. pc = Uart
    BY <1>3 DEF EndOfLine, Fetch, Uart
  <2>2. sp = T - 7 /\ CallFrame(stack, T - 5, Restore)
    BY <1>1, <1>3, <2>1, WriteFrame DEF RunningOK, Uart
  <2>3. Above(sp, 1) = T - 6 /\ Above(sp, 2) = T - 5 /\ (T - 5) - 1 = T - 6
    BY <1>1, <1>3, <2>2 DEF Above
  <2> QED BY <1>3, <2>2, <2>3, TargetOfPair DEF EndOfLine, Rts, CallFrame
<1>4. ASSUME LeaveWriteline PROVE pc' = At(running, "cli")
  <2>1. pc = Restore
    BY <1>4 DEF LeaveWriteline, Fetch, Restore
  <2>2. sp = T - 5 /\ CallFrame(stack, T, At(running, "cli"))
    BY <1>1, <1>4, <2>1, WriteFrame DEF RunningOK, Restore
  <2>3. Above(sp, 4) = T - 1 /\ Above(sp, 5) = T
    BY <1>1, <1>4, <2>2 DEF Above
  <2> QED BY <1>4, <2>2, <2>3, TargetOfPair DEF LeaveWriteline, Rts, CallFrame
<1> QED BY <1>2, <1>3, <1>4

\* An instruction of a thread's program is one of the thread that runs.
LEMMA OwnInstruction ==
    ASSUME StacksApart, IInv, NEW t \in Threads, ThreadStep(t)
    PROVE  t = running
<1>1. PICK w : Fetch(At(t, w))
  BY DEF ThreadStep, LdaText, LdxText, Sei, CallWriteline, Cli, CallBusy, Again
<1>2. RunningOK(running) /\ running \in Threads
  BY <1>1 DEF IInv, TypeOK, Fetch, Booted, At, Code
<1> QED BY <1>1, <1>2, AtFrame DEF RunningOK, Fetch

LEMMA InstructionKeepsPage ==
    ASSUME StacksApart, IInv, PageInv, Instruction
    PROVE  PageInv'
<1>0. PICK r \in Threads, o \in Threads : r = running /\ o = 1 - r /\ o # r
  BY DEF IInv, TypeOK, Threads
<1>1. /\ Booted /\ UNCHANGED <<running, ctx>> /\ View(o)' = View(o)
      /\ \A t \in Threads : t = r \/ t = o
  BY <1>0, InstructionWrites, InstructionKeepsView DEF Threads
<1>2. /\ OnOwnPage(r) /\ OnOwnPage(o) /\ LineSent
      /\ View(r).pc = pc /\ View(r).x = x /\ Accumulator(r) = a
      /\ View(r)'.pc = pc' /\ View(r)'.x = x' /\ Accumulator(r)' = a'
  BY <1>0, <1>1 DEF PageInv, View, Accumulator
<1>3. View(o).pc \in Preemptible(o)
  BY <1>0, <1>1, WaitingView
<1>4. OnOwnPage(o)'
  <2>1. Accumulator(o)' = Accumulator(o)
    BY <1>0, <1>1 DEF Accumulator
  <2>2. View(o).pc \notin {Enter, Uart, Restore}
    BY <1>0, <1>3 DEF Preemptible, ThreadLabels, BusyLabels, Enter, Uart, Restore, Code
  <2> QED BY <1>1, <1>2, <2>1, <2>2 DEF OnOwnPage
<1>5. OnOwnPage(r)' /\ LineSent'
  <2>1. ASSUME NEW t \in Threads, ThreadStep(t)
        PROVE  OnOwnPage(r)' /\ LineSent'
    <3>1. t = r
      BY <2>1, <1>0, OwnInstruction
    <3>2. CASE LdaText(r)
      BY <3>2, <1>2 DEF LdaText, OnOwnPage, LineSent, At, Code, Enter, Uart, Restore, Threads
    <3>3. CASE LdxText(r)
      BY <3>3, <1>2 DEF LdxText, Fetch, OnOwnPage, LineSent, At, Code, Enter, Uart, Restore, Threads
    <3>4. CASE Sei(r)
      BY <3>4, <1>2 DEF Sei, Fetch, OnOwnPage, LineSent, At, Code, Enter, Uart, Restore, Threads
    <3>5. CASE CallWriteline(r)
      BY <3>5, <1>2 DEF CallWriteline, Fetch, Jsr, OnOwnPage, LineSent, At, Code, Enter, Uart,
                        Restore, Threads
    <3>6. CASE Cli(r) \/ CallBusy(r) \/ Again(r)
      <4>1. pc' \in {At(r, "busy1"), <<"busy_loop", "ldy">>, At(r, "lda")}
        BY <3>6 DEF Cli, CallBusy, Again, Jsr
      <4> QED BY <4>1, <1>2 DEF OnOwnPage, LineSent, At, Code, Enter, Uart, Restore, Threads
    <3> QED BY <2>1, <3>1, <3>2, <3>3, <3>4, <3>5, <3>6 DEF ThreadStep
  <2>2. CASE Ldy \/ Beq \/ Dey \/ JmpBusy \/ RtsBusy
    <3>1. \/ \E w \in {"beq", "dey", "jmp", "rts"} : pc' = <<"busy_loop", w>>
          \/ \E v \in {"busy2", "busy3", "busy4", "again"} : pc' = At(r, v)
      BY <2>2, <1>0, Returns DEF Ldy, Beq, Dey, JmpBusy
    <3> QED BY <3>1, <1>2 DEF OnOwnPage, LineSent, At, Code, Enter, Uart, Restore, Threads
  <2>3. CASE EnterWriteline
    <3>1. pc = Enter /\ pc' = Uart /\ data' = <<a, x>>
      BY <2>3 DEF EnterWriteline, Fetch, Enter, Uart
    <3>2. a \in {TextLo[r], r} /\ x = TextHi[r]
      BY <3>1, <1>2 DEF OnOwnPage
    <3> QED BY <3>1, <3>2, <1>2 DEF OnOwnPage, LineSent, At, Code, Enter, Uart, Restore, Threads
  <2>4. CASE PutByte
    <3>1. pc = Uart /\ pc' = Uart /\ data' = data
      BY <2>4 DEF PutByte, Fetch, Uart
    <3> QED BY <3>1, <1>2 DEF OnOwnPage, LineSent, At, Code, Enter, Uart, Restore, Threads
  <2>5. CASE EndOfLine
    <3>1. pc = Uart /\ pc' = Restore /\ data' = data /\ y' = LineLength(data')
      BY <2>5, Returns DEF EndOfLine, Fetch, Uart, serial
    <3>2. LineSent'
      BY <3>1 DEF LineSent
    <3> QED BY <3>1, <3>2, <1>2 DEF OnOwnPage, At, Code, Enter, Uart, Restore, Threads
  <2>6. CASE LeaveWriteline
    <3>1. pc' = At(r, "cli")
      BY <2>6, <1>0, Returns
    <3> QED BY <3>1, <1>2 DEF OnOwnPage, LineSent, At, Code, Enter, Uart, Restore, Threads
  <2> QED BY <2>1, <2>2, <2>3, <2>4, <2>5, <2>6 DEF Instruction, SharedStep
<1> QED BY <1>1, <1>4, <1>5 DEF PageInv

LEMMA StepKeepsPage ==
    ASSUME StacksApart, IInv, PageInv, [Next]_vars
    PROVE  PageInv'
<1>1. CASE Boot
  <2>1. View(0)'.pc = At(0, "lda") /\ View(1)'.pc = At(1, "lda") /\ pc' = At(0, "lda")
    BY <1>1, BootViews
  <2>2. \A t \in Threads : View(t)'.pc = At(t, "lda")
    BY <2>1 DEF Threads
  <2>3. LineSent'
    BY <2>1 DEF LineSent, At, Code, Restore
  <2> QED BY <2>2, <2>3 DEF PageInv, OnOwnPage, At, Code, Enter, Uart, Restore, Threads
<1>2. CASE Instruction
  BY <1>2, InstructionKeepsPage
<1>3. CASE Irq
  <2>0. PICK r \in Threads, o \in Threads :
           r = running /\ o = 1 - r /\ (\A t \in Threads : t = r \/ t = o)
    BY DEF IInv, TypeOK, Threads
  <2>1. /\ Booted /\ Booted' /\ running' = o /\ UNCHANGED data /\ r # o
        /\ View(r)' = View(r) /\ View(o)' = View(o) /\ a' = ctx[o].a /\ ctx'[r].a = r
    BY <1>3, <2>0, IrqKeepsViews DEF Threads
  <2>2. View(o).pc \in ThreadLabels(o) \cup BusyLabels /\ View(o)'.pc = pc'
    BY <2>0, <2>1, WaitingView DEF View, Preemptible
  <2>3. View(r).pc \in ThreadLabels(r) \cup BusyLabels
    BY <1>3, <2>0, IrqKeepsViews DEF View
  <2>4. \A t \in Threads : \A l \in ThreadLabels(t) \cup BusyLabels :
             l \notin {Enter, Uart, Restore}
    BY DEF Preemptible, ThreadLabels, BusyLabels, Enter, Uart, Restore, Code
  <2>5. OnOwnPage(r) /\ OnOwnPage(o)
    BY <2>1 DEF PageInv
  <2>6. OnOwnPage(r)'
    <3>1. Accumulator(r)' = r
      BY <2>0, <2>1 DEF Accumulator
    <3> QED BY <2>1, <2>3, <2>4, <2>5, <3>1 DEF OnOwnPage
  <2>7. OnOwnPage(o)'
    <3>1. Accumulator(o)' = Accumulator(o)
      BY <2>0, <2>1 DEF Accumulator
    <3> QED BY <2>1, <2>2, <2>4, <2>5, <3>1 DEF OnOwnPage
  <2>8. LineSent'
    BY <2>1, <2>2, <2>4 DEF LineSent
  <2> QED BY <2>0, <2>6, <2>7, <2>8 DEF PageInv
<1>4. CASE Timer \/ UartReady \/ UNCHANGED vars
  <2>1. /\ UNCHANGED <<pc, a, x, running, ctx, data>> /\ Booted' = Booted
        /\ \A t \in Threads : View(t)' = View(t)
    BY <1>4, HardwareKeepsViews
  <2>2. y' = y
    BY <1>4 DEF Timer, UartReady, vars, cpu
  <2> QED BY <2>1, <2>2 DEF PageInv, OnOwnPage, Accumulator, LineSent
<1> QED BY <1>1, <1>2, <1>3, <1>4 DEF Next

LEMMA PageInvariance == StacksApart => (Spec => []PageInv)
<1> SUFFICES ASSUME StacksApart
             PROVE  Spec => []PageInv
  OBVIOUS
<1>1. Init => PageInv
  BY DEF Init, PageInv, Booted
<1>2. IInv /\ PageInv /\ [Next]_vars => PageInv'
  BY StepKeepsPage
<1> QED BY <1>1, <1>2, Invariance, PTL DEF Spec

\* A thread prints from the page of its own text, from the text's first byte or from
\* the byte whose number is the thread's: the only harm the handler does to A.
THEOREM PageSafety == StacksApart => (Spec => []OwnPage)
<1> SUFFICES ASSUME StacksApart
             PROVE  Spec => []OwnPage
  OBVIOUS
<1>1. PageInv => OwnPage
  BY DEF PageInv, OnOwnPage, OwnPage, Printing, Uart, Restore
<1> QED BY <1>1, PageInvariance, PTL

-----------------------------------------------------------------------------
(* The refinement of SerialLines.                                           *)

\* The line has an owner if the thread that runs is in uart_write_line or has just
\* returned from it; the other one never is.
Writing == Booted /\ pc \in {Uart, Restore}
OwnerKnown ==
    /\ Owner = IF Writing THEN running ELSE NoThread
    /\ Writing => View(Owner).y = y

LEMMA OwnerOf ==
    ASSUME StacksApart, IInv
    PROVE  OwnerKnown
<1>1. CASE Writing
  <2>1. running \in Threads /\ ~Printing(1 - running) /\ Printing(running)
    <3>1. running \in Threads /\ View(1 - running).pc \in Preemptible(1 - running)
      BY <1>1, WaitingView DEF Writing
    <3>2. \A t \in Threads : \A l \in Preemptible(t) : l \notin {Uart, Restore}
      BY DEF Preemptible, ThreadLabels, BusyLabels, Uart, Restore, Code
    <3>3. 1 - running \in Threads
      BY <3>1 DEF Threads
    <3> QED BY <1>1, <3>1, <3>2, <3>3 DEF Writing, Printing, View, Uart, Restore
  <2>2. \A t \in Threads : Printing(t) <=> t = running
    BY <2>1 DEF Threads
  <2>3. running \in Threads \cup {NoThread} /\ running # NoThread
    BY <2>1 DEF Threads, NoThread
  <2>4. Owner = running
    BY <2>1, <2>2, <2>3 DEF Owner
  <2> QED BY <1>1, <2>4 DEF OwnerKnown, View
<1>2. CASE ~Writing
  <2>1. \A t \in Threads : ~Printing(t)
    <3>1. CASE ~Booted
      BY <3>1 DEF Printing
    <3>2. CASE Booted
      <4>1. running \in Threads /\ View(1 - running).pc \in Preemptible(1 - running)
        BY <3>2, WaitingView
      <4>2. \A t \in Threads : \A l \in Preemptible(t) : l \notin {Uart, Restore}
        BY DEF Preemptible, ThreadLabels, BusyLabels, Uart, Restore, Code
      <4>3. \A t \in Threads : t = running \/ t = 1 - running
        BY <4>1 DEF Threads
      <4>4. ~Printing(1 - running)
        BY <4>1, <4>2, <4>3 DEF Printing, Uart, Restore, Threads
      <4>5. ~Printing(running)
        BY <1>2, <3>2 DEF Writing, Printing, View, Uart, Restore
      <4> QED BY <4>3, <4>4, <4>5
    <3> QED BY <3>1, <3>2
  <2>2. NoThread \notin Threads
    BY DEF Threads, NoThread
  <2>3. Owner = NoThread
    BY <2>1, <2>2 DEF Owner
  <2> QED BY <1>2, <2>3 DEF OwnerKnown
<1> QED BY <1>1, <1>2

\* The bytes on the wire come in whole lines: no line starts before the NUL of the one
\* before it, and none is cut, repeated or mixed with the other thread's.
THEOREM WholeLines == StacksApart => (Spec => ImplementsSerialLines)
<1> SUFFICES ASSUME StacksApart
             PROVE  Spec => ImplementsSerialLines
  OBVIOUS
<1>1. IInv => OwnerKnown
  BY OwnerOf
<1>2. Init => Lines!Init
  <2>1. ASSUME Init PROVE Owner = NoThread
    <3>1. \A t \in Threads : ~Printing(t)
      BY <2>1 DEF Init, Printing, Booted
    <3>2. NoThread \notin Threads
      BY DEF Threads, NoThread
    <3> QED BY <3>1, <3>2 DEF Owner
  <2> QED BY <2>1 DEF Init, Lines!Init
<1>3. IInv /\ PageInv /\ OwnerKnown /\ OwnerKnown' /\ [Next]_vars => [Lines!Next]_Lines!vars
  <2> SUFFICES ASSUME IInv, PageInv, OwnerKnown, OwnerKnown', [Next]_vars
               PROVE  [Lines!Next]_Lines!vars
    OBVIOUS
  <2> DEFINE text == IF Owner = NoThread THEN <<0, 0>> ELSE data
             sent == IF Owner = NoThread THEN 0 ELSE View(Owner).y
  <2>1. running \in Threads /\ NoThread \notin Threads
    BY DEF IInv, TypeOK, Threads, NoThread
  <2>2. ASSUME Writing' <=> Writing, Writing => UNCHANGED <<running, data, y>>, UNCHANGED wire
        PROVE  UNCHANGED Lines!vars
    <3>1. Owner' = Owner
      BY <2>1, <2>2 DEF OwnerKnown
    <3>2. text' = text /\ sent' = sent
      <4>1. CASE Writing
        BY <2>1, <2>2, <3>1, <4>1 DEF OwnerKnown
      <4>2. CASE ~Writing
        BY <2>1, <2>2, <3>1, <4>2 DEF OwnerKnown
      <4> QED BY <4>1, <4>2
    <3> QED BY <2>2, <3>1, <3>2 DEF Lines!vars
  <2>3. CASE Boot
    <3>1. ~Writing
      BY <2>3 DEF Boot, Writing, Booted
    <3>2. ~Writing' /\ UNCHANGED wire
      BY <2>3, BootViews DEF Writing, At, Code, Uart, Restore
    <3> QED BY <2>2, <3>1, <3>2
  <2>4. CASE Irq
    <3>0. PICK o \in Threads : o = 1 - running
      BY <2>1 DEF Threads
    <3>1. /\ Booted /\ UNCHANGED <<data, busy, wire>> /\ running' = o /\ View(o)' = View(o)
          /\ pc \in ThreadLabels(running) \cup BusyLabels
      BY <2>4, <3>0, IrqKeepsViews
    <3>2. pc' \in ThreadLabels(o) \cup BusyLabels
      BY <3>0, <3>1, WaitingView DEF View, Preemptible
    <3>3. ~Writing /\ ~Writing'
      BY <3>1, <3>2 DEF Writing, ThreadLabels, BusyLabels, Code, Uart, Restore
    <3> QED BY <2>2, <3>1, <3>3
  <2>5. CASE EnterWriteline
    <3>1. /\ pc = Enter /\ pc' = Uart /\ running' = running /\ data' = <<a, x>> /\ y' = 0
          /\ UNCHANGED wire
      BY <2>5 DEF EnterWriteline, Fetch, kernel, Enter, Uart
    <3>2. ~Writing /\ Writing'
      BY <3>1 DEF Writing, Booted, Enter, Uart, Restore
    <3>3. Owner = NoThread /\ Owner' = running /\ View(Owner)'.y = 0
      BY <3>1, <3>2 DEF OwnerKnown
    <3>4. text' \in Addresses /\ sent' = 0
      <4>1. a \in Byte /\ x \in Byte
        BY DEF IInv, TypeOK
      <4> QED BY <2>1, <3>1, <3>3, <4>1 DEF Addresses
    <3>5. Lines!Begin(running)
      BY <3>1, <3>3, <3>4 DEF Lines!Begin
    <3> QED BY <2>1, <3>5 DEF Lines!Next
  <2>6. CASE PutByte
    <3>1. /\ pc = Uart /\ pc' = Uart /\ running' = running /\ data' = data /\ y' = y + 1
          /\ wire' = <<data, y>> /\ y < LineLength(data)
      BY <2>6 DEF PutByte, Fetch, kernel, Uart
    <3>2. Writing /\ Writing'
      BY <3>1 DEF Writing, Booted, Uart
    <3>3. Owner = running /\ Owner' = running /\ View(Owner).y = y /\ View(Owner)'.y = y + 1
      BY <3>1, <3>2 DEF OwnerKnown
    <3>4. text = data /\ text' = data /\ sent = y /\ sent' = y + 1
      BY <2>1, <3>1, <3>3
    <3>5. Lines!Send
      BY <2>1, <3>1, <3>3, <3>4 DEF Lines!Send
    <3> QED BY <3>5 DEF Lines!Next
  <2>7. CASE EndOfLine
    <3>1. pc = Uart /\ pc' = Restore /\ UNCHANGED <<running, data, y, wire>>
      BY <2>7, Returns DEF EndOfLine, Fetch, kernel, serial, Uart
    <3>2. Writing /\ Writing'
      BY <3>1 DEF Writing, Booted, Uart, Restore
    <3> QED BY <2>2, <3>1, <3>2
  <2>8. CASE LeaveWriteline
    <3>1. pc = Restore /\ pc' = At(running, "cli") /\ UNCHANGED <<running, wire>>
      BY <2>8, Returns DEF LeaveWriteline, Fetch, kernel, serial, Restore
    <3>2. Writing /\ ~Writing'
      BY <2>1, <3>1 DEF Writing, Booted, At, Code, Uart, Restore
    <3>3. Owner = running /\ Owner' = NoThread /\ View(Owner).y = y
      BY <3>2 DEF OwnerKnown
    <3>4. text = data /\ sent = y /\ y = LineLength(data)
      BY <2>1, <3>1, <3>2, <3>3 DEF PageInv, LineSent, Writing
    <3>5. Lines!End
      BY <2>1, <3>1, <3>3, <3>4 DEF Lines!End
    <3> QED BY <3>5 DEF Lines!Next
  <2>9. CASE \/ \E t \in Threads : ThreadStep(t)
             \/ Ldy \/ Beq \/ Dey \/ JmpBusy \/ RtsBusy
    <3>1. UNCHANGED wire
      BY <2>9 DEF ThreadStep, LdaText, LdxText, Sei, CallWriteline, Cli, CallBusy, Again,
                  Ldy, Beq, Dey, JmpBusy, RtsBusy, serial
    <3>2. pc \notin {Uart, Restore}
      <4>1. CASE \E t \in Threads : ThreadStep(t)
        <5>1. PICK t \in Threads : \E w : pc = At(t, w)
          BY <4>1 DEF ThreadStep, LdaText, LdxText, Sei, CallWriteline, Cli, CallBusy, Again,
                      Fetch
        <5> QED BY <5>1 DEF At, Code, Uart, Restore
      <4>2. CASE Ldy \/ Beq \/ Dey \/ JmpBusy \/ RtsBusy
        BY <4>2 DEF Ldy, Beq, Dey, JmpBusy, RtsBusy, Fetch, Uart, Restore
      <4> QED BY <2>9, <4>1, <4>2
    <3>3. pc' \notin {Uart, Restore}
      <4>1. CASE \E t \in Threads : ThreadStep(t)
        BY <4>1 DEF ThreadStep, LdaText, LdxText, Sei, CallWriteline, Cli, CallBusy, Again,
                    Jsr, At, Code, Uart, Restore
      <4>2. CASE Ldy \/ Beq \/ Dey \/ JmpBusy \/ RtsBusy
        BY <4>2, Returns DEF Ldy, Beq, Dey, JmpBusy, At, Code, Uart, Restore
      <4> QED BY <2>9, <4>1, <4>2
    <3> QED BY <2>2, <3>1, <3>2, <3>3 DEF Writing
  <2>10. CASE Timer \/ UartReady \/ UNCHANGED vars
    <3>1. UNCHANGED <<pc, running, data, wire, y>>
      BY <2>10 DEF Timer, UartReady, vars, cpu, kernel, serial
    <3> QED BY <2>2, <3>1 DEF Writing, Booted
  <2> QED BY <2>3, <2>4, <2>5, <2>6, <2>7, <2>8, <2>9, <2>10 DEF Next, Instruction, SharedStep
<1> QED BY <1>1, <1>2, <1>3, PageInvariance, Invariance, PTL
        DEF Spec, ImplementsSerialLines, Lines!Spec
=============================================================================
