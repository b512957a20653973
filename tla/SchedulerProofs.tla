--------------------------- MODULE SchedulerProofs ---------------------------
(***************************************************************************)
(* The inductive invariant of Scheduler and the theorems it gives, for     *)
(* every stack page in which the two threads' seven bytes lie apart.       *)
(***************************************************************************)
EXTENDS Scheduler, TLAPS

Top(t) == IF t = 0 THEN ResetSP ELSE T1Top

\* A thread uses at most seven bytes: writeline's return address, three
\* registers, uart_write_line's return address; or busy_loop's return address,
\* the interrupt's three bytes and _counter_reset's return address.
Depth == 7
Region(t) == (Top(t) - Depth) + 1 .. Top(t)

StacksApart ==
    /\ \A t \in Threads : Top(t) >= Depth
    /\ ResetSP >= T1Top + Depth \/ T1Top >= ResetSP + Depth

CallFrame(stk, s, l) == stk[s] = <<"hi", l>> /\ stk[s - 1] = <<"lo", l>>

Enter == <<"serial_writeline", "enter">>
Uart == <<"serial_writeline", "uart">>
Restore == <<"serial_writeline", "restore">>

\* What the stack of thread t holds when it executes at l with stack pointer s.
Frame(stk, t, l, s) ==
    \/ l \in ThreadLabels(t) /\ s = Top(t)
    \/ /\ l \in BusyLabels /\ s = Top(t) - 2
       /\ \E w \in {"busy2", "busy3", "busy4", "again"} : CallFrame(stk, Top(t), At(t, w))
    \/ l = Enter /\ s = Top(t) - 2 /\ CallFrame(stk, Top(t), At(t, "cli"))
    \/ /\ l \in {Uart, Restore}
       /\ s = Top(t) - (IF l = Uart THEN 7 ELSE 5)
       /\ CallFrame(stk, Top(t), At(t, "cli"))
       /\ \A k \in 2 .. 4 : stk[Top(t) - k] \in {"reg"} \X Byte
       /\ l = Uart => CallFrame(stk, Top(t) - 5, Restore)

\* Where thread t runs with interrupts inhibited.
Masked(t) == WriteLabels \cup {At(t, "print"), At(t, "cli")}

\* Where an interrupt can find it.
Preemptible(t) == BusyLabels \cup (ThreadLabels(t) \ {At(t, "cli")})

RunningOK(t) ==
    /\ Frame(stack, t, pc, sp)
    /\ p.i <=> pc \in Masked(t)
    /\ p.i /\ ~polled => pc = At(t, "print")

\* What an interrupt left of thread t: c is its saved context.
Waiting(stk, t, c) ==
    \E l \in Preemptible(t), f \in Flags :
        /\ Frame(stk, t, l, c.sp + 3)
        /\ stk[c.sp + 1] = <<"p", f>>
        /\ stk[c.sp + 2] = <<"lo", l>>
        /\ stk[c.sp + 3 ] = <<"hi", l>>
        /\ f.i <=> l = At(t, "print")

IInv ==
    /\ TypeOK
    /\ ~Booted => sp = ResetSP /\ p.i /\ polled /\ ~irq
    /\ Booted => RunningOK(running) /\ Waiting(stack, 1 - running, ctx[1 - running])

-----------------------------------------------------------------------------
(* Facts about the addresses and the stack page.                            *)

\* Away from its ends the stack page is counted like the numbers.
LEMMA WrapFree ==
    ASSUME NEW s \in 0 .. StackMax, NEW n \in Nat
    PROVE  /\ n <= s => Below(s, n) = s - n
           /\ s + n <= StackMax => Above(s, n) = s + n
  BY StackAssumption DEF Below, Above, Byte

\* The address that an interrupt or a JSR pushed is where control returns.
LEMMA TargetOfPair ==
    ASSUME NEW l
    PROVE  Target(<<"lo", l>>, <<"hi", l>>) = l
  BY DEF Target

\* A thread at an instruction of its own has an empty stack.
LEMMA AtFrame ==
    ASSUME NEW stk, NEW r \in Threads, NEW t \in Threads, NEW w, NEW s,
           Frame(stk, r, At(t, w), s)
    PROVE  t = r /\ s = Top(r)
  BY DEF Frame, At, Code, ThreadLabels, BusyLabels, Enter, Uart, Restore, Threads

\* In busy_loop it has the address of one of its calls on it.
LEMMA BusyFrame ==
    ASSUME NEW stk, NEW r \in Threads, NEW w, NEW s,
           Frame(stk, r, <<"busy_loop", w>>, s)
    PROVE  /\ s = Top(r) - 2
           /\ \E v \in {"busy2", "busy3", "busy4", "again"} :
                 CallFrame(stk, Top(r), At(r, v))
  BY DEF Frame, Code, ThreadLabels, BusyLabels, Enter, Uart, Restore, Threads

\* In serial_writeline it has the address of the CLI on it.
LEMMA WriteFrame ==
    ASSUME NEW stk, NEW r \in Threads, NEW w, NEW s,
           Frame(stk, r, <<"serial_writeline", w>>, s)
    PROVE  /\ CallFrame(stk, Top(r), At(r, "cli"))
           /\ w = "enter" => s = Top(r) - 2
           /\ w \in {"uart", "restore"} =>
                 /\ s = Top(r) - (IF w = "uart" THEN 7 ELSE 5)
                 /\ \A k \in 2 .. 4 : stk[Top(r) - k] \in {"reg"} \X Byte
                 /\ w = "uart" => CallFrame(stk, Top(r) - 5, Restore)
  BY DEF Frame, Code, ThreadLabels, BusyLabels, Enter, Uart, Restore, Threads

\* Frame reads the thread's own region and nothing else.
LEMMA FrameKept ==
    ASSUME NEW stk, NEW new, NEW t \in Threads, NEW l, NEW s, StacksApart,
           Frame(stk, t, l, s), \A n \in Region(t) : new[n] = stk[n]
    PROVE  Frame(new, t, l, s)
<1>1. Top(t) \in Nat /\ Top(t) >= 7
  BY StackAssumption DEF Top, StacksApart, Depth, Threads
<1>2. \A k \in 0 .. 6 : new[Top(t) - k] = stk[Top(t) - k]
  BY <1>1 DEF Region, Depth
<1>3. \A r : /\ CallFrame(stk, Top(t), r) => CallFrame(new, Top(t), r)
             /\ CallFrame(stk, Top(t) - 5, r) => CallFrame(new, Top(t) - 5, r)
  <2> SUFFICES ASSUME NEW r
               PROVE  /\ CallFrame(stk, Top(t), r) => CallFrame(new, Top(t), r)
                      /\ CallFrame(stk, Top(t) - 5, r) => CallFrame(new, Top(t) - 5, r)
    OBVIOUS
  <2>1. /\ new[Top(t)] = stk[Top(t)] /\ new[Top(t) - 1] = stk[Top(t) - 1]
        /\ new[Top(t) - 5] = stk[Top(t) - 5] /\ new[(Top(t) - 5) - 1] = stk[(Top(t) - 5) - 1]
    <3>1. Top(t) = Top(t) - 0 /\ (Top(t) - 5) - 1 = Top(t) - 6
      BY <1>1
    <3> QED  BY <1>2, <3>1
  <2> QED  BY <2>1 DEF CallFrame
<1>4. \A k \in 2 .. 4 : new[Top(t) - k] = stk[Top(t) - k]
  BY <1>2
<1> QED  BY <1>3, <1>4 DEF Frame

\* So a waiting thread is not disturbed by what is written elsewhere.
LEMMA WaitingKept ==
    ASSUME NEW stk, NEW new, NEW t \in Threads, NEW c \in [a : Byte, x : Byte, y : Byte, sp : Byte],
           StacksApart, Waiting(stk, t, c), \A n \in Region(t) : new[n] = stk[n]
    PROVE  Waiting(new, t, c)
<1>1. Top(t) \in Nat /\ Top(t) >= 7
  BY StackAssumption DEF Top, StacksApart, Depth, Threads
<1>2. PICK l \in Preemptible(t), f \in Flags :
        /\ Frame(stk, t, l, c.sp + 3)
        /\ stk[c.sp + 1] = <<"p", f>>
        /\ stk[c.sp + 2] = <<"lo", l>>
        /\ stk[c.sp + 3] = <<"hi", l>>
        /\ f.i <=> l = At(t, "print")
  BY DEF Waiting
<1>3. Frame(new, t, l, c.sp + 3)
  BY <1>2, FrameKept
<1>4. c.sp + 3 \in {Top(t), Top(t) - 2}
  BY <1>2 DEF Frame, Preemptible, BusyLabels, ThreadLabels, Code, Enter, Uart, Restore
<1>5. c.sp \in Nat
  BY DEF Byte
<1>6. {c.sp + 1, c.sp + 2, c.sp + 3} \subseteq Region(t)
  BY <1>1, <1>4, <1>5 DEF Region, Depth
<1> QED  BY <1>2, <1>3, <1>6 DEF Waiting

\* The two regions share no byte.
LEMMA RegionsApart ==
    ASSUME NEW t \in Threads, StacksApart
    PROVE  /\ 1 - t \in Threads
           /\ Region(t) \cap Region(1 - t) = {}
           /\ Region(t) \subseteq 0 .. StackMax
  BY StackAssumption DEF Region, Depth, StacksApart, Top, Threads, Byte

-----------------------------------------------------------------------------
(* Every step keeps the invariant.                                          *)

\* An instruction keeps the invariant if it keeps the types and the running
\* thread's own part of it, and writes only to that thread's region.
LEMMA OwnStep ==
    ASSUME StacksApart, IInv, Booted, TypeOK', Booted', RunningOK(running)',
           UNCHANGED <<running, ctx>>,
           \A n \in Region(1 - running) : stack'[n] = stack[n]
    PROVE  IInv'
<1>1. running \in Threads /\ 1 - running \in Threads
  BY RegionsApart DEF IInv, TypeOK
<1>2. ctx[1 - running] \in [a : Byte, x : Byte, y : Byte, sp : Byte]
  BY <1>1 DEF IInv, TypeOK
<1>3. Waiting(stack', 1 - running, ctx[1 - running])
  BY <1>1, <1>2, WaitingKept DEF IInv
<1> QED  BY <1>3 DEF IInv

\* The instructions of the thread programs that leave the stack alone.
LEMMA StraightStep ==
    ASSUME StacksApart, IInv, NEW t \in Threads,
           LdaText(t) \/ LdxText(t) \/ Sei(t) \/ Cli(t) \/ Again(t)
    PROVE  IInv'
<1>1. /\ Booted /\ UNCHANGED <<stack, sp, running, ctx>>
      /\ \E w : pc = At(t, w) /\ w # "reset"
  BY DEF LdaText, LdxText, Sei, Cli, Again, Fetch, Booted, At, Code, kernel
<1>2. TypeOK /\ RunningOK(running) /\ running \in Threads
  BY <1>1 DEF IInv, TypeOK
<1>3. t = running /\ sp = Top(t)
  BY <1>1, <1>2, AtFrame DEF RunningOK
<1>4. pc' \in ThreadLabels(t)
  BY DEF LdaText, LdxText, Sei, Cli, Again, ThreadLabels, At
<1>5. TypeOK' /\ Booted'
  <2>1. pc' \in Label /\ Booted'
    BY <1>4 DEF Label, ThreadLabels, Code, Booted, Threads
  <2>2. a' \in Byte /\ x' \in Byte /\ y' \in Byte
    BY <1>2, DataAssumption DEF TypeOK, LdaText, LdxText, Sei, Cli, Again
  <2>3. p' \in Flags /\ polled' \in BOOLEAN
    <3>1. polled' = p.i /\ p \in Flags
      BY <1>2 DEF LdaText, LdxText, Sei, Cli, Again, Fetch, TypeOK
    <3>2. \/ p' = p
          \/ \E b \in BOOLEAN : p' = [p EXCEPT !.i = b] \/ p' = [p EXCEPT !.z = b]
      BY DEF LdaText, LdxText, Sei, Cli, Again
    <3> QED  BY <3>1, <3>2 DEF Flags
  <2>4. UNCHANGED <<stack, sp, irq, running, ctx, data, busy, wire>>
    BY DEF LdaText, LdxText, Sei, Cli, Again, Fetch, kernel, serial
  <2> QED  BY <1>2, <2>1, <2>2, <2>3, <2>4 DEF TypeOK
<1>6. Frame(stack, t, pc, sp)'
  BY <1>1, <1>3, <1>4 DEF Frame
<1>7. /\ (p.i <=> pc \in Masked(t))'
      /\ (p.i /\ ~polled => pc = At(t, "print"))'
  BY <1>2, <1>3 DEF RunningOK, LdaText, LdxText, Sei, Cli, Again, Fetch, Masked,
     At, Code, WriteLabels, TypeOK, Flags, Threads
<1> QED  BY <1>1, <1>3, <1>5, <1>6, <1>7, OwnStep DEF RunningOK

\* What a JSR's two bytes do to the stack page.
LEMMA PushedCells ==
    ASSUME NEW stk \in [0 .. StackMax -> Cell], NEW s \in 1 .. StackMax, NEW l \in Label
    PROVE  /\ Pushed(stk, s, l) \in [0 .. StackMax -> Cell]
           /\ CallFrame(Pushed(stk, s, l), s, l)
           /\ \A n \in 0 .. StackMax : n \notin {s, s - 1} => Pushed(stk, s, l)[n] = stk[n]
<1>1. Below(s, 1) = s - 1 /\ s \in 0 .. StackMax /\ s - 1 \in 0 .. StackMax /\ s # s - 1
  BY StackAssumption, WrapFree DEF Byte
<1>2. <<"hi", l>> \in Cell /\ <<"lo", l>> \in Cell
  BY DEF Cell
<1>3. Pushed(stk, s, l) = [stk EXCEPT ![s] = <<"hi", l>>, ![s - 1] = <<"lo", l>>]
  BY <1>1 DEF Pushed
<1> QED  BY <1>1, <1>2, <1>3 DEF CallFrame

\* Where the stack of a thread lies.
LEMMA TopRange ==
    ASSUME StacksApart, NEW t \in Threads
    PROVE  /\ Top(t) \in Nat /\ Top(t) >= 7 /\ Top(t) <= StackMax /\ StackMax \in Nat
           /\ \A k \in 0 .. 6 : Top(t) - k \in Region(t)
           /\ \A n \in Region(1 - t) : \A k \in 0 .. 6 : n # Top(t) - k
<1>1. /\ Top(t) \in Nat /\ Top(t) >= 7 /\ Top(t) <= StackMax /\ StackMax \in Nat
  BY StackAssumption DEF Top, StacksApart, Depth, Threads, Byte
<1>2. \A k \in 0 .. 6 : Top(t) - k \in Region(t)
  BY <1>1 DEF Region, Depth
<1> QED  BY <1>1, <1>2, RegionsApart

\* The two calls of the thread programs push their return address.
LEMMA CallStep ==
    ASSUME StacksApart, IInv, NEW t \in Threads, CallWriteline(t) \/ CallBusy(t)
    PROVE  IInv'
<1>1. PICK w, r, target :
        /\ pc = At(t, w) /\ Jsr(target, At(t, r))
        /\ \/ r = "cli" /\ w = "print" /\ target = Enter
           \/ /\ r \in {"busy2", "busy3", "busy4", "again"} /\ target = <<"busy_loop", "ldy">>
              /\ w \in {"busy1", "busy2", "busy3", "busy4"}
  BY DEF CallWriteline, CallBusy, Fetch, AfterBusy, Enter
<1>2. /\ Booted /\ polled' = p.i
      /\ UNCHANGED <<a, x, y, p, irq, running, ctx, data, busy, wire>>
  BY DEF CallWriteline, CallBusy, Fetch, Booted, At, Code, kernel, serial
<1>3. TypeOK /\ RunningOK(running) /\ running \in Threads
  BY <1>2 DEF IInv, TypeOK
<1>4. t = running /\ sp = Top(t)
  BY <1>1, <1>3, AtFrame DEF RunningOK
<1>5. Top(t) \in Nat /\ Top(t) >= 7 /\ Top(t) <= StackMax /\ StackMax \in Nat
  BY TopRange
<1>6. At(t, r) \in Label
  BY <1>1 DEF At, Label, ThreadLabels, Threads
<1>7. stack' = Pushed(stack, Top(t), At(t, r)) /\ sp' = Top(t) - 2 /\ pc' = target
  BY <1>1, <1>4, <1>5, WrapFree DEF Jsr
<1>8. /\ stack' \in [0 .. StackMax -> Cell]
      /\ CallFrame(stack', Top(t), At(t, r))
      /\ \A n \in Region(1 - t) : stack'[n] = stack[n]
  <2>1. Top(t) \in 1 .. StackMax /\ stack \in [0 .. StackMax -> Cell]
    BY <1>3, <1>5 DEF TypeOK
  <2>2. \A n \in Region(1 - t) : n \in 0 .. StackMax /\ n # Top(t) /\ n # Top(t) - 1
    BY <1>5, TopRange, RegionsApart DEF Threads
  <2> QED  BY <1>6, <1>7, <2>1, <2>2, PushedCells
<1>9. TypeOK' /\ Booted'
  <2>1. pc' \in Label /\ Booted'
    BY <1>1, <1>7 DEF Label, WriteLabels, BusyLabels, Enter, Booted
  <2>2. sp' \in 0 .. StackMax
    BY <1>5, <1>7
  <2> QED  BY <1>2, <1>3, <1>8, <2>1, <2>2 DEF TypeOK, Flags
<1>10. Frame(stack, t, pc, sp)'
  BY <1>1, <1>7, <1>8 DEF Frame, BusyLabels
<1>11. (p.i <=> pc \in Masked(t))' /\ (p.i /\ ~polled => pc = At(t, "print"))'
  BY <1>1, <1>2, <1>3, <1>4, <1>7 DEF RunningOK, Masked, WriteLabels, Enter, At, Code
<1> QED  BY <1>2, <1>4, <1>8, <1>9, <1>10, <1>11, OwnStep DEF RunningOK

\* The instructions of busy_loop before its RTS.
LEMMA BusyStep ==
    ASSUME StacksApart, IInv, Ldy \/ Beq \/ Dey \/ JmpBusy
    PROVE  IInv'
<1>1. /\ pc \in BusyLabels /\ pc' \in BusyLabels /\ Booted /\ polled' = p.i
      /\ UNCHANGED <<a, x, sp, stack, irq, running, ctx, data, busy, wire>>
  BY DEF Ldy, Beq, Dey, JmpBusy, Fetch, Booted, BusyLabels, kernel, serial
<1>2. TypeOK /\ RunningOK(running) /\ running \in Threads
  BY <1>1 DEF IInv, TypeOK
<1>3. /\ sp = Top(running) - 2
      /\ \E v \in {"busy2", "busy3", "busy4", "again"} :
            CallFrame(stack, Top(running), At(running, v))
  BY <1>1, <1>2, BusyFrame DEF RunningOK, BusyLabels
<1>4. y' \in Byte /\ p' \in Flags /\ p'.i = p.i
  <2>1. y' = Delay \/ y' = y \/ y' = (y + 255) % 256
    BY DEF Ldy, Beq, Dey, JmpBusy
  <2>2. y' \in Byte
    <3>1. y \in 0 .. 255 /\ Delay \in 0 .. 255
      BY <1>2, DataAssumption DEF TypeOK, Byte
    <3>2. (y + 255) % 256 \in 0 .. 255
      BY <3>1
    <3> QED  BY <2>1, <3>1, <3>2 DEF Byte
  <2>3. p' = p \/ \E b \in BOOLEAN : p' = [p EXCEPT !.z = b]
    BY DEF Ldy, Beq, Dey, JmpBusy
  <2> QED  BY <1>2, <2>2, <2>3 DEF TypeOK, Flags
<1>5. TypeOK' /\ Booted'
  <2>1. pc' \in Label /\ Booted'
    BY <1>1 DEF Label, BusyLabels, Booted
  <2> QED  BY <1>1, <1>2, <1>4, <2>1 DEF TypeOK, Flags
<1>6. Frame(stack, running, pc, sp)'
  BY <1>1, <1>3 DEF Frame
<1>7. \A l \in BusyLabels : l \notin Masked(running)
  BY <1>2 DEF BusyLabels, Masked, WriteLabels, At, Code, Threads
<1> QED  BY <1>1, <1>2, <1>4, <1>5, <1>6, <1>7, OwnStep DEF RunningOK

\* busy_loop returns to the call it was entered from.
LEMMA BusyReturn ==
    ASSUME StacksApart, IInv, RtsBusy
    PROVE  IInv'
<1>1. /\ pc = <<"busy_loop", "rts">> /\ Rts(0) /\ Booted /\ polled' = p.i
      /\ UNCHANGED <<a, x, y, p, stack, irq, running, ctx, data, busy, wire>>
  BY DEF RtsBusy, Rts, Fetch, Booted, kernel, serial
<1>2. TypeOK /\ RunningOK(running) /\ running \in Threads
  BY <1>1 DEF IInv, TypeOK
<1>3. /\ Top(running) \in Nat /\ Top(running) >= 7 /\ Top(running) <= StackMax
      /\ StackMax \in Nat
  BY <1>2, TopRange
<1>4. sp = Top(running) - 2
  BY <1>1, <1>2, BusyFrame DEF RunningOK
<1>5. PICK v \in {"busy2", "busy3", "busy4", "again"} :
         CallFrame(stack, Top(running), At(running, v))
  BY <1>1, <1>2, BusyFrame DEF RunningOK
<1>6. Above(sp, 1) = Top(running) - 1 /\ Above(sp, 2) = Top(running)
  BY <1>3, <1>4 DEF Above
<1>7. pc' = At(running, v) /\ sp' = Top(running)
  BY <1>1, <1>5, <1>6, TargetOfPair DEF Rts, CallFrame
<1>8. pc' \in ThreadLabels(running) \ {At(running, "print"), At(running, "cli")}
  BY <1>7 DEF ThreadLabels, At
<1>9. TypeOK' /\ Booted'
  <2>1. pc' \in Label /\ Booted'
    BY <1>2, <1>8 DEF Label, ThreadLabels, Booted, Code, Threads
  <2>2. sp' \in 0 .. StackMax
    BY <1>3, <1>7
  <2> QED  BY <1>1, <1>2, <2>1, <2>2 DEF TypeOK, Flags
<1>10. Frame(stack, running, pc, sp)'
  BY <1>1, <1>7, <1>8 DEF Frame
<1>11. pc \notin Masked(running) /\ pc' \notin Masked(running)
  BY <1>1, <1>2, <1>8 DEF Masked, WriteLabels, At, Code, Threads, ThreadLabels
<1> QED  BY <1>1, <1>2, <1>9, <1>10, <1>11, OwnStep DEF RunningOK

\* serial_writeline builds the rest of its frame.
LEMMA EnterStep ==
    ASSUME StacksApart, IInv, EnterWriteline
    PROVE  IInv'
<1> DEFINE T == Top(running)
<1>1. /\ pc = Enter /\ pc' = Uart /\ Booted /\ Booted' /\ polled' = p.i
      /\ UNCHANGED <<x, irq, running, ctx, busy, wire>>
      /\ data' = <<a, x>> /\ y' = 0 /\ a' = 255 /\ p' = [p EXCEPT !.z = FALSE]
  BY DEF EnterWriteline, Fetch, Booted, kernel, Enter, Uart
<1>2. TypeOK /\ RunningOK(running) /\ running \in Threads
  BY <1>1 DEF IInv, TypeOK
<1>3. T \in Nat /\ T >= 7 /\ T <= StackMax /\ StackMax \in Nat
  BY <1>2, TopRange
<1>4. sp = T - 2 /\ CallFrame(stack, T, At(running, "cli"))
  BY <1>1, <1>2, WriteFrame DEF RunningOK, Enter
<1>5. /\ Below(sp, 1) = T - 3 /\ Below(sp, 2) = T - 4 /\ Below(sp, 3) = T - 5
      /\ Below(T - 5, 1) = T - 6 /\ Below(sp, 5) = T - 7
  BY <1>3, <1>4 DEF Below
<1>6. /\ sp' = T - 7
      /\ stack' = [stack EXCEPT ![T - 5] = <<"hi", Restore>>, ![T - 6] = <<"lo", Restore>>,
                     ![T - 2] = <<"reg", a>>, ![T - 3] = <<"reg", x>>, ![T - 4] = <<"reg", y>>]
  BY <1>4, <1>5 DEF EnterWriteline, Pushed, Restore
<1>7. /\ <<"hi", Restore>> \in Cell /\ <<"lo", Restore>> \in Cell
      /\ <<"reg", a>> \in Cell /\ <<"reg", x>> \in Cell /\ <<"reg", y>> \in Cell
  BY <1>2 DEF Cell, Restore, Label, WriteLabels, TypeOK
<1>8. stack' \in [0 .. StackMax -> Cell]
  BY <1>2, <1>6, <1>7 DEF TypeOK
<1>9. /\ stack'[T - 2] = <<"reg", a>> /\ stack'[T - 3] = <<"reg", x>>
      /\ stack'[T - 4] = <<"reg", y>> /\ CallFrame(stack', T - 5, Restore)
      /\ CallFrame(stack', T, At(running, "cli"))
  <2>1. {T, T - 1, T - 2, T - 3, T - 4, T - 5, T - 6} \subseteq 0 .. StackMax
    BY <1>3
  <2>2. /\ stack'[T - 2] = <<"reg", a>> /\ stack'[T - 3] = <<"reg", x>>
        /\ stack'[T - 4] = <<"reg", y>> /\ stack'[T - 5] = <<"hi", Restore>>
        /\ stack'[T - 6] = <<"lo", Restore>>
        /\ stack'[T] = stack[T] /\ stack'[T - 1] = stack[T - 1]
    <3>1. \A n \in 0 .. StackMax :
             stack'[n] = IF n = T - 4 THEN <<"reg", y>>
                         ELSE IF n = T - 3 THEN <<"reg", x>>
                         ELSE IF n = T - 2 THEN <<"reg", a>>
                         ELSE IF n = T - 6 THEN <<"lo", Restore>>
                         ELSE IF n = T - 5 THEN <<"hi", Restore>>
                         ELSE stack[n]
      BY <1>2, <1>6 DEF TypeOK
    <3> HIDE DEF T
    <3> QED  BY <1>3, <2>1, <3>1
  <2>3. (T - 5) - 1 = T - 6
    BY <1>3
  <2> HIDE DEF T
  <2> QED  BY <1>4, <2>2, <2>3 DEF CallFrame
<1>10. \A n \in Region(1 - running) : stack'[n] = stack[n]
  <2>1. ASSUME NEW n \in Region(1 - running)
        PROVE  /\ n \in 0 .. StackMax
               /\ n # T - 2 /\ n # T - 3 /\ n # T - 4 /\ n # T - 5 /\ n # T - 6
    <3>1. \A k \in 0 .. 6 : n # T - k
      BY <1>2, TopRange
    <3>2. n \in 0 .. StackMax
      BY <1>2, RegionsApart DEF Threads
    <3> QED  BY <3>1, <3>2
  <2> QED  BY <1>2, <1>6, <2>1 DEF TypeOK
<1>11. TypeOK'
  <2>1. pc' \in Label /\ sp' \in 0 .. StackMax /\ a' \in Byte /\ y' \in Byte
    BY <1>1, <1>3, <1>6 DEF Label, WriteLabels, Uart, Byte
  <2> QED  BY <1>1, <1>2, <1>8, <2>1 DEF TypeOK, Flags
<1>12. Frame(stack, running, pc, sp)'
  <2>1. \A k \in 2 .. 4 : stack'[T - k] \in {"reg"} \X Byte
    BY <1>2, <1>9 DEF TypeOK
  <2> QED  BY <1>1, <1>6, <1>9, <2>1 DEF Frame, Top
<1>13. p.i /\ p'.i /\ pc' \in Masked(running)
  BY <1>1, <1>2 DEF RunningOK, Masked, WriteLabels, Enter, Uart, TypeOK, Flags
<1> QED  BY <1>1, <1>2, <1>10, <1>11, <1>12, <1>13, OwnStep DEF RunningOK

\* Sending a byte moves Y only.
LEMMA PutStep ==
    ASSUME StacksApart, IInv, PutByte
    PROVE  IInv'
<1>1. /\ pc = Uart /\ pc' = pc /\ Booted /\ Booted' /\ polled' = p.i
      /\ UNCHANGED <<x, sp, stack, irq, running, ctx, data>>
      /\ y < LineLength(data) /\ wire' = <<data, y>> /\ busy' \in BOOLEAN
      /\ y' = y + 1 /\ a' = PortA /\ p' = [p EXCEPT !.z = FALSE]
  BY DEF PutByte, Fetch, Booted, kernel, Uart
<1>2. TypeOK /\ RunningOK(running) /\ running \in Threads
  BY <1>1 DEF IInv, TypeOK
<1>3. TypeOK'
  <2>1. y' \in Byte /\ a' \in Byte
    <3>1. LineLength(data) \in 0 .. 255
      BY DataAssumption DEF LineLength, Byte
    <3>2. y \in 0 .. 255 /\ PortA \in 0 .. 255
      BY <1>2, DataAssumption DEF TypeOK, Byte
    <3> QED  BY <1>1, <3>1, <3>2 DEF Byte
  <2> QED  BY <1>1, <1>2, <2>1 DEF TypeOK, Flags
<1>4. Frame(stack, running, pc, sp)'
  BY <1>1, <1>2 DEF RunningOK
<1>5. p.i /\ p'.i /\ pc' \in Masked(running)
  BY <1>1, <1>2 DEF RunningOK, Masked, WriteLabels, Uart, TypeOK, Flags
<1> QED  BY <1>1, <1>2, <1>3, <1>4, <1>5, OwnStep DEF RunningOK

\* uart_write_line returns into serial_writeline.
LEMMA EndOfLineStep ==
    ASSUME StacksApart, IInv, EndOfLine
    PROVE  IInv'
<1> DEFINE T == Top(running)
<1>1. /\ pc = Uart /\ Booted /\ polled' = p.i /\ Rts(0)
      /\ UNCHANGED <<x, y, stack, irq, running, ctx, data, busy, wire>>
      /\ a' = 0 /\ p' = [p EXCEPT !.z = TRUE]
  BY DEF EndOfLine, Rts, Fetch, Booted, kernel, serial, Uart
<1>2. TypeOK /\ RunningOK(running) /\ running \in Threads
  BY <1>1 DEF IInv, TypeOK
<1>3. T \in Nat /\ T >= 7 /\ T <= StackMax /\ StackMax \in Nat
  BY <1>2, TopRange
<1>4. /\ CallFrame(stack, T, At(running, "cli")) /\ sp = T - 7
      /\ \A k \in 2 .. 4 : stack[T - k] \in {"reg"} \X Byte
      /\ CallFrame(stack, T - 5, Restore)
  BY <1>1, <1>2, WriteFrame DEF RunningOK, Uart
<1>5. Above(sp, 1) = T - 6 /\ Above(sp, 2) = T - 5
  BY <1>3, <1>4 DEF Above
<1>6. pc' = Restore /\ sp' = T - 5
  <2>1. (T - 5) - 1 = T - 6
    BY <1>3
  <2> QED  BY <1>1, <1>4, <1>5, <2>1, TargetOfPair DEF Rts, CallFrame
<1>7. TypeOK' /\ Booted'
  <2>1. pc' \in Label /\ sp' \in 0 .. StackMax /\ a' \in Byte /\ Booted'
    BY <1>1, <1>3, <1>6 DEF Label, WriteLabels, Restore, Byte, Booted
  <2> QED  BY <1>1, <1>2, <2>1 DEF TypeOK, Flags
<1>8. Frame(stack, running, pc, sp)'
  BY <1>1, <1>4, <1>6 DEF Frame, Restore, Uart
<1>9. p.i /\ p'.i /\ pc' \in Masked(running)
  BY <1>1, <1>2, <1>6 DEF RunningOK, Masked, WriteLabels, Uart, Restore, TypeOK, Flags
<1> QED  BY <1>1, <1>2, <1>7, <1>8, <1>9, OwnStep DEF RunningOK

\* serial_writeline pulls three bytes it pushed and returns to the CLI.
LEMMA LeaveStep ==
    ASSUME StacksApart, IInv, LeaveWriteline
    PROVE  IInv'
<1> DEFINE T == Top(running)
<1>1. /\ pc = Restore /\ Booted /\ polled' = p.i /\ Rts(3)
      /\ UNCHANGED <<stack, irq, running, ctx, data, busy, wire>>
      /\ a' \in Pulled(stack[Above(sp, 1)]) /\ x' \in Pulled(stack[Above(sp, 2)])
      /\ y' \in Pulled(stack[Above(sp, 3)]) /\ p' = [p EXCEPT !.z = (y' = 0)]
  BY DEF LeaveWriteline, Rts, Fetch, Booted, kernel, serial, Restore
<1>2. TypeOK /\ RunningOK(running) /\ running \in Threads
  BY <1>1 DEF IInv, TypeOK
<1>3. T \in Nat /\ T >= 7 /\ T <= StackMax /\ StackMax \in Nat
  BY <1>2, TopRange
<1>4. /\ CallFrame(stack, T, At(running, "cli")) /\ sp = T - 5
      /\ \A k \in 2 .. 4 : stack[T - k] \in {"reg"} \X Byte
  BY <1>1, <1>2, WriteFrame DEF RunningOK, Restore
<1>5. /\ Above(sp, 1) = T - 4 /\ Above(sp, 2) = T - 3 /\ Above(sp, 3) = T - 2
      /\ Above(sp, 4) = T - 1 /\ Above(sp, 5) = T
  BY <1>3, <1>4 DEF Above
<1>6. pc' = At(running, "cli") /\ sp' = T
  BY <1>1, <1>4, <1>5, TargetOfPair DEF Rts, CallFrame
<1>7. a' \in Byte /\ x' \in Byte /\ y' \in Byte
  BY <1>1, <1>4, <1>5 DEF Pulled
<1>8. TypeOK' /\ Booted'
  <2>1. pc' \in Label /\ sp' \in 0 .. StackMax /\ Booted'
    BY <1>2, <1>3, <1>6 DEF Label, ThreadLabels, At, Code, Booted, Threads
  <2> QED  BY <1>1, <1>2, <1>7, <2>1 DEF TypeOK, Flags
<1>9. Frame(stack, running, pc, sp)'
  BY <1>1, <1>6 DEF Frame, ThreadLabels, At
<1>10. p.i /\ p'.i /\ pc' \in Masked(running)
  BY <1>1, <1>2, <1>6 DEF RunningOK, Masked, WriteLabels, Restore, TypeOK, Flags
<1> QED  BY <1>1, <1>2, <1>8, <1>9, <1>10, OwnStep DEF RunningOK

\* The timer and the UM245R touch nothing of the processor's.
LEMMA HardwareStep ==
    ASSUME IInv, Timer \/ UartReady
    PROVE  IInv'
<1>1. UNCHANGED <<pc, a, x, y, sp, p, polled, stack, running, ctx, data, wire>>
  BY DEF Timer, UartReady, cpu, kernel, serial
<1>2. irq' \in BOOLEAN /\ busy' \in BOOLEAN /\ (~Booted => irq' = irq)
  BY DEF Timer, UartReady, Booted, cpu, kernel, serial, IInv, TypeOK
<1> QED  BY <1>1, <1>2 DEF IInv, TypeOK, Booted, RunningOK

\* The interrupt handler leaves the running thread as an interrupt should and
\* resumes the other one as an interrupt left it.
LEMMA IrqStep ==
    ASSUME StacksApart, IInv, Irq
    PROVE  IInv'
<1> DEFINE r == running
           o == 1 - running
           T == Top(running)
           c == ctx[o]
<1>1. Booted /\ irq /\ (~p.i \/ ~polled)
  BY DEF Irq, MayInterrupt, Booted, IInv, TypeOK
<1>2. TypeOK /\ RunningOK(r) /\ r \in Threads /\ o \in Threads /\ Waiting(stack, o, c)
  BY <1>1, RegionsApart DEF IInv, TypeOK
<1>3. T \in Nat /\ T >= 7 /\ T <= StackMax /\ StackMax \in Nat
  BY <1>2, TopRange
<1>4. pc \in Preemptible(r) /\ (p.i <=> pc = At(r, "print"))
  <2>1. p.i => pc = At(r, "print")
    BY <1>1, <1>2 DEF RunningOK
  <2>2. ~p.i => pc \notin Masked(r)
    BY <1>2 DEF RunningOK
  <2>3. pc \in ThreadLabels(r) \cup BusyLabels \cup WriteLabels
    BY <1>2 DEF RunningOK, Frame, Enter, Uart, Restore, WriteLabels
  <2>4. At(r, "print") \in Preemptible(r) /\ At(r, "print") \in Masked(r)
    BY DEF Preemptible, Masked, ThreadLabels, At
  <2> QED  BY <2>1, <2>2, <2>3, <2>4 DEF Preemptible, Masked
<1>5. /\ sp = T \/ sp = T - 2
      /\ sp \in Nat
  BY <1>2, <1>3, <1>4 DEF RunningOK, Frame, Preemptible, BusyLabels, ThreadLabels, Code,
     Enter, Uart, Restore
<1>6. /\ Below(sp, 1) = sp - 1 /\ Below(sp, 2) = sp - 2 /\ Below(sp, 3) = sp - 3
      /\ Below(sp - 3, 1) = sp - 4
  BY <1>3, <1>5 DEF Below
<1>7. /\ irq' = FALSE /\ running' = o /\ UNCHANGED <<data, busy, wire>>
      /\ ctx' = [ctx EXCEPT ![r] = [a |-> r, x |-> x, y |-> y, sp |-> sp - 3]]
      /\ a' = c.a /\ x' = c.x /\ y' = c.y /\ sp' = Above(c.sp, 3)
      /\ stack' = [stack EXCEPT ![sp] = <<"hi", pc>>, ![sp - 1] = <<"lo", pc>>,
                     ![sp - 2] = <<"p", p>>,
                     ![sp - 3] = <<"hi", IsrLabel>>, ![sp - 4] = <<"lo", IsrLabel>>]
  BY <1>6 DEF Irq, Pushed, serial
<1>8. \A n \in 0 .. StackMax :
         stack'[n] = IF n = sp - 4 THEN <<"lo", IsrLabel>>
                     ELSE IF n = sp - 3 THEN <<"hi", IsrLabel>>
                     ELSE IF n = sp - 2 THEN <<"p", p>>
                     ELSE IF n = sp - 1 THEN <<"lo", pc>>
                     ELSE IF n = sp THEN <<"hi", pc>>
                     ELSE stack[n]
  BY <1>2, <1>7 DEF TypeOK
<1>9. stack' \in [0 .. StackMax -> Cell]
  <2>1. /\ <<"hi", pc>> \in Cell /\ <<"lo", pc>> \in Cell /\ <<"p", p>> \in Cell
        /\ <<"hi", IsrLabel>> \in Cell /\ <<"lo", IsrLabel>> \in Cell
    BY <1>2 DEF Cell, Label, TypeOK
  <2> QED  BY <1>2, <1>7, <2>1 DEF TypeOK
\* The thread that was interrupted.
<1>10. Waiting(stack', r, ctx'[r])
  <2>1. /\ stack'[sp - 2] = <<"p", p>> /\ stack'[sp - 1] = <<"lo", pc>>
        /\ stack'[sp] = <<"hi", pc>>
    <3>1. {sp, sp - 1, sp - 2, sp - 3, sp - 4} \subseteq 0 .. StackMax
      BY <1>3, <1>5
    <3> QED  BY <1>5, <1>8, <3>1
  <2>2. sp = T - 2 => stack'[T] = stack[T] /\ stack'[T - 1] = stack[T - 1]
    <3>1. T \in 0 .. StackMax /\ T - 1 \in 0 .. StackMax
      BY <1>3
    <3> QED  BY <1>3, <1>8, <3>1
  <2>3. Frame(stack', r, pc, sp)
    <3>1. CASE pc \in ThreadLabels(r)
      <4>1. sp = T
        BY <1>2, <3>1 DEF RunningOK, Frame, BusyLabels, ThreadLabels, Code, Enter, Uart, Restore
      <4> QED  BY <3>1, <4>1 DEF Frame
    <3>2. CASE pc \in BusyLabels
      <4>1. /\ sp = T - 2
            /\ \E w \in {"busy2", "busy3", "busy4", "again"} : CallFrame(stack, T, At(r, w))
        BY <1>2, <3>2, BusyFrame DEF RunningOK, BusyLabels
      <4>2. \E w \in {"busy2", "busy3", "busy4", "again"} : CallFrame(stack', T, At(r, w))
        BY <2>2, <4>1 DEF CallFrame
      <4> QED  BY <3>2, <4>1, <4>2 DEF Frame
    <3> QED  BY <1>4, <3>1, <3>2 DEF Preemptible
  <2>4. /\ ctx'[r].sp = sp - 3
        /\ ctx'[r].sp + 1 = sp - 2 /\ ctx'[r].sp + 2 = sp - 1 /\ ctx'[r].sp + 3 = sp
    BY <1>2, <1>3, <1>5, <1>7 DEF TypeOK
  <2>5. p \in Flags
    BY <1>2 DEF TypeOK
  <2> QED  BY <1>4, <2>1, <2>3, <2>4, <2>5 DEF Waiting
\* The thread that is resumed.
<1>11. Waiting(stack', o, c)
  <2>1. \A n \in Region(o) : stack'[n] = stack[n]
    <3>1. ASSUME NEW n \in Region(o)
          PROVE  /\ n \in 0 .. StackMax
                 /\ n \notin {sp, sp - 1, sp - 2, sp - 3, sp - 4}
      <4>1. \A k \in 0 .. 6 : n # T - k
        BY <1>2, TopRange
      <4>2. n \in 0 .. StackMax
        BY <1>2, RegionsApart
      <4>3. \A k \in 0 .. 4 : \E m \in 0 .. 6 : sp - k = T - m
        BY <1>3, <1>5
      <4>4. sp = sp - 0
        BY <1>5
      <4> QED  BY <4>1, <4>2, <4>3, <4>4
    <3> QED  BY <1>8, <3>1
  <2> QED  BY <1>2, <2>1, WaitingKept DEF TypeOK
<1>12. PICK l \in Preemptible(o), f \in Flags :
         /\ Frame(stack', o, l, c.sp + 3)
         /\ stack'[c.sp + 1] = <<"p", f>>
         /\ stack'[c.sp + 2] = <<"lo", l>>
         /\ stack'[c.sp + 3] = <<"hi", l>>
         /\ f.i <=> l = At(o, "print")
  BY <1>11 DEF Waiting
<1>13. /\ c.sp \in Nat /\ c.sp + 3 <= StackMax
       /\ Above(c.sp, 1) = c.sp + 1 /\ Above(c.sp, 2) = c.sp + 2 /\ Above(c.sp, 3) = c.sp + 3
  <2>1. c.sp \in Nat
    <3>1. c \in [a : Byte, x : Byte, y : Byte, sp : Byte]
      BY <1>2 DEF TypeOK
    <3> QED  BY <3>1 DEF Byte
  <2>2. c.sp + 3 = Top(o) \/ c.sp + 3 = Top(o) - 2
    BY <1>12 DEF Frame, Preemptible, BusyLabels, ThreadLabels, Code, Enter, Uart, Restore
  <2>3. Top(o) \in Nat /\ Top(o) <= StackMax /\ StackMax \in Nat
    BY <1>2, TopRange
  <2> QED  BY <2>1, <2>2, <2>3 DEF Above
<1>14. pc' = l /\ p' = f /\ polled' = f.i /\ sp' = c.sp + 3
  <2>1. stack'[c.sp + 1][1] = "p" /\ stack'[c.sp + 1][2] = f
    BY <1>12
  <2>2. Target(stack'[c.sp + 2], stack'[c.sp + 3]) = l
    BY <1>12, TargetOfPair
  <2> QED  BY <1>7, <1>13, <2>1, <2>2 DEF Irq
<1>15. TypeOK' /\ Booted'
  <2>1. pc' \in Label /\ Booted'
    BY <1>2, <1>14 DEF Label, Preemptible, BusyLabels, ThreadLabels, Code, Booted, Threads
  <2>2. c \in [a : Byte, x : Byte, y : Byte, sp : Byte]
    BY <1>2 DEF TypeOK
  <2>3. ctx' \in [Threads -> [a : Byte, x : Byte, y : Byte, sp : Byte]]
    <3>1. r \in Byte /\ sp - 3 \in Byte
      BY <1>2, <1>3, <1>5, StackAssumption DEF Threads, Byte
    <3> QED  BY <1>2, <1>7, <3>1 DEF TypeOK
  <2>4. sp' \in 0 .. StackMax /\ p' \in Flags /\ polled' \in BOOLEAN
    BY <1>13, <1>14 DEF Flags
  <2> QED  BY <1>2, <1>7, <1>9, <2>1, <2>2, <2>3, <2>4 DEF TypeOK
<1>16. RunningOK(running)'
  <2>1. l \in Masked(o) <=> l = At(o, "print")
    BY <1>2 DEF Masked, Preemptible, BusyLabels, ThreadLabels, WriteLabels, At, Code, Threads
  <2> QED  BY <1>7, <1>12, <1>14, <2>1 DEF RunningOK, Flags
<1>17. 1 - o = r
  BY <1>2 DEF Threads
<1> QED  BY <1>7, <1>10, <1>15, <1>16, <1>17 DEF IInv

\* What _scheduler_init and the calls before it leave in the stack page.
LEMMA BootCells ==
    ASSUME StacksApart, IInv, Boot
    PROVE  /\ stack' \in [0 .. StackMax -> Cell]
           /\ stack'[ResetSP] = <<"hi", <<"main", "scheduler_init">> >>
           /\ stack'[ResetSP - 1] = <<"lo", <<"main", "scheduler_init">> >>
           /\ stack'[T1Top] = <<"hi", At(1, "lda")>>
           /\ stack'[T1Top - 1] = <<"lo", At(1, "lda")>>
           /\ stack'[T1Top - 2] = <<"p", [i |-> FALSE, z |-> FALSE]>>
<1> DEFINE R == ResetSP
           T == T1Top
           I0 == <<"main", "scheduler_init">>
           C0 == <<"main", "counter_init">>
           F0 == [i |-> FALSE, z |-> FALSE]
<1>1. /\ R \in Nat /\ R >= 7 /\ R <= StackMax /\ T \in Nat /\ T >= 7 /\ T <= StackMax
      /\ StackMax \in 0 .. 255 /\ (R >= T + 7 \/ T >= R + 7)
      /\ Top(0) = R /\ Top(1) = T /\ 0 \in Threads /\ 1 \in Threads
  BY StackAssumption DEF StacksApart, Depth, Top, Threads, Byte
<1>2. TypeOK /\ sp = R /\ p.i /\ polled /\ ~irq
  BY DEF Boot, IInv, Booted
<1>3. /\ Below(R, 1) = R - 1 /\ Below(R, 2) = R - 2 /\ Below(R - 2, 1) = R - 3
      /\ Below(R, 4) = R - 4 /\ Below(R - 4, 1) = R - 5 /\ Below(R, 6) = R - 6
      /\ Below(T, 1) = T - 1 /\ Below(T, 2) = T - 2 /\ Below(T, 3) = T - 3
  BY <1>1 DEF Below
<1>4. stack' =
        [[[[[[stack EXCEPT ![R] = <<"hi", I0>>, ![R - 1] = <<"lo", I0>>]
               EXCEPT ![T] = <<"hi", At(1, "lda")>>, ![T - 1] = <<"lo", At(1, "lda")>>]
               EXCEPT ![T - 2] = <<"p", F0>>]
               EXCEPT ![R - 2] = <<"hi", C0>>, ![R - 3] = <<"lo", C0>>]
               EXCEPT ![R - 4] = <<"hi", C0>>, ![R - 5] = <<"lo", C0>>]
               EXCEPT ![R - 6] = <<"reg", 0>>]
  BY <1>2, <1>3 DEF Boot, InitialStack, Pushed
<1>5. \A n \in 0 .. StackMax :
         stack'[n] = IF n = R - 6 THEN <<"reg", 0>>
                     ELSE IF n = R - 5 THEN <<"lo", C0>>
                     ELSE IF n = R - 4 THEN <<"hi", C0>>
                     ELSE IF n = R - 3 THEN <<"lo", C0>>
                     ELSE IF n = R - 2 THEN <<"hi", C0>>
                     ELSE IF n = T - 2 THEN <<"p", F0>>
                     ELSE IF n = T - 1 THEN <<"lo", At(1, "lda")>>
                     ELSE IF n = T THEN <<"hi", At(1, "lda")>>
                     ELSE IF n = R - 1 THEN <<"lo", I0>>
                     ELSE IF n = R THEN <<"hi", I0>>
                     ELSE stack[n]
  <2> HIDE DEF R, T, I0, C0, F0
  <2> QED  BY <1>2, <1>4 DEF TypeOK
<1>6. stack' \in [0 .. StackMax -> Cell]
  <2>1. /\ <<"hi", I0>> \in Cell /\ <<"lo", I0>> \in Cell /\ <<"hi", C0>> \in Cell
        /\ <<"lo", C0>> \in Cell
    BY DEF Cell, Label, BootLabels
  <2>2. <<"hi", At(1, "lda")>> \in Cell /\ <<"lo", At(1, "lda")>> \in Cell
    BY DEF Cell, Label, ThreadLabels, At, Code
  <2>3. <<"p", F0>> \in Cell /\ <<"reg", 0>> \in Cell
    <3>1. F0 \in Flags /\ 0 \in Byte
      BY DEF Flags, Byte
    <3> QED  BY <3>1 DEF Cell
  <2> HIDE DEF R, T, I0, C0, F0
  <2> QED  BY <1>2, <1>4, <2>1, <2>2, <2>3 DEF TypeOK
<1>7. /\ stack'[R] = <<"hi", I0>> /\ stack'[R - 1] = <<"lo", I0>>
      /\ stack'[T] = <<"hi", At(1, "lda")>> /\ stack'[T - 1] = <<"lo", At(1, "lda")>>
      /\ stack'[T - 2] = <<"p", F0>>
  <2>1. {R, R - 1, T, T - 1, T - 2} \subseteq 0 .. StackMax
    BY <1>1
  <2> HIDE DEF R, T, I0, C0, F0
  <2> QED  BY <1>1, <1>5, <2>1
<1> QED  BY <1>6, <1>7

\* _scheduler_init writes a first frame for thread 1 that looks as if an
\* interrupt had pushed it, and returns through its own untouched frame.
LEMMA BootStep ==
    ASSUME StacksApart, IInv, Boot
    PROVE  IInv'
<1> DEFINE R == ResetSP
           T == T1Top
           I0 == <<"main", "scheduler_init">>
           F0 == [i |-> FALSE, z |-> FALSE]
<1>1. /\ R \in Nat /\ R >= 7 /\ R <= StackMax /\ T \in Nat /\ T >= 7 /\ T <= StackMax
      /\ StackMax \in 0 .. 255 /\ (R >= T + 7 \/ T >= R + 7)
      /\ Top(0) = R /\ Top(1) = T /\ 0 \in Threads /\ 1 \in Threads
  BY StackAssumption DEF StacksApart, Depth, Top, Threads, Byte
<1>2. TypeOK /\ sp = R /\ p.i /\ polled /\ ~irq
  BY DEF Boot, IInv, Booted
<1>3. /\ Below(R, 1) = R - 1 /\ Below(R, 2) = R - 2 /\ Below(R - 2, 1) = R - 3
      /\ Below(R, 4) = R - 4 /\ Below(R - 4, 1) = R - 5 /\ Below(R, 6) = R - 6
      /\ Below(T, 1) = T - 1 /\ Below(T, 2) = T - 2 /\ Below(T, 3) = T - 3
  BY <1>1 DEF Below
<1>4. stack' \in [0 .. StackMax -> Cell]
  BY BootCells
<1>5. /\ stack'[R] = <<"hi", I0>> /\ stack'[R - 1] = <<"lo", I0>>
      /\ stack'[T] = <<"hi", At(1, "lda")>> /\ stack'[T - 1] = <<"lo", At(1, "lda")>>
      /\ stack'[T - 2] = <<"p", F0>>
  BY BootCells
<1>6. /\ pc' = At(0, "lda") /\ sp' = R /\ running' = 0 /\ a' = 0 /\ x' = R - 2
      /\ p' = [i |-> FALSE, z |-> TRUE]
      /\ ctx' = [ctx EXCEPT ![0].sp = StackMax, ![1].sp = T - 3]
      /\ UNCHANGED <<y, polled, irq, data, busy, wire>>
  BY <1>2, <1>3, <1>5, TargetOfPair DEF Boot, serial
<1>7. TypeOK' /\ Booted'
  <2>1. pc' \in Label /\ Booted'
    BY <1>6 DEF Label, ThreadLabels, At, Code, Booted
  <2>2. ctx' \in [Threads -> [a : Byte, x : Byte, y : Byte, sp : Byte]]
    <3>1. StackMax \in Byte /\ T - 3 \in Byte
      BY <1>1 DEF Byte
    <3>2. ctx \in [Threads -> [a : Byte, x : Byte, y : Byte, sp : Byte]]
      BY <1>2 DEF TypeOK
    <3> QED  BY <1>1, <1>6, <3>1, <3>2
  <2>3. a' \in Byte /\ x' \in Byte /\ sp' \in 0 .. StackMax
    BY <1>1, <1>6 DEF Byte
  <2>4. p' \in Flags
    BY <1>6 DEF Flags
  <2> QED  BY <1>1, <1>2, <1>4, <1>6, <2>1, <2>2, <2>3, <2>4 DEF TypeOK
<1>8. RunningOK(running)'
  <2>1. At(0, "lda") \in ThreadLabels(0) /\ At(0, "lda") \notin Masked(0)
    BY DEF ThreadLabels, At, Code, Masked, WriteLabels
  <2> QED  BY <1>1, <1>6, <2>1 DEF RunningOK, Frame
<1>9. Waiting(stack', 1, ctx'[1])
  <2>1. At(1, "lda") \in Preemptible(1) /\ F0 \in Flags /\ At(1, "lda") # At(1, "print")
    BY DEF Preemptible, ThreadLabels, At, Flags
  <2>2. ctx'[1].sp = T - 3
    BY <1>1, <1>2, <1>6 DEF TypeOK
  <2>3. (T - 3) + 1 = T - 2 /\ (T - 3) + 2 = T - 1 /\ (T - 3) + 3 = T
    BY <1>1
  <2>4. Frame(stack', 1, At(1, "lda"), T)
    BY <1>1 DEF Frame, ThreadLabels, At
  <2> QED  BY <1>5, <2>1, <2>2, <2>3, <2>4 DEF Waiting
<1> QED  BY <1>6, <1>7, <1>8, <1>9 DEF IInv

-----------------------------------------------------------------------------
(* The theorems.                                                            *)

\* The invariant holds at reset and every step keeps it.
THEOREM Invariance == StacksApart => (Spec => []IInv)
<1> SUFFICES ASSUME StacksApart
             PROVE  Spec => []IInv
  OBVIOUS
<1>1. Init => IInv
  <2> SUFFICES ASSUME Init
               PROVE  IInv
    OBVIOUS
  <2>1. a \in Byte /\ x \in Byte /\ y \in Byte /\ data \in Byte \X Byte
    BY DataAssumption DEF Init
  <2>2. stack \in [0 .. StackMax -> Cell]
    BY DataAssumption DEF Init, Cell
  <2>3. ctx \in [Threads -> [a : Byte, x : Byte, y : Byte, sp : Byte]]
    BY DataAssumption DEF Init
  <2>4. pc \in Label /\ p \in Flags
    BY DEF Init, Label, BootLabels, Flags
  <2>5. sp \in 0 .. StackMax
    BY StackAssumption DEF Init
  <2>6. TypeOK
    BY <2>1, <2>2, <2>3, <2>4, <2>5 DEF Init, TypeOK
  <2> QED  BY <2>6 DEF Init, IInv, Booted
<1>2. IInv /\ [Next]_vars => IInv'
  <2> SUFFICES ASSUME IInv, [Next]_vars
               PROVE  IInv'
    OBVIOUS
  <2>1. CASE Boot
    BY <2>1, BootStep
  <2>2. ASSUME NEW t \in Threads, ThreadStep(t)
        PROVE  IInv'
    BY <2>2, StraightStep, CallStep DEF ThreadStep
  <2>3. CASE SharedStep
    BY <2>3, BusyStep, BusyReturn, EnterStep, PutStep, EndOfLineStep, LeaveStep DEF SharedStep
  <2>4. CASE Irq
    BY <2>4, IrqStep
  <2>5. CASE Timer \/ UartReady
    BY <2>5, HardwareStep
  <2>6. CASE UNCHANGED vars
    <3>1. UNCHANGED <<pc, a, x, y, sp, p, polled, stack, irq, running, ctx, data, busy, wire>>
      BY <2>6 DEF vars, cpu, kernel, serial
    <3> QED  BY <3>1 DEF IInv, TypeOK, Booted, RunningOK
  <2> QED  BY <2>1, <2>2, <2>3, <2>4, <2>5, <2>6 DEF Next, Instruction
<1> QED  BY <1>1, <1>2, PTL DEF Spec

\* Every register and memory cell holds a value of its kind.
THEOREM TypeCorrectness == StacksApart => (Spec => []TypeOK)
<1>1. IInv => TypeOK
  BY DEF IInv
<1> QED  BY <1>1, Invariance, PTL

\* In a state of the invariant the waiting thread's return address, flags and
\* stack are the ones its interrupt left.
LEMMA WaitingView ==
    ASSUME StacksApart, IInv, Booted
    PROVE  LET o == 1 - running IN
             /\ running \in Threads /\ o \in Threads
             /\ View(o).pc \in Preemptible(o)
             /\ View(running).pc = pc
<1> DEFINE o == 1 - running
           c == ctx[o]
<1>1. running \in Threads /\ o \in Threads /\ o # running
  BY DEF IInv, TypeOK, Threads
<1>2. PICK l \in Preemptible(o), f \in Flags :
         /\ Frame(stack, o, l, c.sp + 3)
         /\ stack[c.sp + 2] = <<"lo", l>>
         /\ stack[c.sp + 3] = <<"hi", l>>
  BY DEF IInv, Waiting
<1>3. Above(c.sp, 2) = c.sp + 2 /\ Above(c.sp, 3) = c.sp + 3
  <2>1. c.sp \in Nat
    <3>1. c \in [a : Byte, x : Byte, y : Byte, sp : Byte]
      BY <1>1 DEF IInv, TypeOK
    <3> QED  BY <3>1 DEF Byte
  <2>2. c.sp + 3 = Top(o) \/ c.sp + 3 = Top(o) - 2
    BY <1>2 DEF Frame, Preemptible, BusyLabels, ThreadLabels, Code, Enter, Uart, Restore
  <2>3. Top(o) \in Nat /\ Top(o) <= StackMax /\ StackMax \in Nat
    BY <1>1, TopRange
  <2> QED  BY <2>1, <2>2, <2>3 DEF Above
<1>4. Target(stack[Above(c.sp, 2)], stack[Above(c.sp, 3)]) = l
  BY <1>2, <1>3, TargetOfPair
<1> QED  BY <1>1, <1>2, <1>4 DEF View

\* Control stays in the program: every address that an RTS or RTI finds is the
\* one pushed for it, in both stacks.
THEOREM ControlSafety == StacksApart => (Spec => []ControlStaysInProgram)
<1> SUFFICES ASSUME StacksApart
             PROVE  Spec => []ControlStaysInProgram
  OBVIOUS
<1>1. IInv => ControlStaysInProgram
  <2> SUFFICES ASSUME IInv
               PROVE  ControlStaysInProgram
    OBVIOUS
  <2>1. CASE ~Booted
    BY <2>1 DEF ControlStaysInProgram, Booted, Wild
  <2>2. CASE Booted
    <3>1. /\ running \in Threads /\ View(1 - running).pc \in Preemptible(1 - running)
          /\ View(running).pc = pc
      BY <2>2, WaitingView
    <3>2. pc # Wild
      BY <2>2, <3>1 DEF IInv, RunningOK, Frame, Wild, ThreadLabels, BusyLabels, Enter, Uart,
         Restore, Code
    <3>3. Wild \notin Preemptible(1 - running)
      BY DEF Wild, Preemptible, ThreadLabels, BusyLabels, Code
    <3>4. \A t \in Threads : t = running \/ t = 1 - running
      BY <3>1 DEF Threads
    <3> QED  BY <3>1, <3>2, <3>3, <3>4 DEF ControlStaysInProgram
  <2> QED  BY <2>1, <2>2
<1> QED  BY <1>1, Invariance, PTL

\* The critical section works: at most one thread is inside uart_write_line, so
\* _data has one user at a time.
THEOREM WriterExclusion == StacksApart => (Spec => []OneWriter)
<1> SUFFICES ASSUME StacksApart
             PROVE  Spec => []OneWriter
  OBVIOUS
<1>1. IInv => OneWriter
  <2> SUFFICES ASSUME IInv, Booted
               PROVE  OneWriter
    BY DEF OneWriter, Printing
  <2>1. running \in Threads /\ View(1 - running).pc \in Preemptible(1 - running)
    BY WaitingView
  <2>2. ~Printing(1 - running)
    BY <2>1 DEF Printing, Preemptible, ThreadLabels, BusyLabels, Code
  <2> QED  BY <2>1, <2>2 DEF OneWriter, Threads
<1> QED  BY <1>1, Invariance, PTL
=============================================================================
