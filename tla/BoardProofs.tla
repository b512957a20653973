------------------------------ MODULE BoardProofs -------------------------------
(***************************************************************************)
(* The invariants of Board and the theorems they give, for every width of  *)
(* a byte, every text and every size of the chip's queues, until an LED    *)
(* command is given.                                                       *)
(***************************************************************************)
EXTENDS Board, Flattening

-----------------------------------------------------------------------------
(* What the accesses are for, and which may follow which.                   *)

Low == OutA({}, {"WE"})
High == OutA({"WE"}, {})
ReadLow == OutA({}, {"RD"})
ReadHigh == OutA({"RD"}, {})
SelectLow == OutA({}, {"CS"})
SelectHigh == OutA({"CS"}, {})
One == OutA({"MOSI"}, {})
Zero == OutA({}, {"MOSI"})
ClockHigh == OutA({"CLK"}, {})

Puts == {PutB(b) : b \in Byte}
PrintAccesses == {DirB("out"), Wait("TXE"), Low, High} \cup Puts
ReadAccesses == {DirB("in"), Wait("RXF"), ReadLow, GetB, ReadHigh, Return}
ShiftAccesses == {One, Zero, ClockHigh, FlipA("CLK")}
Accesses == PrintAccesses \cup ReadAccesses \cup ShiftAccesses \cup {SelectLow, SelectHigh}

Kind(a) ==
    CASE a \in Puts -> "put"
      [] a = DirB("out") -> "out"
      [] a = Wait("TXE") -> "wait"
      [] a = Low -> "low"
      [] a = High -> "high"
      [] a = DirB("in") -> "in"
      [] a = Wait("RXF") -> "waitKey"
      [] a = ReadLow -> "readLow"
      [] a = GetB -> "get"
      [] a = ReadHigh -> "readHigh"
      [] a = Return -> "return"
      [] a = One -> "one"
      [] a = Zero -> "zero"
      [] a = ClockHigh -> "clockHigh"
      [] a = FlipA("CLK") -> "flip"
      [] a = SelectLow -> "selectLow"
      [] a = SelectHigh -> "selectHigh"

\* The kinds of the accesses that may follow one, "idle" when none does.
Then(k) ==
    CASE k = "out" -> {"wait"}
      [] k = "wait" -> {"put", "out", "idle"}
      [] k = "put" -> {"low"}
      [] k = "low" -> {"high"}
      [] k = "high" -> {"wait", "out", "selectLow", "idle"}
      [] k = "in" -> {"waitKey"}
      [] k = "waitKey" -> {"readLow"}
      [] k = "readLow" -> {"get"}
      [] k = "get" -> {"readHigh"}
      [] k = "readHigh" -> {"return"}
      [] k = "return" -> {"idle"}
      [] k \in {"one", "zero"} -> {"clockHigh"}
      [] k = "clockHigh" -> {"flip"}
      [] k = "flip" -> {"one", "zero", "idle"}
      [] k = "selectLow" -> {"idle"}
      [] k = "selectHigh" -> {"out"}

\* The kind of the first access of t, and the accesses of t follow one another.
First(t) == IF t = <<>> THEN "idle" ELSE Kind(t[1])
Linked(t) == \A k \in 1 .. Len(t) - 1 : Kind(t[k + 1]) \in Then(Kind(t[k]))
Ends(t) == t # <<>> => "idle" \in Then(Kind(t[Len(t)]))
Routine(t) == t \in Seq(Accesses) /\ Linked(t) /\ Ends(t)

Final(t) == Kind(t[Len(t)])

\* The byte that an access is about to print, the bit that it is about to shift out.
ByteOf == [a \in Accesses |-> IF a \in Puts THEN <<a.byte>> ELSE <<>>]
BitOf == [a \in Accesses |-> IF a = One THEN <<1>> ELSE IF a = Zero THEN <<0>> ELSE <<>>]

-----------------------------------------------------------------------------
(* The invariant of a program that runs.                                    *)

Driven == {"WE", "RD", "MOSI", "CLK", "CS"}
Here == First(todo)

\* On the board: the latches, the direction of port B and the chip's queues at each access.
AtChip ==
    /\ ddra = Driven
    /\ "WE" \in ora <=> Here # "high"
    /\ "RD" \in ora <=> Here \notin {"get", "readHigh"}
    /\ "CLK" \in ora <=> Here = "flip"
    /\ Here \in {"wait", "put", "low", "high"} => ddrb = "out"
    /\ Here \in {"waitKey", "readLow", "get", "readHigh"} => ddrb = "in"
    /\ Here \in {"put", "low", "high"} => Len(tx) < TxCap
    /\ Here \in {"readLow", "get", "readHigh"} => rx # <<>>
    /\ Here = "readHigh" => val = Head(rx)
    /\ Here \in {"one", "zero", "clockHigh", "flip"} => "CS" \notin ora
    /\ Here = "selectHigh" => mode = "shell"
    /\ mode = "spi" => "CS" \notin ora \/ IsIn(SelectLow)

\* On the simulator there is only the printing.
AtSimulator ==
    /\ todo \in Seq(PrintAccesses) /\ mode = "shell" /\ rx = <<>>
    /\ Here = "high" => um = "WRITE_LOW"

\* What is delivered, what is on the port and what is left make up what was asked.
OnPort == IF Here \in {"low", "high"} THEN <<orb>> ELSE <<>>
BitOnPort ==
    IF Here \in {"clockHigh", "flip"} THEN <<IF "MOSI" \in ora THEN 1 ELSE 0>> ELSE <<>>
Returned == IF Here = "return" THEN <<val>> ELSE <<>>
Histories ==
    /\ asked = Cat(tx, Cat(OnPort, Mapped(ByteOf, todo)))
    /\ want = Cat(slave, Cat(BitOnPort, Mapped(BitOf, todo)))
    /\ typed = Cat(Returned, rx)

RunInv ==
    /\ Routine(todo) /\ Histories
    /\ hw = "um245r" => AtChip
    /\ hw = "simulator" => AtSimulator

-----------------------------------------------------------------------------
(* The invariant of a program that starts.                                  *)

Start ==
    <<OutA({"CS"}, {"CLK"}), DirA({"MOSI", "CS", "CLK"}), DirB("out"), PutB(0),
      DirA({"WE", "RD"}), OutA({"WE", "RD"}, {})>>
Banner == IF hw = "um245r" THEN serial_writeline(Motd) \o serial_writeline(Prompt) ELSE <<>>

\* The last n accesses of Start are left.
Starts(n) ==
    /\ todo \in Seq(Accesses \cup {Start[k] : k \in 1 .. 6})
    /\ Len(todo) = n + Len(Banner)
    /\ \A k \in 1 .. n : todo[k] = Start[(6 - n) + k]
    /\ \A k \in 1 .. Len(Banner) : todo[n + k] = Banner[k]

\* The strobes' latches are high before they become outputs.
BootInv ==
    /\ tx = <<>> /\ slave = <<>> /\ want = <<>> /\ typed = rx /\ mode = "shell"
    /\ asked = Mapped(ByteOf, Banner)
    /\ \/ /\ hw = "um245r"
          /\ \E n \in 1 .. 6 :
               /\ Starts(n)
               /\ n \in {5, 6} => ddra = {}
               /\ n \in {2, 3, 4} => ddra = {"MOSI", "CS", "CLK"}
               /\ n = 1 => ddra = Driven
               /\ n < 6 => {"WE", "RD", "CS"} \subseteq ora /\ "CLK" \notin ora
       \/ /\ hw = "simulator" /\ rx = <<>> /\ um = "UNDEFINED_STATE"
          /\ \E n \in 1 .. 4 : Starts(n)

\* The program is never further ahead of the host than one call.
OneCall == \E s \in Texts \cup {Motd} : Len(asked) <= Len(tx) + (Len(s) + Len(Prompt) + 2)

Inv == TypeOK /\ OneCall /\ (BootInv \/ RunInv)

-----------------------------------------------------------------------------
(* The constants and the accesses.                                          *)

\* What the assumptions say of the constants, in one place.
LEMMA Constants ==
    /\ Width \in Nat /\ Width > 0 /\ TxCap \in Nat /\ TxCap > 0 /\ RxCap \in Nat /\ RxCap > 0
    /\ 0 \in Byte /\ Enter \in Byte /\ Newline \in Byte /\ Bar \in Byte /\ Keys \subseteq Byte
    /\ Texts \subseteq Seq(Byte) /\ Motd \in Seq(Byte) /\ Prompt \in Seq(Byte)
    /\ Hardware \subseteq {"um245r", "simulator"}
<1>1. Width \in 0 .. Width
  BY BoardAssumption
<1> DEFINE m == 2^Width
<1>2. m \in Nat \ {0}
  BY <1>1, PowerAssumption
<1> HIDE DEF m
<1>3. 0 \in 0 .. m - 1
  BY <1>2
<1> QED BY <1>3, BoardAssumption DEF Byte, m

\* The kind of every access.
LEMMA Kinds ==
    /\ \A b \in Byte : Kind(PutB(b)) = "put"
    /\ Kind(DirB("out")) = "out" /\ Kind(Wait("TXE")) = "wait" /\ Kind(Low) = "low"
    /\ Kind(High) = "high" /\ Kind(DirB("in")) = "in" /\ Kind(Wait("RXF")) = "waitKey"
    /\ Kind(ReadLow) = "readLow" /\ Kind(GetB) = "get" /\ Kind(ReadHigh) = "readHigh"
    /\ Kind(Return) = "return" /\ Kind(One) = "one" /\ Kind(Zero) = "zero"
    /\ Kind(ClockHigh) = "clockHigh" /\ Kind(FlipA("CLK")) = "flip"
    /\ Kind(SelectLow) = "selectLow" /\ Kind(SelectHigh) = "selectHigh"
<1> USE DEF Kind, Puts, PutB, DirB, Wait, Low, High, ReadLow, GetB, ReadHigh, Return, One, Zero,
            ClockHigh, FlipA, SelectLow, SelectHigh, OutA
<1>1. \A b \in Byte : Kind(PutB(b)) = "put"
  OBVIOUS
<1>2. Kind(DirB("out")) = "out" /\ Kind(Wait("TXE")) = "wait" /\ Kind(Low) = "low"
  OBVIOUS
<1>3. Kind(High) = "high" /\ Kind(DirB("in")) = "in" /\ Kind(Wait("RXF")) = "waitKey"
  OBVIOUS
<1>4. Kind(ReadLow) = "readLow" /\ Kind(GetB) = "get"
  OBVIOUS
<1>5. Kind(ReadHigh) = "readHigh" /\ Kind(Return) = "return"
  OBVIOUS
<1>6. Kind(One) = "one"
  OBVIOUS
<1>7. Kind(Zero) = "zero"
  OBVIOUS
<1>8. Kind(ClockHigh) = "clockHigh"
  OBVIOUS
<1>9. Kind(FlipA("CLK")) = "flip"
  OBVIOUS
<1>10. Kind(SelectLow) = "selectLow"
  OBVIOUS
<1>11. Kind(SelectHigh) = "selectHigh"
  OBVIOUS
<1> HIDE DEF Kind, Puts, PutB, DirB, Wait, Low, High, ReadLow, GetB, ReadHigh, Return, One, Zero,
             ClockHigh, FlipA, SelectLow, SelectHigh, OutA
<1> QED BY <1>1, <1>2, <1>3, <1>4, <1>5, <1>6, <1>7, <1>8, <1>9, <1>10, <1>11

\* An access is known by its kind, but for the byte of a "put".
LEMMA KindOf ==
    ASSUME NEW a \in Accesses
    PROVE  /\ Kind(a) = "put" => a \in Puts
           /\ Kind(a) = "out" => a = DirB("out")
           /\ Kind(a) = "wait" => a = Wait("TXE")
           /\ Kind(a) = "low" => a = Low
           /\ Kind(a) = "high" => a = High
           /\ Kind(a) = "in" => a = DirB("in")
           /\ Kind(a) = "waitKey" => a = Wait("RXF")
           /\ Kind(a) = "readLow" => a = ReadLow
           /\ Kind(a) = "get" => a = GetB
           /\ Kind(a) = "readHigh" => a = ReadHigh
           /\ Kind(a) = "return" => a = Return
           /\ Kind(a) = "one" => a = One
           /\ Kind(a) = "zero" => a = Zero
           /\ Kind(a) = "clockHigh" => a = ClockHigh
           /\ Kind(a) = "flip" => a = FlipA("CLK")
           /\ Kind(a) = "selectLow" => a = SelectLow
           /\ Kind(a) = "selectHigh" => a = SelectHigh
           /\ Kind(a) \in {"put", "out", "wait", "low", "high", "in", "waitKey", "readLow", "get",
                           "readHigh", "return", "one", "zero", "clockHigh", "flip",
                           "selectLow", "selectHigh"}
BY Kinds DEF Accesses, PrintAccesses, ReadAccesses, ShiftAccesses, Puts

\* What each kind of access stands for.
LEMMA StandFor ==
    /\ Stands(ByteOf, Accesses, Byte) /\ Stands(BitOf, Accesses, {0, 1})
    /\ \A a \in Accesses : /\ Kind(a) # "put" => ByteOf[a] = <<>>
                           /\ Kind(a) = "put" => ByteOf[a] = <<a.byte>> /\ a.byte \in Byte
                           /\ Kind(a) = "one" => BitOf[a] = <<1>>
                           /\ Kind(a) = "zero" => BitOf[a] = <<0>>
                           /\ Kind(a) \notin {"one", "zero"} => BitOf[a] = <<>>
<1>1. \A a \in Puts : a.byte \in Byte /\ a \in Accesses /\ Kind(a) = "put"
  <2>1. \A b \in Byte : PutB(b).byte = b
    BY DEF PutB
  <2> QED BY <2>1, Kinds DEF Puts, Accesses, PrintAccesses
<1>2. Stands(ByteOf, Accesses, Byte)
  <2>1. ASSUME NEW a \in Accesses
        PROVE  (IF a \in Puts THEN <<a.byte>> ELSE <<>>) \in Seq(Byte)
    <3>1. CASE a \in Puts
      BY <1>1, <3>1
    <3>2. CASE a \notin Puts
      BY <3>2
    <3> QED BY <3>1, <3>2
  <2> QED BY <2>1 DEF Stands, ByteOf
<1>3. Stands(BitOf, Accesses, {0, 1})
  <2>1. <<1>> \in Seq({0, 1}) /\ <<0>> \in Seq({0, 1}) /\ <<>> \in Seq({0, 1})
    OBVIOUS
  <2> QED BY <2>1 DEF Stands, BitOf
<1>4. ASSUME NEW a \in Accesses
      PROVE  /\ Kind(a) # "put" => ByteOf[a] = <<>>
             /\ Kind(a) = "put" => ByteOf[a] = <<a.byte>> /\ a.byte \in Byte
  <2>1. ByteOf[a] = IF a \in Puts THEN <<a.byte>> ELSE <<>>
    BY DEF ByteOf
  <2> QED BY <1>1, <2>1, KindOf
<1>5. ASSUME NEW a \in Accesses
      PROVE  /\ Kind(a) = "one" => BitOf[a] = <<1>>
             /\ Kind(a) = "zero" => BitOf[a] = <<0>>
             /\ Kind(a) \notin {"one", "zero"} => BitOf[a] = <<>>
  <2>1. BitOf[a] = IF a = One THEN <<1>> ELSE IF a = Zero THEN <<0>> ELSE <<>>
    BY DEF BitOf
  <2> QED BY <2>1, Kinds, KindOf
<1> QED BY <1>2, <1>3, <1>4, <1>5

-----------------------------------------------------------------------------
(* Routines.                                                                *)

\* A sequence of accesses that follow one another, and the bytes it prints and the bits
\* it shifts out.
Code(t, s, z) ==
    /\ t \in Seq(Accesses) /\ t # <<>> /\ Linked(t)
    /\ Mapped(ByteOf, t) = s /\ Mapped(BitOf, t) = z

\* One access.
LEMMA CodeOne ==
    ASSUME NEW a \in Accesses
    PROVE  /\ Code(<<a>>, ByteOf[a], BitOf[a])
           /\ First(<<a>>) = Kind(a) /\ Final(<<a>>) = Kind(a)
<1>1. Mapped(ByteOf, <<a>>) = ByteOf[a] /\ Mapped(BitOf, <<a>>) = BitOf[a]
  BY StandFor, MappedOne
<1> DEFINE t == <<a>>
<1>2. t \in Seq(Accesses) /\ Len(t) = 1 /\ t[1] = a /\ t # <<>>
  OBVIOUS
<1> HIDE DEF t
<1>3. Linked(t) /\ First(t) = Kind(a) /\ Final(t) = Kind(a)
  BY <1>2 DEF Linked, First, Final
<1> QED BY <1>1, <1>2, <1>3 DEF Code, t

\* One sequence after another that it may follow.
LEMMA CodeConcat ==
    ASSUME NEW t, NEW s, NEW z, Code(t, s, z), NEW u, NEW p, NEW q, Code(u, p, q),
           First(u) \in Then(Final(t))
    PROVE  /\ Code(Cat(t, u), Cat(s, p), Cat(z, q))
           /\ First(Cat(t, u)) = First(t) /\ Final(Cat(t, u)) = Final(u)
<1>1. t \in Seq(Accesses) /\ u \in Seq(Accesses) /\ t # <<>> /\ u # <<>>
  BY DEF Code
<1> DEFINE c == Cat(t, u)
           m == Len(t)
           n == Len(u)
<1>2. m \in Nat /\ n \in Nat /\ m > 0 /\ n > 0
  BY <1>1, LenProperties, EmptySeq
<1>3. c \in Seq(Accesses) /\ Len(c) = m + n
      /\ \A i \in 1 .. m + n : c[i] = IF i <= m THEN t[i] ELSE u[i - m]
  BY <1>1, ConcatProperties, Zenon DEF Cat
<1>4. Mapped(ByteOf, c) = Cat(s, p)
  <2>1. Mapped(ByteOf, t) = s /\ Mapped(ByteOf, u) = p
    BY DEF Code
  <2> QED BY <1>1, <2>1, StandFor, MappedConcat
<1>5. Mapped(BitOf, c) = Cat(z, q)
  <2>1. Mapped(BitOf, t) = z /\ Mapped(BitOf, u) = q
    BY DEF Code
  <2> QED BY <1>1, <2>1, StandFor, MappedConcat
<1> HIDE DEF c, m, n
<1>6. c # <<>> /\ c[1] = t[1] /\ c[m + n] = u[n]
  <2>1. 1 \in 1 .. m + n /\ 1 <= m /\ m + n \in 1 .. m + n /\ ~(m + n <= m) /\ (m + n) - m = n
    BY <1>2
  <2>2. c # <<>>
    BY <1>2, <1>3, EmptySeq
  <2> QED BY <1>3, <2>1, <2>2
<1>7. Linked(c)
  <2> SUFFICES ASSUME NEW k \in 1 .. (m + n) - 1
               PROVE  Kind(c[k + 1]) \in Then(Kind(c[k]))
    BY <1>3 DEF Linked
  <2>0. k \in 1 .. m + n /\ k + 1 \in 1 .. m + n
    BY <1>2
  <2>1. CASE k < m
    <3>1. k <= m /\ k + 1 <= m /\ k \in 1 .. m - 1
      BY <1>2, <2>1
    <3>2. c[k] = t[k] /\ c[k + 1] = t[k + 1]
      BY <1>3, <2>0, <3>1
    <3>3. Kind(t[k + 1]) \in Then(Kind(t[k]))
      BY <3>1 DEF Code, Linked, m
    <3> QED BY <3>2, <3>3
  <2>2. CASE k = m
    <3>1. k <= m /\ ~(k + 1 <= m) /\ (k + 1) - m = 1
      BY <1>2, <2>2
    <3>2. c[k] = t[m] /\ c[k + 1] = u[1]
      BY <1>3, <2>0, <2>2, <3>1
    <3>3. Kind(u[1]) \in Then(Kind(t[m]))
      BY <1>1 DEF First, Final, m
    <3> QED BY <3>2, <3>3
  <2>3. CASE k > m
    <3>1. ~(k <= m) /\ ~(k + 1 <= m) /\ (k + 1) - m = (k - m) + 1 /\ k - m \in 1 .. n - 1
      BY <1>2, <2>3
    <3>2. c[k] = u[k - m] /\ c[k + 1] = u[(k - m) + 1]
      BY <1>3, <2>0, <3>1
    <3>3. Kind(u[(k - m) + 1]) \in Then(Kind(u[k - m]))
      BY <3>1 DEF Code, Linked, n
    <3> QED BY <3>2, <3>3
  <2> QED BY <1>2, <2>1, <2>2, <2>3
<1>8. First(c) = First(t) /\ Final(c) = Final(u)
  BY <1>1, <1>3, <1>6 DEF First, Final, n
<1> QED BY <1>3, <1>4, <1>5, <1>6, <1>7, <1>8 DEF Code, c

\* One access more.
LEMMA CodeAppend ==
    ASSUME NEW t, NEW s, NEW z, Code(t, s, z), NEW a \in Accesses, Kind(a) \in Then(Final(t))
    PROVE  /\ Code(Append(t, a), Cat(s, ByteOf[a]), Cat(z, BitOf[a]))
           /\ First(Append(t, a)) = First(t) /\ Final(Append(t, a)) = Kind(a)
<1> DEFINE u == <<a>>
<1>1. Code(u, ByteOf[a], BitOf[a]) /\ First(u) = Kind(a) /\ Final(u) = Kind(a)
  BY CodeOne
<1>2. Append(t, a) = Cat(t, u)
  BY AppendIsCat DEF Code
<1> HIDE DEF u
<1>3. /\ Code(Cat(t, u), Cat(s, ByteOf[a]), Cat(z, BitOf[a]))
      /\ First(Cat(t, u)) = First(t) /\ Final(Cat(t, u)) = Final(u)
  BY <1>1, CodeConcat
<1> QED BY <1>1, <1>2, <1>3

\* What follows the last access.
LEMMA CodeRoutine ==
    ASSUME NEW t, NEW s, NEW z, Code(t, s, z), "idle" \in Then(Final(t))
    PROVE  Routine(t) /\ t # <<>>
BY DEF Code, Routine, Ends, Final

\* The rest of a routine is one, and begins with what may follow its first access.
LEMMA RoutineTail ==
    ASSUME NEW t, Routine(t), t # <<>>
    PROVE  /\ Head(t) \in Accesses /\ First(t) = Kind(Head(t)) /\ Routine(Tail(t))
           /\ First(Tail(t)) \in Then(First(t))
<1>1. t \in Seq(Accesses) /\ Linked(t) /\ Ends(t)
  BY DEF Routine
<1> DEFINE u == Tail(t)
           n == Len(t)
<1>2. /\ Head(t) \in Accesses /\ Head(t) = t[1] /\ u \in Seq(Accesses) /\ n \in Nat /\ n > 0
      /\ Len(u) = n - 1 /\ \A i \in 1 .. Len(u) : u[i] = t[i + 1]
  BY <1>1, HeadTailProperties, LenProperties, EmptySeq
<1>3. First(t) = Kind(Head(t))
  BY <1>2 DEF First
<1> HIDE DEF u
<1>4. Linked(u)
  <2> SUFFICES ASSUME NEW k \in 1 .. Len(u) - 1
               PROVE  Kind(u[k + 1]) \in Then(Kind(u[k]))
    BY DEF Linked
  <2>1. k \in 1 .. Len(u) /\ k + 1 \in 1 .. Len(u) /\ k + 1 \in 1 .. n - 1
    BY <1>2
  <2>2. u[k] = t[k + 1] /\ u[k + 1] = t[(k + 1) + 1]
    BY <1>2, <2>1
  <2> QED BY <1>1, <2>1, <2>2 DEF Linked
<1>5. CASE u = <<>>
  <2>1. n = 1
    BY <1>2, <1>5
  <2>2. "idle" \in Then(Kind(t[1]))
    BY <1>1, <2>1 DEF Ends
  <2> QED BY <1>1, <1>2, <1>3, <1>4, <1>5, <2>2 DEF First, Routine, Ends, u
<1>6. CASE u # <<>>
  <2>1. Len(u) > 0 /\ n > 1 /\ 1 \in 1 .. n - 1 /\ 1 \in 1 .. Len(u) /\ Len(u) \in 1 .. Len(u)
    BY <1>2, <1>6, EmptySeq
  <2>2. u[1] = t[1 + 1] /\ u[Len(u)] = t[n]
    <3>1. u[Len(u)] = t[Len(u) + 1] /\ Len(u) + 1 = n
      BY <1>2, <2>1
    <3> QED BY <1>2, <2>1, <3>1
  <2>3. Kind(t[1 + 1]) \in Then(Kind(t[1]))
    BY <1>1, <2>1 DEF Linked
  <2>4. Ends(u)
    BY <1>1, <2>2 DEF Ends
  <2> QED BY <1>2, <1>3, <1>4, <1>6, <2>2, <2>3, <2>4 DEF First, Routine, u
<1> QED BY <1>5, <1>6

\* A sequence of two, three, four and six elements, element by element.
LEMMA Listed ==
    ASSUME NEW a, NEW b, NEW c, NEW d, NEW e, NEW f
    PROVE  /\ <<a, b>> = Append(<<a>>, b)
           /\ <<a, b, c>> = Append(<<a, b>>, c)
           /\ <<a, b, c, d>> = Append(<<a, b, c>>, d)
           /\ <<a, b, c, d, e, f>> = Append(Append(<<a, b, c, d>>, e), f)
OBVIOUS

\* Nothing added to nothing.
LEMMA CatNothing ==
    ASSUME NEW X, NEW s \in Seq(X)
    PROVE  Cat(s, <<>>) = s /\ Cat(<<>>, s) = s
BY ConcatEmptySeq DEF Cat

\* What an access does not stand for changes nothing.
LEMMA CodeQuiet ==
    ASSUME NEW t, NEW s, NEW z, Code(t, s, z), NEW a \in Accesses, Kind(a) \in Then(Final(t)),
           Kind(a) \notin {"put", "one", "zero"}
    PROVE  /\ Code(Append(t, a), s, z)
           /\ First(Append(t, a)) = First(t) /\ Final(Append(t, a)) = Kind(a)
<1>1. ByteOf[a] = <<>> /\ BitOf[a] = <<>>
  BY StandFor
<1>2. s \in Seq(Byte) /\ z \in Seq({0, 1})
  BY StandFor, MappedType DEF Code
<1>3. Cat(s, <<>>) = s /\ Cat(z, <<>>) = z
  BY <1>2, CatNothing
<1>4. Code(Append(t, a), Cat(s, ByteOf[a]), Cat(z, BitOf[a]))
  BY CodeAppend
<1> QED BY <1>1, <1>3, <1>4, CodeAppend

\* The accesses that print a byte.
LEMMA PrintByteCode ==
    ASSUME NEW b \in Byte
    PROVE  /\ Code(PrintByte(b), <<b>>, <<>>) /\ PrintByte(b) \in Seq(PrintAccesses)
           /\ First(PrintByte(b)) = "wait" /\ Final(PrintByte(b)) = "high"
<1> DEFINE w == Wait("TXE")
           p == PutB(b)
<1>1. /\ w \in Accesses /\ Kind(w) = "wait" /\ p \in Accesses /\ Kind(p) = "put"
      /\ Low \in Accesses /\ Kind(Low) = "low" /\ High \in Accesses /\ Kind(High) = "high"
  BY Kinds DEF Accesses, PrintAccesses, Puts
<1>2. p.byte = b
  BY DEF PutB
<1> HIDE DEF w, p
<1>3. Code(<<w>>, <<>>, <<>>) /\ First(<<w>>) = "wait" /\ Final(<<w>>) = "wait"
  <2>1. ByteOf[w] = <<>> /\ BitOf[w] = <<>>
    BY <1>1, StandFor
  <2> QED BY <1>1, <2>1, CodeOne
<1>4. Code(<<w, p>>, <<b>>, <<>>) /\ First(<<w, p>>) = "wait" /\ Final(<<w, p>>) = "put"
  <2>1. ByteOf[p] = <<b>> /\ BitOf[p] = <<>>
    BY <1>1, <1>2, StandFor
  <2>2. Cat(<<>>, <<b>>) = <<b>> /\ Cat(<<>>, <<>>) = <<>>
    <3>1. <<b>> \in Seq(Byte) /\ <<>> \in Seq(Byte)
      OBVIOUS
    <3> QED BY <3>1, CatNothing
  <2>3. Kind(p) \in Then(Final(<<w>>))
    BY <1>1, <1>3 DEF Then
  <2>4. Code(Append(<<w>>, p), Cat(<<>>, ByteOf[p]), Cat(<<>>, BitOf[p]))
    BY <1>1, <1>3, <2>3, CodeAppend
  <2>5. First(Append(<<w>>, p)) = "wait" /\ Final(Append(<<w>>, p)) = "put"
    BY <1>1, <1>3, <2>3, CodeAppend
  <2>6. <<w, p>> = Append(<<w>>, p)
    BY Listed
  <2> QED BY <2>1, <2>2, <2>4, <2>5, <2>6
<1>5. Code(<<w, p, Low>>, <<b>>, <<>>) /\ First(<<w, p, Low>>) = "wait" /\ Final(<<w, p, Low>>) = "low"
  <2>1. Kind(Low) \in Then(Final(<<w, p>>))
    BY <1>1, <1>4 DEF Then
  <2>2. <<w, p, Low>> = Append(<<w, p>>, Low)
    BY Listed
  <2> QED BY <1>1, <1>4, <2>1, <2>2, CodeQuiet
<1>6. Code(<<w, p, Low, High>>, <<b>>, <<>>) /\ First(<<w, p, Low, High>>) = "wait" /\ Final(<<w, p, Low, High>>) = "high"
  <2>1. Kind(High) \in Then(Final(<<w, p, Low>>))
    BY <1>1, <1>5 DEF Then
  <2>2. <<w, p, Low, High>> = Append(<<w, p, Low>>, High)
    BY Listed
  <2> QED BY <1>1, <1>5, <2>1, <2>2, CodeQuiet
<1>7. PrintByte(b) = <<w, p, Low, High>>
  BY DEF PrintByte, w, p, Low, High
<1>8. PrintByte(b) \in Seq(PrintAccesses)
  <2>1. {w, p, Low, High} \subseteq PrintAccesses
    BY DEF PrintAccesses, Puts, w, p
  <2> QED BY <1>7, <2>1
<1> QED BY <1>6, <1>7, <1>8

\* The accesses that shift out a bit: the pin, and a pulse of the clock.
LEMMA ShiftCode ==
    ASSUME NEW b \in {0, 1}
    PROVE  /\ Code(Shift(b), <<>>, <<b>>)
           /\ First(Shift(b)) \in {"one", "zero"} /\ Final(Shift(b)) = "flip"
<1> DEFINE m == IF b = 1 THEN One ELSE Zero
           f == FlipA("CLK")
<1>1. /\ m \in Accesses /\ Kind(m) \in {"one", "zero"} /\ BitOf[m] = <<b>> /\ ByteOf[m] = <<>>
      /\ ClockHigh \in Accesses /\ Kind(ClockHigh) = "clockHigh"
      /\ f \in Accesses /\ Kind(f) = "flip"
  <2>1. One \in Accesses /\ Zero \in Accesses /\ ClockHigh \in Accesses /\ f \in Accesses
    BY DEF Accesses, ShiftAccesses
  <2> QED BY <2>1, Kinds, StandFor
<1>2. Shift(b) = <<m, ClockHigh, f>>
  BY DEF Shift, One, Zero, ClockHigh
<1> HIDE DEF m, f
<1>3. Code(<<m>>, <<>>, <<b>>) /\ First(<<m>>) \in {"one", "zero"} /\ Final(<<m>>) \in {"one", "zero"}
  BY <1>1, CodeOne
<1>4. /\ Code(<<m, ClockHigh>>, <<>>, <<b>>) /\ First(<<m, ClockHigh>>) \in {"one", "zero"}
      /\ Final(<<m, ClockHigh>>) = "clockHigh"
  <2>1. Kind(ClockHigh) \in Then(Final(<<m>>))
    BY <1>1, <1>3 DEF Then
  <2>2. <<m, ClockHigh>> = Append(<<m>>, ClockHigh)
    BY Listed
  <2> QED BY <1>1, <1>3, <2>1, <2>2, CodeQuiet
<1>5. /\ Code(<<m, ClockHigh, f>>, <<>>, <<b>>) /\ First(<<m, ClockHigh, f>>) \in {"one", "zero"}
      /\ Final(<<m, ClockHigh, f>>) = "flip"
  <2>1. Kind(f) \in Then(Final(<<m, ClockHigh>>))
    BY <1>1, <1>4 DEF Then
  <2>2. <<m, ClockHigh, f>> = Append(<<m, ClockHigh>>, f)
    BY Listed
  <2> QED BY <1>1, <1>4, <2>1, <2>2, CodeQuiet
<1> QED BY <1>2, <1>5

\* A routine that prints s: it begins and ends as the printing routines do.
Printing(t, s) ==
    /\ Code(t, s, <<>>) /\ t \in Seq(PrintAccesses)
    /\ First(t) = "out" /\ Final(t) \in {"high", "wait"}

\* Two of them after each other.
LEMMA PrintingConcat ==
    ASSUME NEW t, NEW s, Printing(t, s), NEW u, NEW p, Printing(u, p)
    PROVE  Printing(Cat(t, u), Cat(s, p))
<1>1. First(u) \in Then(Final(t))
  BY DEF Printing, Then
<1>2. Cat(<<>>, <<>>) = <<>>
  BY DEF Cat
<1>3. Code(Cat(t, u), Cat(s, p), Cat(<<>>, <<>>)) /\ First(Cat(t, u)) = First(t) /\ Final(Cat(t, u)) = Final(u)
  BY <1>1, CodeConcat DEF Printing
<1>4. Cat(t, u) \in Seq(PrintAccesses)
  BY CatAssociative DEF Printing
<1> QED BY <1>2, <1>3, <1>4 DEF Printing

\* The first access of a printing routine, and its last.
LEMMA PrintEnds ==
    LET o == DirB("out")
        w == Wait("TXE")
    IN  /\ Code(<<o>>, <<>>, <<>>) /\ First(<<o>>) = "out" /\ Final(<<o>>) = "out"
        /\ o \in PrintAccesses /\ <<o>> \in Seq(PrintAccesses)
        /\ Code(<<w>>, <<>>, <<>>) /\ First(<<w>>) = "wait" /\ Final(<<w>>) = "wait"
        /\ w \in PrintAccesses /\ <<w>> \in Seq(PrintAccesses)
<1> DEFINE o == DirB("out")
           w == Wait("TXE")
<1>1. /\ o \in Accesses /\ Kind(o) = "out" /\ w \in Accesses /\ Kind(w) = "wait"
      /\ o \in PrintAccesses /\ w \in PrintAccesses
  BY Kinds DEF Accesses, PrintAccesses
<1> HIDE DEF o, w
<1>2. ByteOf[o] = <<>> /\ BitOf[o] = <<>> /\ ByteOf[w] = <<>> /\ BitOf[w] = <<>>
  BY <1>1, StandFor
<1>3. /\ Code(<<o>>, <<>>, <<>>) /\ First(<<o>>) = "out" /\ Final(<<o>>) = "out"
      /\ Code(<<w>>, <<>>, <<>>) /\ First(<<w>>) = "wait" /\ Final(<<w>>) = "wait"
  BY <1>1, <1>2, CodeOne
<1>4. <<o>> \in Seq(PrintAccesses) /\ <<w>> \in Seq(PrintAccesses)
  BY <1>1
<1> QED BY <1>1, <1>3, <1>4 DEF o, w

\* serial_writebyte prints its byte.
LEMMA WritebyteCode ==
    ASSUME NEW b \in Byte
    PROVE  Printing(serial_writebyte(b), <<b>>)
<1> DEFINE t == <<DirB("out")>>
           u == PrintByte(b)
<1>1. Code(t, <<>>, <<>>) /\ First(t) = "out" /\ Final(t) = "out" /\ t \in Seq(PrintAccesses)
  BY PrintEnds
<1>2. /\ Code(u, <<b>>, <<>>) /\ u \in Seq(PrintAccesses) /\ First(u) = "wait" /\ Final(u) = "high"
  BY PrintByteCode
<1>3. serial_writebyte(b) = Cat(t, u)
  BY DEF serial_writebyte, Cat
<1> HIDE DEF t, u
<1>4. First(u) \in Then(Final(t))
  BY <1>1, <1>2 DEF Then
<1>5. Cat(<<>>, <<b>>) = <<b>> /\ Cat(<<>>, <<>>) = <<>>
  <2>1. <<b>> \in Seq(Byte) /\ <<>> \in Seq(Byte)
    OBVIOUS
  <2> QED BY <2>1, CatNothing
<1>6. Code(Cat(t, u), Cat(<<>>, <<b>>), Cat(<<>>, <<>>)) /\ First(Cat(t, u)) = First(t) /\ Final(Cat(t, u)) = Final(u)
  BY <1>1, <1>2, <1>4, CodeConcat
<1>7. Cat(t, u) \in Seq(PrintAccesses)
  BY <1>1, <1>2, CatAssociative
<1> QED BY <1>1, <1>2, <1>3, <1>5, <1>6, <1>7 DEF Printing

\* The accesses that print the bytes of a text, and those that shift out bits.
BytePrinted == [b \in Byte |-> PrintByte(b)]
BitShifted == [b \in {0, 1} |-> Shift(b)]

\* These are sequences of accesses.
LEMMA PrintedStand ==
    /\ Stands(BytePrinted, Byte, PrintAccesses) /\ \A b \in Byte : BytePrinted[b] = PrintByte(b)
    /\ Stands(BitShifted, {0, 1}, Accesses) /\ \A b \in {0, 1} : BitShifted[b] = Shift(b)
<1>1. \A b \in Byte : PrintByte(b) \in Seq(PrintAccesses)
  BY PrintByteCode
<1>2. \A b \in {0, 1} : Shift(b) \in Seq(Accesses)
  BY ShiftCode DEF Code
<1> QED BY <1>1, <1>2 DEF Stands, BytePrinted, BitShifted

\* Behind the first access of a routine, they print the text, byte by byte.
LEMMA TextCode ==
    ASSUME NEW s \in Seq(Byte)
    PROVE  LET t == Cat(<<DirB("out")>>, Mapped(BytePrinted, s)) IN
           /\ Code(t, s, <<>>) /\ t \in Seq(PrintAccesses)
           /\ First(t) = "out" /\ Final(t) \in {"out", "high"}
<1> DEFINE o == <<DirB("out")>>
           R(u) == Cat(o, Mapped(BytePrinted, u))
           Good(u) == /\ Code(R(u), u, <<>>) /\ R(u) \in Seq(PrintAccesses)
                      /\ First(R(u)) = "out" /\ Final(R(u)) \in {"out", "high"}
           T == {u \in Seq(Byte) : Good(u)}
<1>0. Code(o, <<>>, <<>>) /\ First(o) = "out" /\ Final(o) = "out" /\ o \in Seq(PrintAccesses)
  BY PrintEnds
<1> HIDE DEF o
<1>1. <<>> \in T
  <2>1. Mapped(BytePrinted, <<>>) = <<>>
    BY PrintedStand, MappedEmpty
  <2>2. R(<<>>) = o
    BY <1>0, <2>1, CatNothing
  <2>3. <<>> \in Seq(Byte)
    OBVIOUS
  <2> QED BY <1>0, <2>2, <2>3
<1>2. ASSUME NEW u \in Seq(Byte), NEW b \in Byte, u \in T
      PROVE  Append(u, b) \in T
  <2> DEFINE m == Mapped(BytePrinted, u)
             p == PrintByte(b)
             v == Append(u, b)
  <2>1. /\ Code(p, <<b>>, <<>>) /\ p \in Seq(PrintAccesses) /\ First(p) = "wait" /\ Final(p) = "high"
    BY PrintByteCode
  <2>2. m \in Seq(PrintAccesses)
    BY PrintedStand, MappedType
  <2>3. Mapped(BytePrinted, v) = Cat(m, p)
    BY PrintedStand, MappedAppend
  <2>4. Good(u)
    BY <1>2
  <2>5. v = Cat(u, <<b>>) /\ v \in Seq(Byte)
    BY AppendIsCat, AppendType
  <2> HIDE DEF m, p, v
  <2>6. Cat(o, Cat(m, p)) = Cat(Cat(o, m), p)
    BY <1>0, <2>1, <2>2, CatAssociative
  <2> DEFINE r == Cat(o, m)
  <2>7. Code(r, u, <<>>) /\ r \in Seq(PrintAccesses) /\ First(r) = "out" /\ Final(r) \in {"out", "high"}
    BY <2>4 DEF m
  <2> HIDE DEF r
  <2>8. First(p) \in Then(Final(r))
    BY <2>1, <2>7 DEF Then
  <2>9. /\ Code(Cat(r, p), Cat(u, <<b>>), Cat(<<>>, <<>>))
        /\ First(Cat(r, p)) = First(r) /\ Final(Cat(r, p)) = Final(p)
    BY <2>1, <2>7, <2>8, CodeConcat
  <2>10. Cat(<<>>, <<>>) = <<>>
    BY DEF Cat
  <2>11. Cat(r, p) \in Seq(PrintAccesses)
    BY <2>1, <2>7, CatAssociative
  <2>12. R(v) = Cat(r, p)
    BY <2>3, <2>6 DEF r
  <2>13. Good(v)
    BY <2>1, <2>5, <2>7, <2>9, <2>10, <2>11, <2>12
  <2> QED BY <2>5, <2>13 DEF v
<1> HIDE DEF T
<1>3. Seq(Byte) \subseteq T
  BY <1>1, <1>2, SequenceInduction
<1> QED BY <1>3 DEF T, o

\* serial_writeline prints its text.
LEMMA WritelineCode ==
    ASSUME NEW s \in Seq(Byte)
    PROVE  Printing(serial_writeline(s), s)
<1> DEFINE t == Cat(<<DirB("out")>>, Mapped(BytePrinted, s))
           w == Wait("TXE")
<1>1. /\ Code(t, s, <<>>) /\ t \in Seq(PrintAccesses) /\ First(t) = "out" /\ Final(t) \in {"out", "high"}
  BY TextCode
<1>2. w \in Accesses /\ Kind(w) = "wait" /\ w \in PrintAccesses
  BY Kinds DEF Accesses, PrintAccesses
<1>3. serial_writeline(s) = Cat(t, <<w>>)
  <2>1. DOMAIN s = 1 .. Len(s) /\ \A k \in 1 .. Len(s) : s[k] \in Byte
    BY LenProperties
  <2>2. [k \in DOMAIN s |-> PrintByte(s[k])] = [k \in DOMAIN s |-> BytePrinted[s[k]]]
    BY <2>1, PrintedStand
  <2> QED BY <2>2 DEF serial_writeline, Cat, Mapped, Parts
<1> HIDE DEF t, w
<1>4. Kind(w) \in Then(Final(t))
  BY <1>1, <1>2 DEF Then
<1>5. Code(Append(t, w), s, <<>>) /\ First(Append(t, w)) = "out" /\ Final(Append(t, w)) = "wait"
  BY <1>1, <1>2, <1>4, CodeQuiet
<1>6. Append(t, w) = Cat(t, <<w>>) /\ Append(t, w) \in Seq(PrintAccesses)
  BY <1>1, <1>2, AppendIsCat, AppendType
<1> QED BY <1>3, <1>5, <1>6 DEF Printing

\* The bits of a byte.
LEMMA BitsType ==
    ASSUME NEW b \in Byte
    PROVE  Bits(b) \in Seq({0, 1}) /\ Len(Bits(b)) = Width /\ Bits(b) # <<>>
<1>1. Width \in Nat /\ Width > 0
  BY Constants
<1>2. b \in Nat
  BY Constants DEF Byte
<1>3. ASSUME NEW k \in 1 .. Width
      PROVE  (b \div 2^(Width - k)) % 2 \in {0, 1}
  <2> DEFINE m == 2^(Width - k)
  <2>1. m \in Nat \ {0}
    BY <1>1, PowerAssumption
  <2> HIDE DEF m
  <2>2. b \div m \in Nat
    BY <1>2, <2>1
  <2>3. (b \div m) % 2 \in {0, 1}
    BY <2>2
  <2> QED BY <2>3 DEF m
<1>4. Bits(b) = [k \in 1 .. Width |-> Bits(b)[k]] /\ \A k \in 1 .. Width : Bits(b)[k] \in {0, 1}
  BY <1>3 DEF Bits
<1>5. Bits(b) \in Seq({0, 1}) /\ Len(Bits(b)) = Width
  BY <1>1, <1>4
<1> QED BY <1>1, <1>5, EmptySeq

\* Shifting bits out, one by one.
LEMMA BitsCode ==
    ASSUME NEW s \in Seq({0, 1}), s # <<>>
    PROVE  LET t == Mapped(BitShifted, s) IN
           Code(t, <<>>, s) /\ First(t) \in {"one", "zero"} /\ Final(t) = "flip"
<1> DEFINE R(u) == Mapped(BitShifted, u)
           Good(u) == Code(R(u), <<>>, u) /\ First(R(u)) \in {"one", "zero"} /\ Final(R(u)) = "flip"
           T == {u \in Seq({0, 1}) : u = <<>> \/ Good(u)}
<1>1. <<>> \in T
  OBVIOUS
<1>2. ASSUME NEW u \in Seq({0, 1}), NEW b \in {0, 1}, u \in T
      PROVE  Append(u, b) \in T
  <2> DEFINE p == Shift(b)
             v == Append(u, b)
             m == R(u)
  <2>1. Code(p, <<>>, <<b>>) /\ First(p) \in {"one", "zero"} /\ Final(p) = "flip"
    BY ShiftCode
  <2>2. R(v) = Cat(m, p)
    BY PrintedStand, MappedAppend
  <2>3. v = Cat(u, <<b>>) /\ v \in Seq({0, 1})
    BY AppendIsCat, AppendType
  <2>4. CASE u = <<>>
    <3>1. m = <<>>
      BY <2>4, PrintedStand, MappedEmpty
    <3>2. p \in Seq(Accesses) /\ <<b>> \in Seq({0, 1})
      BY <2>1, AppendType DEF Code
    <3> HIDE DEF m, p
    <3>3. Cat(m, p) = p /\ Cat(u, <<b>>) = <<b>>
      BY <2>4, <3>1, <3>2, CatNothing
    <3> HIDE DEF v
    <3>4. R(v) = p /\ v = <<b>>
      BY <2>2, <2>3, <3>3
    <3>5. Good(v)
      BY <2>1, <3>4
    <3> QED BY <2>3, <3>5 DEF v
  <2>5. CASE u # <<>>
    <3>1. Code(m, <<>>, u) /\ First(m) \in {"one", "zero"} /\ Final(m) = "flip"
      BY <1>2, <2>5
    <3> HIDE DEF m, p, v
    <3>2. First(p) \in Then(Final(m))
      BY <2>1, <3>1 DEF Then
    <3>3. /\ Code(Cat(m, p), Cat(<<>>, <<>>), Cat(u, <<b>>))
          /\ First(Cat(m, p)) = First(m) /\ Final(Cat(m, p)) = Final(p)
      BY <2>1, <3>1, <3>2, CodeConcat
    <3>4. Cat(<<>>, <<>>) = <<>>
      BY DEF Cat
    <3>5. Good(v)
      BY <2>1, <2>2, <2>3, <3>1, <3>3, <3>4
    <3> QED BY <2>3, <3>5 DEF v
  <2> QED BY <2>4, <2>5
<1> HIDE DEF T
<1>3. Seq({0, 1}) \subseteq T
  BY <1>1, <1>2, SequenceInduction
<1> QED BY <1>3 DEF T

\* spiWrite shifts out the bits of its byte.
LEMMA SpiWriteCode ==
    ASSUME NEW b \in Byte
    PROVE  /\ Code(spiWrite(b), <<>>, Bits(b))
           /\ First(spiWrite(b)) \in {"one", "zero"} /\ Final(spiWrite(b)) = "flip"
<1>1. Bits(b) \in Seq({0, 1}) /\ Len(Bits(b)) = Width /\ Bits(b) # <<>>
  BY BitsType
<1> DEFINE s == Bits(b)
<1>2. DOMAIN s = 1 .. Width
  BY DEF Bits
<1>3. \A k \in 1 .. Width : s[k] \in {0, 1}
  BY <1>1, LenProperties
<1>4. spiWrite(b) = FlattenSeq([k \in 1 .. Width |-> Shift(s[k])])
  BY DEF spiWrite
<1> HIDE DEF s
<1>5. [k \in 1 .. Width |-> Shift(s[k])] = [k \in DOMAIN s |-> BitShifted[s[k]]]
  BY <1>2, <1>3, PrintedStand
<1>6. spiWrite(b) = Mapped(BitShifted, s)
  BY <1>4, <1>5 DEF Mapped, Parts
<1>7. s \in Seq({0, 1}) /\ s # <<>>
  BY <1>1 DEF s
<1> QED BY <1>6, <1>7, BitsCode DEF s

\* serial_readbyte prints and shifts out nothing.
LEMMA ReadbyteCode ==
    /\ Code(serial_readbyte, <<>>, <<>>)
    /\ First(serial_readbyte) = "in" /\ Final(serial_readbyte) = "return"
<1> DEFINE i == DirB("in")
           w == Wait("RXF")
<1>1. /\ i \in Accesses /\ Kind(i) = "in" /\ w \in Accesses /\ Kind(w) = "waitKey"
      /\ ReadLow \in Accesses /\ Kind(ReadLow) = "readLow" /\ GetB \in Accesses /\ Kind(GetB) = "get"
      /\ ReadHigh \in Accesses /\ Kind(ReadHigh) = "readHigh"
      /\ Return \in Accesses /\ Kind(Return) = "return"
  BY Kinds DEF Accesses, ReadAccesses
<1>2. serial_readbyte = <<i, w, ReadLow, GetB, ReadHigh, Return>>
  BY DEF serial_readbyte, ReadLow, ReadHigh
<1> HIDE DEF i, w
<1> DEFINE a == <<i>>
           b == <<i, w>>
           c == <<i, w, ReadLow>>
           d == <<i, w, ReadLow, GetB>>
           e == Append(d, ReadHigh)
           f == Append(e, Return)
<1>3. /\ b = Append(a, w) /\ c = Append(b, ReadLow) /\ d = Append(c, GetB)
      /\ <<i, w, ReadLow, GetB, ReadHigh, Return>> = f
  OBVIOUS
<1>4. Code(a, <<>>, <<>>) /\ First(a) = "in" /\ Final(a) = "in"
  <2>1. ByteOf[i] = <<>> /\ BitOf[i] = <<>>
    BY <1>1, StandFor
  <2> QED BY <1>1, <2>1, CodeOne
<1> HIDE DEF a, b, c, d
<1>5. Code(b, <<>>, <<>>) /\ First(b) = "in" /\ Final(b) = "waitKey"
  <2>1. Kind(w) \in Then(Final(a))
    BY <1>1, <1>4 DEF Then
  <2> QED BY <1>1, <1>3, <1>4, <2>1, CodeQuiet
<1>6. Code(c, <<>>, <<>>) /\ First(c) = "in" /\ Final(c) = "readLow"
  <2>1. Kind(ReadLow) \in Then(Final(b))
    BY <1>1, <1>5 DEF Then
  <2> QED BY <1>1, <1>3, <1>5, <2>1, CodeQuiet
<1>7. Code(d, <<>>, <<>>) /\ First(d) = "in" /\ Final(d) = "get"
  <2>1. Kind(GetB) \in Then(Final(c))
    BY <1>1, <1>6 DEF Then
  <2> QED BY <1>1, <1>3, <1>6, <2>1, CodeQuiet, SMTT(30)
<1>8. Code(e, <<>>, <<>>) /\ First(e) = "in" /\ Final(e) = "readHigh"
  <2>1. Kind(ReadHigh) \in Then(Final(d))
    BY <1>1, <1>7 DEF Then
  <2> QED BY <1>1, <1>7, <2>1, CodeQuiet
<1> HIDE DEF e
<1>9. Code(f, <<>>, <<>>) /\ First(f) = "in" /\ Final(f) = "return"
  <2>1. Kind(Return) \in Then(Final(e))
    BY <1>1, <1>8 DEF Then
  <2> QED BY <1>1, <1>8, <2>1, CodeQuiet
<1> QED BY <1>2, <1>3, <1>9 DEF e

\* Selecting the SPI slave, and letting go of it.
LEMMA SelectCode ==
    /\ Code(spiBegin, <<>>, <<>>) /\ First(spiBegin) = "selectLow" /\ Final(spiBegin) = "selectLow"
    /\ Code(spiEnd, <<>>, <<>>) /\ First(spiEnd) = "selectHigh" /\ Final(spiEnd) = "selectHigh"
<1>1. /\ SelectLow \in Accesses /\ Kind(SelectLow) = "selectLow"
      /\ SelectHigh \in Accesses /\ Kind(SelectHigh) = "selectHigh"
  BY Kinds DEF Accesses
<1>2. ByteOf[SelectLow] = <<>> /\ BitOf[SelectLow] = <<>> /\ ByteOf[SelectHigh] = <<>> /\ BitOf[SelectHigh] = <<>>
  BY <1>1, StandFor
<1>3. spiBegin = <<SelectLow>> /\ spiEnd = <<SelectHigh>>
  BY DEF spiBegin, spiEnd, SelectLow, SelectHigh
<1> QED BY <1>1, <1>2, <1>3, CodeOne

\* The echo of Enter.
LEMMA EchoesCode ==
    ASSUME val \in Byte
    PROVE  Printing(Echoes, <<val, Newline>>)
<1> DEFINE t == serial_writebyte(val)
           u == serial_writebyte(Newline)
<1>1. Printing(t, <<val>>) /\ Printing(u, <<Newline>>)
  BY WritebyteCode, Constants
<1>2. Echoes = Cat(t, u)
  BY DEF Echoes, Cat
<1> HIDE DEF t, u
<1>3. Printing(Cat(t, u), Cat(<<val>>, <<Newline>>))
  BY <1>1, PrintingConcat
<1> QED BY <1>2, <1>3, PairIsCat

\* What the shell does for a line: echo, a text, the prompt.
LEMMA ExecuteCode ==
    ASSUME val \in Byte, NEW text \in Seq(Byte)
    PROVE  Printing(Echoes \o serial_writeline(text) \o serial_writeline(Prompt),
                    <<val, Newline>> \o text \o Prompt)
<1> DEFINE t == Echoes
           u == serial_writeline(text)
           v == serial_writeline(Prompt)
           b == <<val, Newline>>
<1>1. Printing(t, b) /\ Printing(u, text) /\ Printing(v, Prompt)
  BY EchoesCode, WritelineCode, Constants
<1> HIDE DEF t, u, v, b
<1>2. Printing(Cat(t, u), Cat(b, text))
  BY <1>1, PrintingConcat
<1>3. Printing(Cat(Cat(t, u), v), Cat(Cat(b, text), Prompt))
  BY <1>1, <1>2, PrintingConcat
<1> QED BY <1>3 DEF Cat, t, u, v, b

\* To begin with the SPI slave: the echo, and selecting it.
LEMMA ExecuteSpiCode ==
    ASSUME val \in Byte
    PROVE  /\ Code(Echoes \o spiBegin, <<val, Newline>>, <<>>)
           /\ First(Echoes \o spiBegin) = "out" /\ Final(Echoes \o spiBegin) = "selectLow"
           /\ \E k \in DOMAIN (Echoes \o spiBegin) : (Echoes \o spiBegin)[k] = SelectLow
<1> DEFINE t == Echoes
           u == spiBegin
           b == <<val, Newline>>
<1>1. Code(t, b, <<>>) /\ First(t) = "out" /\ Final(t) \in {"high", "wait"}
  BY EchoesCode DEF Printing
<1>2. Code(u, <<>>, <<>>) /\ First(u) = "selectLow" /\ Final(u) = "selectLow"
  BY SelectCode
<1>3. Final(t) = "high"
  <2> DEFINE x == serial_writebyte(val)
             y == serial_writebyte(Newline)
             p == PrintByte(Newline)
             o == <<DirB("out")>>
  <2>1. Code(x, <<val>>, <<>>) /\ Final(x) \in {"high", "wait"}
    BY WritebyteCode DEF Printing
  <2>2. Code(p, <<Newline>>, <<>>) /\ First(p) = "wait" /\ Final(p) = "high"
    BY PrintByteCode, Constants
  <2>3. Code(o, <<>>, <<>>) /\ First(o) = "out" /\ Final(o) = "out"
    BY PrintEnds
  <2>4. y = Cat(o, p) /\ t = Cat(x, y)
    BY DEF serial_writebyte, Echoes, Cat
  <2> HIDE DEF o, p, x, y, t
  <2>5. First(p) \in Then(Final(o))
    BY <2>2, <2>3 DEF Then
  <2>6. /\ Code(y, Cat(<<>>, <<Newline>>), Cat(<<>>, <<>>))
        /\ First(y) = "out" /\ Final(y) = "high"
    BY <2>2, <2>3, <2>4, <2>5, CodeConcat
  <2>7. First(y) \in Then(Final(x))
    BY <2>1, <2>6 DEF Then
  <2>8. Final(Cat(x, y)) = Final(y)
    BY <2>1, <2>6, <2>7, CodeConcat
  <2> QED BY <2>4, <2>6, <2>8
<1> HIDE DEF t, u, b
<1>4. First(u) \in Then(Final(t))
  BY <1>2, <1>3 DEF Then
<1>5. /\ Code(Cat(t, u), Cat(b, <<>>), Cat(<<>>, <<>>))
      /\ First(Cat(t, u)) = First(t) /\ Final(Cat(t, u)) = Final(u)
  BY <1>1, <1>2, <1>4, CodeConcat
<1>6. Cat(b, <<>>) = b /\ Cat(<<>>, <<>>) = <<>>
  <2>1. b \in Seq(Byte)
    BY StandFor, MappedType, <1>1 DEF Code
  <2> QED BY <2>1, CatNothing DEF Cat
<1> DEFINE c == Cat(t, u)
<1>7. c \in Seq(Accesses) /\ c # <<>>
  BY <1>5 DEF Code
<1> HIDE DEF c
<1>8. Len(c) \in DOMAIN c /\ c[Len(c)] \in Accesses
  BY <1>7, LenProperties, EmptySeq
<1>9. c[Len(c)] = SelectLow
  <2>1. Kind(c[Len(c)]) = "selectLow"
    BY <1>2, <1>5 DEF Final, c
  <2> QED BY <1>8, <2>1, KindOf
<1>10. \E k \in DOMAIN c : c[k] = SelectLow
  BY <1>8, <1>9
<1> QED BY <1>1, <1>2, <1>5, <1>6, <1>10 DEF c, Cat, t, u, b

\* To leave the SPI slave: letting go of it, and the prompt.
LEMMA LeaveSpiCode ==
    LET t == spiEnd \o serial_writeline(Prompt) IN
    Code(t, Prompt, <<>>) /\ First(t) = "selectHigh" /\ Final(t) \in {"high", "wait"}
<1> DEFINE u == spiEnd
           v == serial_writeline(Prompt)
<1>1. Code(u, <<>>, <<>>) /\ First(u) = "selectHigh" /\ Final(u) = "selectHigh"
  BY SelectCode
<1>2. Code(v, Prompt, <<>>) /\ First(v) = "out" /\ Final(v) \in {"high", "wait"}
  BY WritelineCode, Constants DEF Printing
<1> HIDE DEF u, v
<1>3. First(v) \in Then(Final(u))
  BY <1>1, <1>2 DEF Then
<1>4. /\ Code(Cat(u, v), Cat(<<>>, Prompt), Cat(<<>>, <<>>))
      /\ First(Cat(u, v)) = First(u) /\ Final(Cat(u, v)) = Final(v)
  BY <1>1, <1>2, <1>3, CodeConcat
<1>5. Cat(<<>>, Prompt) = Prompt /\ Cat(<<>>, <<>>) = <<>>
  <2>1. Prompt \in Seq(Byte) /\ <<>> \in Seq(Byte)
    BY Constants
  <2> QED BY <2>1, CatNothing
<1> QED BY <1>1, <1>2, <1>4, <1>5 DEF Cat, u, v

-----------------------------------------------------------------------------
(* Between the routines.                                                    *)

\* When no routine is under way, or one returns a key, all that was asked is delivered.
LEMMA AtRest ==
    ASSUME TypeOK, RunInv, todo = <<>> \/ todo = <<Return>>
    PROVE  /\ asked = tx /\ want = slave
           /\ todo = <<>> => Here = "idle" /\ typed = rx
           /\ todo = <<Return>> => Here = "return" /\ typed = Cat(<<val>>, rx) /\ hw = "um245r"
           /\ ~IsIn(SelectLow)
<1>1. tx \in Seq(Byte) /\ rx \in Seq(Byte) /\ slave \in Seq({0, 1}) /\ hw \in {"um245r", "simulator"}
  BY Constants DEF TypeOK
<1>2. ByteOf[Return] = <<>> /\ BitOf[Return] = <<>> /\ Return \in Accesses /\ Kind(Return) = "return"
  <2>1. Return \in Accesses
    BY DEF Accesses, ReadAccesses
  <2> QED BY <2>1, Kinds, StandFor
<1>3. Mapped(ByteOf, todo) = <<>> /\ Mapped(BitOf, todo) = <<>>
  <2>1. CASE todo = <<>>
    BY <2>1, StandFor, MappedEmpty
  <2>2. CASE todo = <<Return>>
    BY <1>2, <2>2, StandFor, MappedOne
  <2> QED BY <2>1, <2>2
<1>4. Here \in {"idle", "return"} /\ (todo = <<>> => Here = "idle") /\ (todo = <<Return>> => Here = "return")
  <2>1. CASE todo = <<>>
    BY <2>1 DEF Here, First
  <2>2. CASE todo = <<Return>>
    <3>1. todo # <<>> /\ todo[1] = Return
      BY <2>2
    <3> QED BY <1>2, <2>2, <3>1 DEF Here, First
  <2> QED BY <2>1, <2>2
<1>5. OnPort = <<>> /\ BitOnPort = <<>>
  BY <1>4 DEF OnPort, BitOnPort
<1>6. Cat(<<>>, <<>>) = <<>> /\ Cat(tx, <<>>) = tx /\ Cat(slave, <<>>) = slave /\ Cat(<<>>, rx) = rx
  <2>1. <<>> \in Seq(Byte)
    OBVIOUS
  <2> QED BY <1>1, <2>1, CatNothing
<1>7. asked = tx /\ want = slave
  BY <1>3, <1>5, <1>6 DEF RunInv, Histories
<1>8. typed = Cat(Returned, rx)
  BY DEF RunInv, Histories
<1>9. todo = <<Return>> => hw = "um245r"
  <2> SUFFICES ASSUME todo = <<Return>>, hw = "simulator" PROVE FALSE
    BY <1>1
  <2>1. todo \in Seq(PrintAccesses)
    BY DEF RunInv, AtSimulator
  <2>2. Return \in PrintAccesses
    <3>1. Len(todo) = 1 /\ todo[1] = Return
      OBVIOUS
    <3>2. 1 \in 1 .. Len(todo)
      BY <3>1
    <3> QED BY <2>1, <3>1, <3>2, LenProperties
  <2>3. \A a \in PrintAccesses : Kind(a) # "return"
    BY Kinds DEF PrintAccesses, Puts
  <2> QED BY <1>2, <2>2, <2>3
<1>10. ~IsIn(SelectLow)
  <2> SUFFICES ASSUME NEW k \in DOMAIN todo, todo[k] = SelectLow PROVE FALSE
    BY DEF IsIn
  <2>1. todo = <<Return>> /\ todo[k] = Return
    OBVIOUS
  <2> QED BY <1>2, <2>1, Kinds
<1> QED BY <1>4, <1>6, <1>7, <1>8, <1>9, <1>10 DEF Returned

\* The routine t begins on the board, to print s and shift out z.
Begins(t, s, z) ==
    /\ hw = "um245r" /\ (todo = <<>> \/ todo = <<Return>>)
    /\ hw' = hw /\ ora' = ora /\ ddra' = ddra /\ tx' = tx /\ rx' = rx /\ typed' = rx
    /\ Code(t, s, z) /\ "idle" \in Then(Final(t))
    /\ First(t) \in {"in", "out", "one", "zero", "selectHigh"}
    /\ todo' = t /\ asked' = Cat(asked, s)
    /\ \/ z = <<>> /\ slave' = slave /\ want' = want
       \/ slave' = <<>> /\ want' = z
    /\ First(t) \in {"one", "zero"} => "CS" \notin ora
    /\ First(t) = "selectHigh" => mode' = "shell"
    /\ mode' = "spi" => "CS" \notin ora \/ \E k \in DOMAIN t : t[k] = SelectLow

\* The invariant holds when it does.
LEMMA NewRoutine ==
    ASSUME TypeOK, RunInv, NEW t, NEW s, NEW z, Begins(t, s, z)
    PROVE  RunInv'
<1> USE DEF Begins
<1>1. asked = tx /\ want = slave /\ Here \in {"idle", "return"}
  BY AtRest
<1>2. /\ tx \in Seq(Byte) /\ rx \in Seq(Byte) /\ slave \in Seq({0, 1})
      /\ s \in Seq(Byte) /\ z \in Seq({0, 1}) /\ Mapped(ByteOf, t) = s /\ Mapped(BitOf, t) = z
  BY StandFor, MappedType DEF TypeOK, Code
<1>3. Here' = First(t)
  BY DEF Here
<1>4. OnPort' = <<>> /\ BitOnPort' = <<>> /\ Returned' = <<>>
  BY <1>3 DEF OnPort, BitOnPort, Returned
<1>5. /\ Cat(<<>>, s) = s /\ Cat(<<>>, z) = z /\ Cat(<<>>, rx) = rx /\ Cat(slave, <<>>) = slave
      /\ Cat(<<>>, <<>>) = <<>>
  <2>1. Cat(<<>>, s) = s /\ Cat(<<>>, rx) = rx
    BY <1>2, CatNothing
  <2>2. Cat(<<>>, z) = z /\ Cat(slave, <<>>) = slave
    BY <1>2, CatNothing
  <2>3. <<>> \in Seq(Byte)
    OBVIOUS
  <2> QED BY <2>1, <2>2, <2>3, CatNothing
<1>6. Histories'
  <2>1. Mapped(ByteOf, todo') = s /\ Mapped(BitOf, todo') = z
    BY <1>2
  <2>2. asked' = Cat(tx', Cat(OnPort', Mapped(ByteOf, todo')))
    BY <1>1, <1>4, <1>5, <2>1
  <2>3. want' = Cat(slave', Cat(BitOnPort', Mapped(BitOf, todo')))
    BY <1>1, <1>4, <1>5, <2>1
  <2>4. typed' = Cat(Returned', rx')
    BY <1>4, <1>5
  <2> QED BY <2>2, <2>3, <2>4 DEF Histories
<1>7. Routine(todo)'
  BY CodeRoutine
<1>8. AtChip'
  <2>1. AtChip
    BY DEF RunInv
  <2>2. ddra' = Driven /\ "WE" \in ora' /\ "RD" \in ora' /\ "CLK" \notin ora'
    BY <1>1, <2>1 DEF AtChip
  <2>3. mode' = "spi" => "CS" \notin ora' \/ IsIn(SelectLow)'
    BY DEF IsIn
  <2>4. First(t) \in {"one", "zero"} => "CS" \notin ora'
    OBVIOUS
  <2> QED BY <1>3, <2>2, <2>3, <2>4 DEF AtChip
<1> QED BY <1>6, <1>7, <1>8 DEF RunInv

\* The loops of _shell and shell_spi ask for the next key.
LEMMA ReadsKeeps ==
    ASSUME Inv, RunInv, Reads
    PROVE  Inv'
<1>1. TypeOK /\ hw = "um245r" /\ todo = <<>> /\ OneCall
  BY DEF Inv, Reads
<1>2. /\ todo' = serial_readbyte
      /\ hw' = hw /\ ora' = ora /\ ddra' = ddra /\ orb' = orb /\ ddrb' = ddrb /\ um' = um
      /\ tx' = tx /\ rx' = rx /\ slave' = slave /\ val' = val /\ mode' = mode /\ leds' = leds
      /\ asked' = asked /\ typed' = typed /\ want' = want
  BY DEF Reads, via, chip
<1>3. /\ Code(serial_readbyte, <<>>, <<>>) /\ First(serial_readbyte) = "in"
      /\ "idle" \in Then(Final(serial_readbyte))
  BY ReadbyteCode DEF Then
<1>4. typed' = rx /\ ~IsIn(SelectLow)
  BY <1>1, <1>2, AtRest
<1>5. Cat(asked, <<>>) = asked
  <2>1. asked \in Seq(Byte)
    BY <1>1 DEF TypeOK
  <2> QED BY <2>1, CatNothing
<1>6. mode = "spi" => "CS" \notin ora
  BY <1>1, <1>4 DEF RunInv, AtChip
<1>7. RunInv'
  <2> DEFINE t == serial_readbyte
             z == <<>>
  <2>1. Code(t, z, z) /\ First(t) = "in" /\ "idle" \in Then(Final(t)) /\ z = <<>>
    BY <1>3
  <2>2. todo' = t /\ asked' = Cat(asked, z) /\ slave' = slave /\ want' = want
    BY <1>2, <1>5
  <2> HIDE DEF t, z
  <2>3. mode' = "spi" => "CS" \notin ora
    BY <1>2, <1>6
  <2>4. Begins(t, z, z)
    BY <1>1, <1>2, <1>4, <2>1, <2>2, <2>3 DEF Begins
  <2> QED BY <1>1, <2>4, NewRoutine
<1>8. TypeOK'
  BY <1>1, <1>2 DEF TypeOK, AtMostOneCallAhead
<1>9. OneCall'
  BY <1>1, <1>2 DEF OneCall
<1> QED BY <1>7, <1>8, <1>9 DEF Inv

\* The first element of the first part is that of both.
LEMMA TailOfCat ==
    ASSUME NEW X, NEW p \in Seq(X), NEW q \in Seq(X), p # <<>>
    PROVE  /\ Tail(Cat(p, q)) = Cat(Tail(p), q) /\ Tail(p) \in Seq(X)
           /\ Len(Tail(p)) = Len(p) - 1 /\ Len(p) \in Nat /\ Len(p) > 0
           /\ Len(Cat(p, q)) = Len(p) + Len(q) /\ Len(q) \in Nat
<1>1. Len(p) \in Nat /\ Len(p) # 0 /\ Len(q) \in Nat
  BY EmptySeq, LenProperties
<1> DEFINE u == Cat(p, q)
<1>2. u \in Seq(X) /\ Len(u) = Len(p) + Len(q)
  BY ConcatProperties, Zenon DEF Cat
<1>3. SubSeq(u, 2, Len(u)) = Cat(SubSeq(p, 2, Len(p)), q)
  <2>1. 1 \in 0 .. Len(p)
    BY <1>1
  <2>2. SubSeq(p \o q, 1 + 1, Len(p \o q)) = SubSeq(p, 1 + 1, Len(p)) \o q
    BY <2>1, RestOfConcat, Zenon
  <2>3. 1 + 1 = 2
    OBVIOUS
  <2> QED BY <2>2, <2>3, Zenon DEF Cat, u
<1> HIDE DEF u
<1>4. u # <<>>
  BY <1>1, <1>2, EmptySeq
<1>5. Tail(u) = SubSeq(u, 2, Len(u)) /\ Tail(p) = SubSeq(p, 2, Len(p)) /\ Tail(p) \in Seq(X)
      /\ Len(Tail(p)) = Len(p) - 1
  <2>1. Tail(u) = SubSeq(u, 2, Len(u))
    BY <1>2, <1>4, HeadAndTail
  <2>2. Tail(p) = SubSeq(p, 2, Len(p)) /\ Tail(p) \in Seq(X) /\ Len(p) = Len(Tail(p)) + 1
    BY HeadAndTail
  <2>3. Len(Tail(p)) \in Nat
    BY <2>2, LenProperties
  <2> QED BY <2>1, <2>2, <2>3
<1>6. Len(p) > 0
  BY <1>1
<1> QED BY <1>1, <1>2, <1>3, <1>5, <1>6, Zenon DEF u

\* The lengths of two sequences after each other.
LEMMA LenOfCat ==
    ASSUME NEW X, NEW p \in Seq(X), NEW q \in Seq(X)
    PROVE  Len(Cat(p, q)) = Len(p) + Len(q) /\ Len(p) \in Nat /\ Len(q) \in Nat
BY ConcatProperties, LenProperties, Zenon DEF Cat

\* What a call asks for is no more than a text, a prompt and two bytes of echo.
LEMMA CallKeeps ==
    ASSUME Inv, RunInv, NEW t, NEW s, NEW z, Begins(t, s, z),
           NEW w \in Texts \cup {Motd}, Len(s) <= Len(w) + Len(Prompt) + 2,
           orb' = orb, ddrb' = ddrb, um' = um, val' = val, leds' = leds, mode' \in {"shell", "spi"}
    PROVE  Inv'
<1>1. TypeOK
  BY DEF Inv
<1>2. RunInv'
  BY <1>1, NewRoutine
<1>3. asked = tx /\ asked' = Cat(tx, s)
  BY <1>1, AtRest DEF Begins
<1>4. s \in Seq(Byte) /\ z \in Seq({0, 1}) /\ tx \in Seq(Byte) /\ w \in Seq(Byte) /\ Prompt \in Seq(Byte)
  BY <1>1, StandFor, MappedType, Constants DEF Code, TypeOK, Begins
<1>5. /\ Len(asked') = Len(tx) + Len(s) /\ Len(tx) \in Nat /\ Len(s) \in Nat /\ Len(w) \in Nat
      /\ Len(Prompt) \in Nat /\ asked' \in Seq(Byte)
  BY <1>3, <1>4, LenOfCat, CatAssociative, LenProperties
<1>6. hw' = hw /\ ora' = ora /\ ddra' = ddra /\ tx' = tx /\ rx' = rx /\ slave' \in Seq({0, 1})
  <2>1. slave' = slave \/ slave' = <<>>
    BY DEF Begins
  <2>2. slave \in Seq({0, 1}) /\ <<>> \in Seq({0, 1})
    BY <1>1 DEF TypeOK
  <2> QED BY <2>1, <2>2 DEF Begins
<1>7. OneCall'
  BY <1>5, <1>6 DEF OneCall
<1>8. AtMostOneCallAhead'
  <2>1. Len(asked') <= TxCap + (Len(w) + Len(Prompt) + 2)
    BY <1>1, <1>5, Constants DEF TypeOK
  <2> QED BY <2>1 DEF AtMostOneCallAhead
<1>9. TypeOK'
  BY <1>1, <1>5, <1>6, <1>8 DEF TypeOK
<1> QED BY <1>2, <1>7, <1>9 DEF Inv

\* serial_readbyte returns a key: the shell echoes it, executes the line, or gives the
\* key to the SPI slave.
LEMMA HasReadKeeps ==
    ASSUME Inv, RunInv, HasRead, leds' = 0
    PROVE  Inv'
<1>1. TypeOK /\ val \in Byte /\ mode \in {"shell", "spi"} /\ rx \in Seq(Byte)
  BY DEF Inv, TypeOK
<1>2. /\ todo = <<Return>> /\ typed' = Tail(typed) /\ hw' = hw /\ ora' = ora /\ ddra' = ddra
      /\ orb' = orb /\ ddrb' = ddrb /\ um' = um /\ tx' = tx /\ rx' = rx /\ val' = val
  BY DEF HasRead, via
<1>3. hw = "um245r" /\ typed = Cat(<<val>>, rx) /\ ~IsIn(SelectLow)
  BY <1>1, <1>2, AtRest
<1>4. typed' = rx
  <2> DEFINE v == <<val>>
  <2>1. v \in Seq(Byte) /\ v # <<>> /\ Tail(v) = <<>>
    BY <1>1
  <2> HIDE DEF v
  <2>2. Tail(Cat(v, rx)) = Cat(<<>>, rx)
    BY <1>1, <2>1, TailOfCat
  <2> QED BY <1>1, <1>2, <1>3, <2>2, CatNothing DEF v
<1>5. mode = "spi" => "CS" \notin ora
  BY <1>3 DEF RunInv, AtChip
<1>6. Motd \in Texts \cup {Motd} /\ Len(Motd) \in Nat /\ Len(Prompt) \in Nat /\ Newline \in Byte
      /\ Prompt \in Seq(Byte)
  BY Constants, LenProperties
<1>7. ASSUME Echo PROVE Inv'
  <2> DEFINE t == serial_writebyte(val)
             s == <<val>>
             z == <<>>
  <2>1. /\ Code(t, s, z) /\ First(t) = "out" /\ "idle" \in Then(Final(t)) /\ z = <<>>
    BY <1>1, WritebyteCode DEF Printing, Then
  <2>2. /\ mode = "shell" /\ todo' = t /\ asked' = Cat(asked, s) /\ slave' = slave /\ want' = want
        /\ mode' = mode /\ leds' = leds
    BY <1>7 DEF Echo, Prints, Cat
  <2>3. Len(s) = 1
    OBVIOUS
  <2> HIDE DEF t, s, z
  <2>4. Begins(t, s, z)
    BY <1>2, <1>3, <1>4, <2>1, <2>2 DEF Begins
  <2>5. Len(s) <= Len(Motd) + Len(Prompt) + 2
    BY <1>6, <2>3
  <2> QED BY <1>1, <1>2, <1>6, <2>2, <2>4, <2>5, CallKeeps
<1>8. ASSUME NEW text \in Texts, Execute(text) PROVE Inv'
  <2> DEFINE t == Echoes \o serial_writeline(text) \o serial_writeline(Prompt)
             b == <<val, Newline>>
             s == b \o text \o Prompt
             z == <<>>
  <2>0. text \in Seq(Byte)
    BY Constants
  <2>1. /\ Code(t, s, z) /\ First(t) = "out" /\ "idle" \in Then(Final(t)) /\ z = <<>>
    <3>1. Printing(t, s)
      BY <1>1, <2>0, ExecuteCode
    <3> QED BY <3>1 DEF Printing, Then
  <2>2. /\ mode = "shell" /\ todo' = t /\ asked' = Cat(asked, s) /\ slave' = slave /\ want' = want
        /\ mode' = mode /\ leds' = leds
    BY <1>8 DEF Execute, Prints, Cat
  <2>3. Len(s) = Len(text) + Len(Prompt) + 2
    <3>1. b \in Seq(Byte) /\ Len(b) = 2
      BY <1>1, <1>6
    <3> HIDE DEF b
    <3>2. s = Cat(Cat(b, text), Prompt)
      BY DEF Cat
    <3>3. Cat(b, text) \in Seq(Byte) /\ Len(Cat(b, text)) = 2 + Len(text) /\ Len(text) \in Nat
      BY <2>0, <3>1, LenOfCat, CatAssociative, Zenon
    <3>4. Len(Cat(Cat(b, text), Prompt)) = Len(Cat(b, text)) + Len(Prompt)
      BY <1>6, <3>3, LenOfCat, Zenon
    <3> HIDE DEF s
    <3> QED BY <1>6, <3>2, <3>3, <3>4
  <2> HIDE DEF t, s, z
  <2>4. Begins(t, s, z)
    BY <1>2, <1>3, <1>4, <2>1, <2>2 DEF Begins
  <2>5. Len(s) <= Len(text) + Len(Prompt) + 2 /\ text \in Texts \cup {Motd}
    <3>1. Len(text) \in Nat
      BY <2>0, LenProperties
    <3> QED BY <1>6, <2>3, <3>1
  <2> QED BY <1>1, <1>2, <2>2, <2>4, <2>5, CallKeeps
<1>9. ASSUME ExecuteSpi PROVE Inv'
  <2> DEFINE t == Echoes \o spiBegin
             s == <<val, Newline>>
             z == <<>>
  <2>1. /\ Code(t, s, z) /\ First(t) = "out" /\ "idle" \in Then(Final(t)) /\ z = <<>>
        /\ \E k \in DOMAIN t : t[k] = SelectLow
    BY <1>1, ExecuteSpiCode DEF Then
  <2>2. /\ todo' = t /\ asked' = Cat(asked, s) /\ slave' = slave /\ want' = want
        /\ mode' = "spi" /\ leds' = leds
    BY <1>9 DEF ExecuteSpi, Prints, Cat
  <2>3. Len(s) = 2
    OBVIOUS
  <2> HIDE DEF t, s, z
  <2>4. Begins(t, s, z)
    BY <1>2, <1>3, <1>4, <2>1, <2>2 DEF Begins
  <2>5. Len(s) <= Len(Motd) + Len(Prompt) + 2
    BY <1>6, <2>3
  <2> QED BY <1>2, <1>6, <2>2, <2>4, <2>5, CallKeeps
<1>10. ASSUME Spi PROVE Inv'
  <2> DEFINE t == spiWrite(val)
             s == <<>>
             z == Bits(val)
  <2>1. /\ Code(t, s, z) /\ First(t) \in {"one", "zero"} /\ "idle" \in Then(Final(t))
    BY <1>1, SpiWriteCode DEF Then
  <2>2. /\ mode = "spi" /\ todo' = t /\ slave' = <<>> /\ want' = z
        /\ mode' = mode /\ leds' = leds
    BY <1>10 DEF Spi
  <2>3. asked' = Cat(asked, s) /\ Len(s) = 0
    <3>1. asked \in Seq(Byte) /\ asked' = asked
      BY <1>1, <1>10 DEF Spi, TypeOK
    <3> QED BY <3>1, CatNothing
  <2> HIDE DEF t, s, z
  <2>4. Begins(t, s, z)
    BY <1>2, <1>3, <1>4, <1>5, <2>1, <2>2, <2>3 DEF Begins
  <2>5. Len(s) <= Len(Motd) + Len(Prompt) + 2
    BY <1>6, <2>3
  <2> QED BY <1>1, <1>2, <1>6, <2>2, <2>4, <2>5, CallKeeps
<1>11. ASSUME LeaveSpi PROVE Inv'
  <2> DEFINE t == spiEnd \o serial_writeline(Prompt)
             s == Prompt
             z == <<>>
  <2>1. /\ Code(t, s, z) /\ First(t) = "selectHigh" /\ "idle" \in Then(Final(t)) /\ z = <<>>
    BY LeaveSpiCode DEF Then
  <2>2. /\ todo' = t /\ asked' = Cat(asked, s) /\ slave' = slave /\ want' = want
        /\ mode' = "shell" /\ leds' = leds
    BY <1>11 DEF LeaveSpi, Prints, Cat
  <2>3. Len(s) = Len(Prompt)
    OBVIOUS
  <2> HIDE DEF t, s, z
  <2>4. Begins(t, s, z)
    BY <1>2, <1>3, <1>4, <2>1, <2>2 DEF Begins
  <2>5. Len(s) <= Len(Motd) + Len(Prompt) + 2
    BY <1>6, <2>3
  <2> QED BY <1>2, <1>6, <2>2, <2>4, <2>5, CallKeeps
<1>12. ASSUME NEW routine, ExecuteLed(routine) PROVE FALSE
  <2>1. leds \in 0 .. Leds /\ leds' = leds + 1
    BY <1>1, <1>12 DEF ExecuteLed, TypeOK
  <2> QED BY <2>1, BoardAssumption
<1> QED BY <1>7, <1>8, <1>9, <1>10, <1>11, <1>12 DEF HasRead

\* A thread of the scheduler prints a text, on the simulator.
LEMMA ThreadPrintsKeeps ==
    ASSUME Inv, RunInv, NEW text \in Texts, ThreadPrints(text)
    PROVE  Inv'
<1> DEFINE t == serial_writeline(text)
<1>1. TypeOK /\ hw = "simulator" /\ todo = <<>> /\ text \in Seq(Byte) /\ Prompt \in Seq(Byte)
  BY Constants DEF Inv, ThreadPrints
<1>2. /\ todo' = t /\ asked' = Cat(asked, text) /\ slave' = slave /\ want' = want
      /\ hw' = hw /\ ora' = ora /\ ddra' = ddra /\ orb' = orb /\ ddrb' = ddrb /\ um' = um
      /\ tx' = tx /\ rx' = rx /\ val' = val /\ mode' = mode /\ leds' = leds /\ typed' = typed
  BY DEF ThreadPrints, Prints, Cat, via
<1>3. /\ Code(t, text, <<>>) /\ t \in Seq(PrintAccesses) /\ First(t) = "out" /\ "idle" \in Then(Final(t))
  BY <1>1, WritelineCode DEF Printing, Then
<1> HIDE DEF t
<1>4. asked = tx /\ want = slave /\ typed = rx
  BY <1>1, AtRest
<1>5. tx \in Seq(Byte) /\ rx \in Seq(Byte) /\ slave \in Seq({0, 1})
  BY <1>1 DEF TypeOK
<1>6. Cat(<<>>, text) = text /\ Cat(<<>>, rx) = rx
  BY <1>1, <1>5, CatNothing
<1>7. Cat(slave, <<>>) = slave /\ Cat(<<>>, <<>>) = <<>>
  BY <1>5, CatNothing DEF Cat
<1>8. Here' = "out"
  BY <1>2, <1>3 DEF Here
<1>9. OnPort' = <<>> /\ BitOnPort' = <<>> /\ Returned' = <<>>
  BY <1>8 DEF OnPort, BitOnPort, Returned
<1>10. Mapped(ByteOf, todo') = text /\ Mapped(BitOf, todo') = <<>>
  BY <1>2, <1>3 DEF Code
<1>11. Histories'
  <2>1. asked' = Cat(tx', Cat(OnPort', Mapped(ByteOf, todo')))
    BY <1>2, <1>4, <1>6, <1>9, <1>10
  <2>2. want' = Cat(slave', Cat(BitOnPort', Mapped(BitOf, todo')))
    BY <1>2, <1>4, <1>7, <1>9, <1>10
  <2>3. typed' = Cat(Returned', rx')
    BY <1>2, <1>4, <1>6, <1>9
  <2> QED BY <2>1, <2>2, <2>3 DEF Histories
<1>12. Routine(todo)'
  BY <1>2, <1>3, CodeRoutine
<1>13. AtSimulator'
  <2>1. AtSimulator
    BY <1>1 DEF RunInv
  <2> QED BY <1>2, <1>3, <1>8, <2>1 DEF AtSimulator
<1>14. RunInv'
  BY <1>1, <1>2, <1>11, <1>12, <1>13 DEF RunInv
<1>15. /\ Len(asked') = Len(tx) + Len(text) /\ Len(tx) \in Nat /\ Len(text) \in Nat
       /\ Len(Prompt) \in Nat /\ asked' \in Seq(Byte)
  BY <1>1, <1>2, <1>4, <1>5, LenOfCat, CatAssociative, LenProperties
<1>16. OneCall'
  BY <1>2, <1>15 DEF OneCall
<1>17. AtMostOneCallAhead'
  <2>1. Len(asked') <= TxCap + (Len(text) + Len(Prompt) + 2)
    BY <1>1, <1>15, Constants DEF TypeOK
  <2> QED BY <2>1 DEF AtMostOneCallAhead
<1>18. TypeOK'
  BY <1>1, <1>2, <1>15, <1>17 DEF TypeOK
<1> QED BY <1>14, <1>16, <1>18 DEF Inv

-----------------------------------------------------------------------------
(* The host and the user.                                                   *)

\* The parts of the histories are sequences of bytes and of bits.
LEMMA PartTypes ==
    ASSUME TypeOK, todo \in Seq(Accesses)
    PROVE  /\ OnPort \in Seq(Byte) /\ Mapped(ByteOf, todo) \in Seq(Byte)
           /\ Cat(OnPort, Mapped(ByteOf, todo)) \in Seq(Byte)
           /\ BitOnPort \in Seq({0, 1}) /\ Mapped(BitOf, todo) \in Seq({0, 1})
           /\ Cat(BitOnPort, Mapped(BitOf, todo)) \in Seq({0, 1})
           /\ Returned \in Seq(Byte)
<1>1. orb \in Byte /\ val \in Byte
  BY DEF TypeOK
<1>2. OnPort \in Seq(Byte) /\ Returned \in Seq(Byte)
  <2>1. <<orb>> \in Seq(Byte) /\ <<val>> \in Seq(Byte) /\ <<>> \in Seq(Byte)
    BY <1>1
  <2> QED BY <2>1 DEF OnPort, Returned
<1>3. BitOnPort \in Seq({0, 1})
  <2> DEFINE b == IF "MOSI" \in ora THEN 1 ELSE 0
  <2>1. b \in {0, 1}
    OBVIOUS
  <2> HIDE DEF b
  <2>2. <<b>> \in Seq({0, 1}) /\ <<>> \in Seq({0, 1})
    BY <2>1
  <2> QED BY <2>2 DEF BitOnPort, b
<1>4. Mapped(ByteOf, todo) \in Seq(Byte) /\ Mapped(BitOf, todo) \in Seq({0, 1})
  BY StandFor, MappedType
<1>5. Cat(OnPort, Mapped(ByteOf, todo)) \in Seq(Byte)
  BY <1>2, <1>4, CatAssociative
<1>6. Cat(BitOnPort, Mapped(BitOf, todo)) \in Seq({0, 1})
  BY <1>3, <1>4, CatAssociative
<1> QED BY <1>2, <1>3, <1>4, <1>5, <1>6

\* The host takes a byte from the chip.
LEMMA HostTakesKeeps ==
    ASSUME Inv, RunInv, HostTakes
    PROVE  Inv'
<1>1. TypeOK /\ todo \in Seq(Accesses) /\ OneCall
  BY DEF Inv, RunInv, Routine
<1>2. tx # <<>> /\ tx' = Tail(tx) /\ asked' = Tail(asked)
  BY DEF HostTakes
<1>3. /\ hw' = hw /\ ora' = ora /\ ddra' = ddra /\ orb' = orb /\ ddrb' = ddrb /\ um' = um
      /\ rx' = rx /\ slave' = slave /\ todo' = todo /\ val' = val /\ mode' = mode /\ leds' = leds
      /\ want' = want /\ typed' = typed
  BY DEF HostTakes, via, program
<1> DEFINE r == Cat(OnPort, Mapped(ByteOf, todo))
<1>4. r \in Seq(Byte) /\ asked = Cat(tx, r) /\ tx \in Seq(Byte)
  BY <1>1, PartTypes DEF RunInv, Histories, TypeOK
<1>5. OnPort' = OnPort /\ BitOnPort' = BitOnPort /\ Returned' = Returned /\ Here' = Here
  BY <1>3 DEF OnPort, BitOnPort, Returned, Here
<1>6. r' = r
  BY <1>3, <1>5
<1> HIDE DEF r
<1>7. /\ asked' = Cat(tx', r) /\ tx' \in Seq(Byte) /\ Len(tx') = Len(tx) - 1 /\ Len(tx) \in Nat
      /\ Len(tx) > 0 /\ Len(asked) = Len(tx) + Len(r) /\ Len(r) \in Nat
  BY <1>2, <1>4, TailOfCat
<1>8. asked' \in Seq(Byte) /\ Len(asked') = Len(tx') + Len(r)
  BY <1>4, <1>7, LenOfCat, CatAssociative
<1>9. Histories'
  <2>1. asked' = Cat(tx', Cat(OnPort', Mapped(ByteOf, todo')))
    BY <1>3, <1>5, <1>7 DEF r
  <2> QED BY <1>3, <1>5, <2>1 DEF RunInv, Histories
<1>10. hw = "um245r" => AtChip'
  <2> SUFFICES ASSUME hw = "um245r" PROVE AtChip'
    OBVIOUS
  <2>1. AtChip
    BY DEF RunInv
  <2>2. Len(tx) < TxCap => Len(tx') < TxCap
    BY <1>7, Constants
  <2>3. IsIn(SelectLow)' <=> IsIn(SelectLow)
    BY <1>3 DEF IsIn
  <2> QED BY <1>3, <1>5, <2>1, <2>2, <2>3 DEF AtChip
<1>11. hw = "simulator" => AtSimulator'
  BY <1>3, <1>5 DEF RunInv, AtSimulator
<1>12. RunInv'
  BY <1>3, <1>9, <1>10, <1>11 DEF RunInv
<1>13. OneCall'
  <2>1. PICK s \in Texts \cup {Motd} : Len(asked) <= Len(tx) + (Len(s) + Len(Prompt) + 2)
    BY <1>1 DEF OneCall
  <2>2. Len(s) \in Nat /\ Len(Prompt) \in Nat
    BY Constants, LenProperties
  <2>3. Len(asked') <= Len(tx') + (Len(s) + Len(Prompt) + 2)
    BY <1>7, <1>8, <2>1, <2>2
  <2> QED BY <2>3 DEF OneCall
<1>14. AtMostOneCallAhead'
  <2>1. PICK s \in Texts \cup {Motd} : Len(asked) <= TxCap + (Len(s) + Len(Prompt) + 2)
    BY <1>1 DEF TypeOK, AtMostOneCallAhead
  <2>2. Len(s) \in Nat /\ Len(Prompt) \in Nat
    BY Constants, LenProperties
  <2>3. Len(asked') <= TxCap + (Len(s) + Len(Prompt) + 2)
    BY <1>7, <1>8, <2>1, <2>2, Constants
  <2> QED BY <2>3 DEF AtMostOneCallAhead
<1>15. TypeOK'
  BY <1>1, <1>3, <1>7, <1>8, <1>14, Constants DEF TypeOK
<1> QED BY <1>12, <1>13, <1>15 DEF Inv

\* The user types a key, for which the chip has room.
LEMMA UserTypesKeeps ==
    ASSUME Inv, RunInv, NEW key \in Keys, UserTypes(key)
    PROVE  Inv'
<1>1. TypeOK /\ todo \in Seq(Accesses) /\ OneCall /\ hw = "um245r" /\ key \in Byte
  BY Constants DEF Inv, RunInv, Routine, UserTypes
<1>2. Len(rx) < RxCap /\ rx' = Append(rx, key) /\ typed' = Append(typed, key)
  BY DEF UserTypes
<1>3. /\ hw' = hw /\ ora' = ora /\ ddra' = ddra /\ orb' = orb /\ ddrb' = ddrb /\ um' = um
      /\ tx' = tx /\ slave' = slave /\ todo' = todo /\ val' = val /\ mode' = mode /\ leds' = leds
      /\ want' = want /\ asked' = asked
  BY DEF UserTypes, via, program
<1>4. OnPort' = OnPort /\ BitOnPort' = BitOnPort /\ Returned' = Returned /\ Here' = Here
  BY <1>3 DEF OnPort, BitOnPort, Returned, Here
<1>5. rx \in Seq(Byte) /\ Len(rx) \in Nat /\ Returned \in Seq(Byte) /\ typed = Cat(Returned, rx)
  BY <1>1, PartTypes, LenProperties DEF RunInv, Histories, TypeOK
<1>6. rx' \in Seq(Byte) /\ Len(rx') = Len(rx) + 1 /\ rx' # <<>> /\ \A k \in 1 .. Len(rx) : rx'[k] = rx[k]
  <2>1. /\ rx' \in Seq(Byte) /\ Len(rx') = Len(rx) + 1 /\ \A k \in 1 .. Len(rx) : rx'[k] = rx[k]
    BY <1>1, <1>2, <1>5, AppendProperties
  <2> QED BY <1>5, <2>1, EmptySeq
<1>7. rx # <<>> => Head(rx') = Head(rx)
  <2> SUFFICES ASSUME rx # <<>> PROVE Head(rx') = Head(rx)
    OBVIOUS
  <2>1. Head(rx) = rx[1] /\ Head(rx') = rx'[1] /\ Len(rx) # 0
    BY <1>5, <1>6, HeadAndTail, EmptySeq
  <2>2. 1 \in 1 .. Len(rx)
    BY <1>5, <2>1
  <2> QED BY <1>6, <2>1, <2>2
<1>8. typed' = Cat(Returned', rx')
  BY <1>1, <1>2, <1>4, <1>5, AppendToCat
<1>9. Histories'
  BY <1>3, <1>4, <1>8 DEF RunInv, Histories
<1>10. AtChip'
  <2>1. AtChip
    BY <1>1 DEF RunInv
  <2>2. IsIn(SelectLow)' <=> IsIn(SelectLow)
    BY <1>3 DEF IsIn
  <2>3. Here = "readHigh" => val = Head(rx')
    BY <1>7, <2>1 DEF AtChip
  <2> QED BY <1>3, <1>4, <1>6, <2>1, <2>2, <2>3 DEF AtChip
<1>11. RunInv'
  BY <1>1, <1>3, <1>9, <1>10 DEF RunInv
<1>12. OneCall'
  BY <1>1, <1>3 DEF OneCall
<1>13. TypeOK'
  <2>1. Len(rx') <= RxCap
    BY <1>2, <1>5, <1>6, Constants
  <2> QED BY <1>1, <1>3, <1>6, <2>1 DEF TypeOK, AtMostOneCallAhead
<1> QED BY <1>11, <1>12, <1>13 DEF Inv

-----------------------------------------------------------------------------
(* The accesses of a routine.                                               *)

\* What an access says, by its kind.
LEMMA Says ==
    ASSUME NEW a \in Accesses
    PROVE  /\ a.op \in {"dirB", "putB", "getB", "outA", "flipA", "wait", "return"}
           /\ a.op = "dirB" => Kind(a) \in {"in", "out"} /\ a.to = Kind(a)
           /\ a.op = "putB" => Kind(a) = "put"
           /\ a.op = "getB" => Kind(a) = "get"
           /\ a.op = "wait" => \/ Kind(a) = "wait" /\ a.pin = "TXE"
                               \/ Kind(a) = "waitKey" /\ a.pin = "RXF"
           /\ a.op = "flipA" => Kind(a) = "flip" /\ a.pin = "CLK"
           /\ a.op = "outA" =>
                \/ Kind(a) = "low" /\ a.on = {} /\ a.off = {"WE"}
                \/ Kind(a) = "high" /\ a.on = {"WE"} /\ a.off = {}
                \/ Kind(a) = "readLow" /\ a.on = {} /\ a.off = {"RD"}
                \/ Kind(a) = "readHigh" /\ a.on = {"RD"} /\ a.off = {}
                \/ Kind(a) = "one" /\ a.on = {"MOSI"} /\ a.off = {}
                \/ Kind(a) = "zero" /\ a.on = {} /\ a.off = {"MOSI"}
                \/ Kind(a) = "clockHigh" /\ a.on = {"CLK"} /\ a.off = {}
                \/ Kind(a) = "selectLow" /\ a.on = {} /\ a.off = {"CS"}
                \/ Kind(a) = "selectHigh" /\ a.on = {"CS"} /\ a.off = {}
<1>1. CASE a \in Puts
  <2>1. PICK b \in Byte : a = PutB(b)
    BY <1>1 DEF Puts
  <2>2. a.op = "putB"
    BY <2>1 DEF PutB
  <2> QED BY <2>1, <2>2, Kinds
<1>2. CASE a \in {DirB("out"), DirB("in")}
  <2>1. a.op = "dirB" /\ a.to \in {"out", "in"} /\ a = DirB(a.to)
    BY <1>2 DEF DirB
  <2> QED BY <2>1, Kinds
<1>3. CASE a \in {Wait("TXE"), Wait("RXF")}
  <2>1. a.op = "wait" /\ a.pin \in {"TXE", "RXF"} /\ a = Wait(a.pin)
    BY <1>3 DEF Wait
  <2> QED BY <2>1, Kinds
<1>4. CASE a = GetB
  <2>1. a.op = "getB"
    BY <1>4 DEF GetB
  <2> QED BY <1>4, <2>1, Kinds
<1>5. CASE a = Return
  <2>1. a.op = "return"
    BY <1>5 DEF Return
  <2> QED BY <2>1
<1>6. CASE a = FlipA("CLK")
  <2>1. a.op = "flipA" /\ a.pin = "CLK"
    BY <1>6 DEF FlipA
  <2> QED BY <1>6, <2>1, Kinds
<1>7. \A on, off : OutA(on, off).op = "outA" /\ OutA(on, off).on = on /\ OutA(on, off).off = off
  BY DEF OutA
<1>8. CASE a \in {Low, High, ReadLow, ReadHigh, One, Zero, ClockHigh, SelectLow, SelectHigh}
  <2>1. a.op = "outA"
    BY <1>7, <1>8 DEF Low, High, ReadLow, ReadHigh, One, Zero, ClockHigh, SelectLow, SelectHigh
  <2>2. /\ Low.on = {} /\ Low.off = {"WE"} /\ High.on = {"WE"} /\ High.off = {}
        /\ ReadLow.on = {} /\ ReadLow.off = {"RD"} /\ ReadHigh.on = {"RD"} /\ ReadHigh.off = {}
        /\ One.on = {"MOSI"} /\ One.off = {} /\ Zero.on = {} /\ Zero.off = {"MOSI"}
        /\ ClockHigh.on = {"CLK"} /\ ClockHigh.off = {}
        /\ SelectLow.on = {} /\ SelectLow.off = {"CS"} /\ SelectHigh.on = {"CS"} /\ SelectHigh.off = {}
    BY <1>7 DEF Low, High, ReadLow, ReadHigh, One, Zero, ClockHigh, SelectLow, SelectHigh
  <2> QED BY <1>8, <2>1, <2>2, Kinds
<1> QED BY <1>1, <1>2, <1>3, <1>4, <1>5, <1>6, <1>8 DEF Accesses, PrintAccesses, ReadAccesses, ShiftAccesses

\* What an access does to the rest, whatever stands behind the ports.
Moves ==
    /\ todo # <<>> /\ Here # "return" /\ todo' = Tail(todo)
    /\ hw' = hw /\ mode' = mode /\ leds' = leds /\ asked' = asked /\ typed' = typed /\ want' = want
    /\ tx' = IF Here = "high" THEN Append(tx, orb) ELSE tx
    /\ rx' = IF Here = "readHigh" THEN Tail(rx) ELSE rx
    /\ slave' = IF Here = "flip" THEN Append(slave, IF "MOSI" \in ora THEN 1 ELSE 0) ELSE slave
    /\ val' = IF Here = "get" THEN Head(rx) ELSE val
    /\ Here = "put" => orb' = Head(todo).byte
    /\ Here # "put" => orb' = orb
    /\ Here \in {"in", "out"} => ddrb' = Here
    /\ Here \notin {"in", "out"} => ddrb' = ddrb
    /\ Here = "high" => Len(tx) < TxCap

\* What it does to the pins of the VIA.
MovesPins ==
    /\ ddra' = Driven /\ ora' \subseteq Pins /\ um' = um
    /\ "WE" \in ora' <=> Here # "low"
    /\ "RD" \in ora' <=> Here \notin {"readLow", "get"}
    /\ "CLK" \in ora' <=> Here = "clockHigh"
    /\ "CS" \in ora' <=> Here = "selectHigh" \/ ("CS" \in ora /\ Here # "selectLow")
    /\ "MOSI" \in ora' <=> Here = "one" \/ ("MOSI" \in ora /\ Here # "zero")
    /\ Here = "wait" => Len(tx) # TxCap
    /\ Here = "waitKey" => rx # <<>>

\* The first access of a routine under way, and its kind.
LEMMA HereIs ==
    ASSUME RunInv, todo # <<>>
    PROVE  /\ Head(todo) \in Accesses /\ Here = Kind(Head(todo)) /\ Routine(Tail(todo))
           /\ First(Tail(todo)) \in Then(Here)
BY RoutineTail DEF RunInv, Here

\* On the board, an access does that.
LEMMA ChipMoves ==
    ASSUME Inv, RunInv, hw = "um245r", Step
    PROVE  Moves /\ MovesPins
<1> DEFINE a == Head(todo)
<1>1. TypeOK /\ AtChip
  BY DEF Inv, RunInv
<1>2. todo # <<>>
  BY DEF Step, SetDirA, SetDirB, PutByte, GetByte, ChangeA, Waited, Does
<1>3. a \in Accesses /\ Here = Kind(a)
  BY <1>2, HereIs
<1>4. /\ todo' = Tail(todo) /\ hw' = hw /\ mode' = mode /\ leds' = leds /\ asked' = asked
      /\ typed' = typed /\ want' = want
  BY DEF Step, SetDirA, SetDirB, PutByte, GetByte, ChangeA, Waited, Done
<1>5. /\ ora \subseteq Pins /\ ddra = Driven /\ orb \in Byte /\ ddrb \in {"in", "out"}
      /\ "WE" \in ora <=> Here # "high"
      /\ "RD" \in ora <=> Here \notin {"get", "readHigh"}
      /\ "CLK" \in ora <=> Here = "flip"
      /\ Here = "high" => ddrb = "out" /\ Len(tx) < TxCap
      /\ Here \in {"get", "readHigh"} => ddrb = "in" /\ rx # <<>>
      /\ Here = "flip" => "CS" \notin ora
  BY <1>1 DEF AtChip, TypeOK
<1>6. /\ \A p \in Driven : p \in PortA <=> p \in ora
      /\ "TXE" \in PortA <=> Len(tx) = TxCap
      /\ "RXF" \in PortA <=> rx = <<>>
      /\ PortA \subseteq Pins
  <2>1. PortA = (ora \cap Driven) \cup (Inputs \ Driven)
    BY <1>5 DEF PortA, ToVia
  <2>2. Driven = {"WE", "RD", "MOSI", "CLK", "CS"}
    BY DEF Driven
  <2>3. "TXE" \in Inputs <=> Len(tx) = TxCap
    BY DEF Inputs, Pins
  <2>4. "RXF" \in Inputs <=> rx = <<>>
    BY DEF Inputs, Pins
  <2>5. Inputs \subseteq Pins
    BY DEF Inputs, Pins
  <2> QED BY <1>5, <2>1, <2>2, <2>3, <2>4, <2>5
<1>7. CASE SetDirA
  <2>1. a.op = "dirA"
    BY <1>7 DEF SetDirA, Does
  <2> QED BY <1>3, <2>1, Says
<1>8. CASE SetDirB
  <2>1. /\ a.op = "dirB" /\ ddrb' = a.to /\ ora' = ora /\ ddra' = ddra /\ orb' = orb /\ um' = um
        /\ tx' = tx /\ rx' = rx /\ slave' = slave /\ val' = val
    BY <1>8 DEF SetDirB, Does, Access, chip
  <2>2. Here \in {"in", "out"} /\ a.to = Here
    BY <1>3, <2>1, Says
  <2> QED BY <1>2, <1>4, <1>5, <2>1, <2>2 DEF Moves, MovesPins
<1>9. CASE PutByte
  <2>1. /\ a.op = "putB" /\ orb' = a.byte /\ ora' = ora /\ ddra' = ddra /\ ddrb' = ddrb /\ um' = um
        /\ tx' = tx /\ rx' = rx /\ slave' = slave /\ val' = val
    BY <1>9 DEF PutByte, Does, Access, chip
  <2>2. Here = "put"
    BY <1>3, <2>1, Says
  <2> QED BY <1>2, <1>4, <1>5, <2>1, <2>2 DEF Moves, MovesPins
<1>10. CASE GetByte
  <2>1. /\ a.op = "getB" /\ ora' = ora /\ ddra' = ddra /\ ddrb' = ddrb /\ orb' = orb /\ um' = um
        /\ tx' = tx /\ rx' = rx /\ slave' = slave
    BY <1>10 DEF GetByte, Does, Access, chip, via
  <2>2. Here = "get"
    BY <1>3, <2>1, Says
  <2>3. "RD" \in ddra /\ "RD" \notin ora /\ ddrb = "in" /\ rx # <<>>
    BY <1>5, <2>2 DEF Driven
  <2>4. val' = Head(rx)
    BY <1>10, <2>3 DEF GetByte, Level
  <2> QED BY <1>2, <1>4, <1>5, <2>1, <2>2, <2>4 DEF Moves, MovesPins
<1>11. CASE Waited
  <2>1. /\ a.op = "wait" /\ a.pin \notin PortA /\ ora' = ora /\ ddra' = ddra /\ ddrb' = ddrb
        /\ orb' = orb /\ um' = um /\ tx' = tx /\ rx' = rx /\ slave' = slave /\ val' = val
    BY <1>11 DEF Waited, Does, Access, chip, via
  <2>2. \/ Here = "wait" /\ a.pin = "TXE"
        \/ Here = "waitKey" /\ a.pin = "RXF"
    BY <1>3, <2>1, Says
  <2>3. (Here = "wait" => Len(tx) # TxCap) /\ (Here = "waitKey" => rx # <<>>)
    BY <1>6, <2>1, <2>2
  <2>4. Moves
    BY <1>2, <1>4, <2>1, <2>2, <2>3 DEF Moves
  <2>5. MovesPins
    BY <1>5, <2>1, <2>2, <2>3 DEF MovesPins
  <2> QED BY <2>4, <2>5
<1>12. CASE ChangeA
  <2>1. orb' = orb /\ ddrb' = ddrb /\ val' = val
    BY <1>12 DEF ChangeA
  <2>2. \A v : StoreA(v) => ora' = v /\ ddra' = ddra /\ um' = um /\ Edges
    BY <1>5 DEF StoreA, ToVia
  <2>3. \/ a.op = "outA" /\ ora' = (PortA \ a.off) \cup a.on
        \/ a.op = "flipA" /\ ora' = IF a.pin \in PortA THEN PortA \ {a.pin} ELSE PortA \cup {a.pin}
    BY <1>12, <2>2 DEF ChangeA, Does, Access
  <2>4. ddra' = ddra /\ um' = um /\ Edges
    BY <1>12, <2>2 DEF ChangeA
  <2>5. Here \in {"low", "high", "readLow", "readHigh", "one", "zero", "clockHigh", "flip",
                  "selectLow", "selectHigh"}
    BY <1>3, <2>3, Says
  <2>6. /\ ora' \subseteq Pins
        /\ "WE" \in ora' <=> Here = "high" \/ ("WE" \in ora /\ Here # "low")
        /\ "RD" \in ora' <=> Here = "readHigh" \/ ("RD" \in ora /\ Here # "readLow")
        /\ "CLK" \in ora' <=> Here = "clockHigh" \/ ("CLK" \in ora /\ Here # "flip")
        /\ "CS" \in ora' <=> Here = "selectHigh" \/ ("CS" \in ora /\ Here # "selectLow")
        /\ "MOSI" \in ora' <=> Here = "one" \/ ("MOSI" \in ora /\ Here # "zero")
    <3>1. CASE a.op = "flipA"
      <4>1. Here = "flip" /\ a.pin = "CLK" /\ a.op # "outA"
        BY <1>3, <3>1, Says
      <4>2. "CLK" \in PortA
        BY <1>5, <1>6, <4>1 DEF Driven
      <4>3. ora' = PortA \ {"CLK"}
        BY <2>3, <4>1, <4>2
      <4> QED BY <1>6, <4>1, <4>3 DEF Driven
    <3>2. CASE a.op = "outA"
      <4>1. ora' = (PortA \ a.off) \cup a.on
        BY <2>3, <3>2
      <4>2. /\ "WE" \in PortA <=> "WE" \in ora
            /\ "RD" \in PortA <=> "RD" \in ora
            /\ "CLK" \in PortA <=> "CLK" \in ora
            /\ "CS" \in PortA <=> "CS" \in ora
            /\ "MOSI" \in PortA <=> "MOSI" \in ora
        BY <1>6 DEF Driven
      <4>3. /\ "WE" \in Pins /\ "RD" \in Pins /\ "CLK" \in Pins /\ "CS" \in Pins /\ "MOSI" \in Pins
        BY DEF Pins
      <4>4. \/ Here = "low" /\ a.on = {} /\ a.off = {"WE"}
            \/ Here = "high" /\ a.on = {"WE"} /\ a.off = {}
            \/ Here = "readLow" /\ a.on = {} /\ a.off = {"RD"}
            \/ Here = "readHigh" /\ a.on = {"RD"} /\ a.off = {}
            \/ Here = "one" /\ a.on = {"MOSI"} /\ a.off = {}
            \/ Here = "zero" /\ a.on = {} /\ a.off = {"MOSI"}
            \/ Here = "clockHigh" /\ a.on = {"CLK"} /\ a.off = {}
            \/ Here = "selectLow" /\ a.on = {} /\ a.off = {"CS"}
            \/ Here = "selectHigh" /\ a.on = {"CS"} /\ a.off = {}
        BY <1>3, <3>2, Says
      <4> HIDE DEF a
      <4> QED BY <1>6, <4>1, <4>2, <4>3, <4>4
    <3> QED BY <2>3, <3>1, <3>2
  <2>7. /\ Rises("WE") <=> Here = "high"
        /\ Rises("RD") <=> Here = "readHigh"
        /\ Falls("CLK") <=> Here = "flip"
        /\ Level("CS", ora, ddra) <=> "CS" \in ora
        /\ Level("MOSI", ora, ddra) <=> "MOSI" \in ora
    <3>1. /\ "WE" \in ddra /\ "RD" \in ddra /\ "CLK" \in ddra /\ "CS" \in ddra /\ "MOSI" \in ddra
      BY <1>5 DEF Driven
    <3> QED BY <1>5, <2>4, <2>5, <2>6, <3>1 DEF Rises, Falls, Level
  <2>8. tx' = IF Here = "high" THEN Append(tx, orb) ELSE tx
    BY <1>5, <2>4, <2>7 DEF Edges
  <2>9. rx' = IF Here = "readHigh" THEN Tail(rx) ELSE rx
    BY <1>5, <2>4, <2>7 DEF Edges
  <2>10. slave' = IF Here = "flip" THEN Append(slave, IF "MOSI" \in ora THEN 1 ELSE 0) ELSE slave
    BY <1>5, <2>4, <2>7 DEF Edges
  <2>11. MovesPins
    BY <1>5, <2>4, <2>5, <2>6 DEF MovesPins
  <2>12. Moves
    BY <1>2, <1>4, <1>5, <2>1, <2>5, <2>8, <2>9, <2>10 DEF Moves
  <2> QED BY <2>11, <2>12
<1> QED BY <1>7, <1>8, <1>9, <1>10, <1>11, <1>12 DEF Step

\* Behind the addresses of the simulator's bus are the chip at port A, the VIA at port B.
LEMMA Devices == Device(PORTA) = "um245" /\ Device(PORTB) = "via"
<1> DEFINE devices == <<Ram, Rom, Spy, Um245, Via6522>>
           At(addr) == {k \in DOMAIN devices : Between(addr, devices[k])}
<1>1. DOMAIN devices = 1 .. 5
  OBVIOUS
<1>2. /\ devices[1] = Ram /\ devices[2] = Rom /\ devices[3] = Spy /\ devices[4] = Um245
      /\ devices[5] = Via6522
  OBVIOUS
<1>3. \A addr : Device(addr) = devices[CHOOSE k \in At(addr) : \A j \in At(addr) : k <= j].name
  BY DEF Device
<1> HIDE DEF devices
<1>4. /\ ~Between(PORTA, Ram) /\ ~Between(PORTA, Rom) /\ ~Between(PORTA, Spy)
      /\ Between(PORTA, Um245) /\ Between(PORTA, Via6522)
  BY DEF PORTA, Between, Ram, Rom, Spy, Um245, Via6522
<1>5. /\ ~Between(PORTB, Ram) /\ ~Between(PORTB, Rom) /\ ~Between(PORTB, Spy)
      /\ ~Between(PORTB, Um245) /\ Between(PORTB, Via6522)
  BY DEF PORTB, Between, Ram, Rom, Spy, Um245, Via6522
<1>6. At(PORTA) = {4, 5}
  BY <1>1, <1>2, <1>4
<1>7. At(PORTB) = {5}
  BY <1>1, <1>2, <1>5
<1>8. (CHOOSE k \in At(PORTA) : \A j \in At(PORTA) : k <= j) = 4
  <2>1. \A k \in {4, 5} : (\A j \in {4, 5} : k <= j) <=> k = 4
    OBVIOUS
  <2> QED BY <1>6, <2>1
<1>9. (CHOOSE k \in At(PORTB) : \A j \in At(PORTB) : k <= j) = 5
  BY <1>7
<1>10. Um245.name = "um245" /\ Via6522.name = "via"
  BY DEF Um245, Via6522
<1> QED BY <1>2, <1>3, <1>8, <1>9, <1>10

\* The kinds of the accesses that print.
LEMMA PrintKinds ==
    ASSUME NEW a \in PrintAccesses
    PROVE  a \in Accesses /\ Kind(a) \in {"out", "wait", "put", "low", "high"}
BY Kinds DEF Accesses, PrintAccesses, Puts

\* On the simulator, an access of a routine that prints does that.
LEMMA SimulatorMoves ==
    ASSUME Inv, RunInv, hw = "simulator", Step
    PROVE  /\ Moves /\ ora' = ora /\ ddra' = ddra
           /\ um' \in {"UNDEFINED_STATE", "WRITE_HIGH", "WRITE_LOW"}
           /\ Here = "low" => um' = "WRITE_LOW"
           /\ Here \in {"out", "wait", "put", "low", "high"}
<1> DEFINE a == Head(todo)
<1>1. TypeOK /\ AtSimulator
  BY DEF Inv, RunInv
<1>2. todo # <<>>
  BY DEF Step, SetDirA, SetDirB, PutByte, GetByte, ChangeA, Waited, Does
<1>3. a \in PrintAccesses /\ a \in Accesses /\ Here = Kind(a)
      /\ Here \in {"out", "wait", "put", "low", "high"}
  <2>1. a \in PrintAccesses
    BY <1>1, <1>2, HeadAndTail DEF AtSimulator
  <2> QED BY <1>2, <2>1, HereIs, PrintKinds
<1>4. /\ todo' = Tail(todo) /\ hw' = hw /\ mode' = mode /\ leds' = leds /\ asked' = asked
      /\ typed' = typed /\ want' = want
  BY DEF Step, SetDirA, SetDirB, PutByte, GetByte, ChangeA, Waited, Done
<1>5. um \in {"UNDEFINED_STATE", "WRITE_HIGH", "WRITE_LOW"} /\ (Here = "high" => um = "WRITE_LOW")
  BY <1>1 DEF TypeOK, AtSimulator
<1>6. ~ToVia(PORTA) /\ PortA = {"CS"}
  BY Devices DEF ToVia, PortA
<1>7. CASE SetDirA
  <2>1. a.op = "dirA"
    BY <1>7 DEF SetDirA, Does
  <2> QED BY <1>3, <2>1, Says
<1>8. CASE SetDirB
  <2>1. /\ a.op = "dirB" /\ ddrb' = a.to /\ ora' = ora /\ ddra' = ddra /\ orb' = orb /\ um' = um
        /\ tx' = tx /\ rx' = rx /\ slave' = slave /\ val' = val
    BY <1>8 DEF SetDirB, Does, Access, chip
  <2>2. Here = "out" /\ a.to = Here
    BY <1>3, <2>1, Says
  <2> QED BY <1>2, <1>4, <1>5, <2>1, <2>2 DEF Moves
<1>9. CASE PutByte
  <2>1. /\ a.op = "putB" /\ orb' = a.byte /\ ora' = ora /\ ddra' = ddra /\ ddrb' = ddrb /\ um' = um
        /\ tx' = tx /\ rx' = rx /\ slave' = slave /\ val' = val
    BY <1>9 DEF PutByte, Does, Access, chip
  <2>2. Here = "put"
    BY <1>3, <2>1, Says
  <2> QED BY <1>2, <1>4, <1>5, <2>1, <2>2 DEF Moves
<1>10. CASE GetByte
  <2>1. a.op = "getB"
    BY <1>10 DEF GetByte, Does
  <2> QED BY <1>3, <2>1, Says
<1>11. CASE Waited
  <2>1. /\ a.op = "wait" /\ ora' = ora /\ ddra' = ddra /\ ddrb' = ddrb
        /\ orb' = orb /\ um' = um /\ tx' = tx /\ rx' = rx /\ slave' = slave /\ val' = val
    BY <1>11 DEF Waited, Does, chip, via
  <2>2. Here = "wait"
    BY <1>3, <2>1, Says
  <2> QED BY <1>2, <1>4, <1>5, <2>1, <2>2 DEF Moves
<1>12. CASE ChangeA
  <2>1. orb' = orb /\ ddrb' = ddrb /\ val' = val
    BY <1>12 DEF ChangeA
  <2>2. \A v : StoreA(v) => Um245_Write(v) /\ ora' = ora /\ ddra' = ddra /\ rx' = rx /\ slave' = slave
    BY <1>6 DEF StoreA
  <2>3. a.op # "flipA"
    BY <1>3, Says
  <2>4. /\ a.op = "outA" /\ Um245_Write(({"CS"} \ a.off) \cup a.on)
        /\ ora' = ora /\ ddra' = ddra /\ rx' = rx /\ slave' = slave
    BY <1>6, <1>12, <2>2, <2>3 DEF ChangeA, Does, Access
  <2>5. \/ Here = "low" /\ a.on = {} /\ a.off = {"WE"}
        \/ Here = "high" /\ a.on = {"WE"} /\ a.off = {}
    BY <1>3, <2>4, Says
  <2>6. CASE Here = "low"
    <3>1. um' = "WRITE_LOW" /\ tx' = tx
      BY <2>4, <2>5, <2>6 DEF Um245_Write, updateState
    <3> QED BY <1>2, <1>4, <2>1, <2>4, <2>6, <3>1 DEF Moves
  <2>7. CASE Here = "high"
    <3>1. um' = "WRITE_HIGH" /\ Len(tx) < TxCap /\ tx' = Append(tx, orb)
      BY <1>5, <2>4, <2>5, <2>7 DEF Um245_Write, updateState, pipeWrite
    <3> QED BY <1>2, <1>4, <2>1, <2>4, <2>7, <3>1 DEF Moves
  <2> QED BY <2>5, <2>6, <2>7
<1> QED BY <1>3, <1>7, <1>8, <1>9, <1>10, <1>11, <1>12 DEF Step

\* It is followed by what may follow it.
LEMMA HereNext ==
    ASSUME RunInv, Moves
    PROVE  Routine(todo)' /\ Here' = First(Tail(todo)) /\ Here' \in Then(Here)
<1>1. todo # <<>> /\ todo' = Tail(todo)
  BY DEF Moves
<1>2. Here' = First(Tail(todo))
  BY <1>1 DEF Here
<1> QED BY <1>1, <1>2, HereIs

\* The byte on its way moves on: from what is left to the port, and into the chip.
LEMMA BytesMove ==
    ASSUME TypeOK, RunInv, Moves
    PROVE  asked' = Cat(tx', Cat(OnPort', Mapped(ByteOf, todo')))
<1> DEFINE a == Head(todo)
           n == Mapped(ByteOf, Tail(todo))
<1>1. /\ todo \in Seq(Accesses) /\ todo # <<>> /\ todo' = Tail(todo) /\ asked' = asked
      /\ a \in Accesses /\ Here = Kind(a) /\ Here' \in Then(Here)
      /\ Tail(todo) \in Seq(Accesses)
  BY HereIs, HereNext DEF Moves, RunInv, Routine
<1>2. Mapped(ByteOf, todo) = Cat(ByteOf[a], n) /\ n \in Seq(Byte)
  <2>1. Stands(ByteOf, Accesses, Byte) /\ todo \in Seq(Accesses) /\ todo # <<>> /\ Tail(todo) \in Seq(Accesses)
    BY <1>1, StandFor
  <2>2. Mapped(ByteOf, todo) = Cat(ByteOf[Head(todo)], Mapped(ByteOf, Tail(todo)))
    BY <2>1, MappedFirst, Zenon
  <2>3. Mapped(ByteOf, Tail(todo)) \in Seq(Byte)
    BY <2>1, MappedType, Zenon
  <2> QED BY <2>2, <2>3
<1>3. tx \in Seq(Byte) /\ orb \in Byte
  BY DEF TypeOK
<1>4. asked = Cat(tx, Cat(OnPort, Cat(ByteOf[a], n)))
  BY <1>2 DEF RunInv, Histories
<1>5. Mapped(ByteOf, todo') = n
  BY <1>1
<1> HIDE DEF n
<1>6. Cat(<<>>, n) = n
  BY <1>2, CatNothing
<1>7. CASE Here = "put"
  <2>1. ByteOf[a] = <<a.byte>> /\ a.byte \in Byte
    BY <1>1, <1>7, StandFor
  <2>2. Here' = "low" /\ orb' = a.byte /\ tx' = tx
    BY <1>1, <1>7 DEF Then, Moves
  <2> DEFINE v == <<a.byte>>
  <2>3. OnPort = <<>> /\ OnPort' = v
    BY <1>7, <2>2 DEF OnPort
  <2>4. v \in Seq(Byte)
    BY <2>1
  <2> HIDE DEF v
  <2>5. Cat(v, n) \in Seq(Byte)
    BY <1>2, <2>4, CatAssociative
  <2>6. Cat(<<>>, Cat(v, n)) = Cat(v, n)
    BY <2>5, CatNothing
  <2>7. ByteOf[a] = v
    BY <2>1 DEF v
  <2> QED BY <1>1, <1>4, <1>5, <2>2, <2>3, <2>6, <2>7
<1>8. CASE Here # "put"
  <2>1. ByteOf[a] = <<>>
    BY <1>1, <1>8, StandFor
  <2>2. asked = Cat(tx, Cat(OnPort, n))
    BY <1>4, <1>6, <2>1
  <2>3. CASE Here = "low"
    <3>1. Here' = "high" /\ orb' = orb /\ tx' = tx
      BY <1>1, <2>3 DEF Then, Moves
    <3>2. OnPort' = OnPort
      BY <2>3, <3>1 DEF OnPort
    <3> QED BY <1>1, <1>5, <2>2, <3>1, <3>2
  <2>4. CASE Here = "high"
    <3>1. Here' \notin {"low", "high"} /\ tx' = Append(tx, orb)
      BY <1>1, <2>4 DEF Then, Moves
    <3>2. OnPort' = <<>> /\ OnPort = <<orb>>
      BY <2>4, <3>1 DEF OnPort
    <3>3. Cat(tx, Cat(<<orb>>, n)) = Cat(Append(tx, orb), n)
      BY <1>2, <1>3, AppendCat
    <3> QED BY <1>1, <1>5, <1>6, <2>2, <3>1, <3>2, <3>3
  <2>5. CASE Here \notin {"low", "high"}
    <3>1. Here \in {"put", "out", "wait", "low", "high", "in", "waitKey", "readLow", "get",
                    "readHigh", "return", "one", "zero", "clockHigh", "flip", "selectLow",
                    "selectHigh"}
      BY <1>1, KindOf
    <3>2. Here' \notin {"low", "high"} /\ tx' = tx
      BY <1>1, <1>8, <2>5, <3>1 DEF Then, Moves
    <3>3. OnPort' = <<>> /\ OnPort = <<>>
      BY <2>5, <3>2 DEF OnPort
    <3> QED BY <1>1, <1>5, <2>2, <3>2, <3>3
  <2> QED BY <2>3, <2>4, <2>5
<1> QED BY <1>7, <1>8

\* So does the bit.
LEMMA BitsMove ==
    ASSUME TypeOK, RunInv, Moves,
           Here = "one" => "MOSI" \in ora', Here = "zero" => "MOSI" \notin ora',
           Here = "clockHigh" => ("MOSI" \in ora' <=> "MOSI" \in ora)
    PROVE  want' = Cat(slave', Cat(BitOnPort', Mapped(BitOf, todo')))
<1> DEFINE a == Head(todo)
           n == Mapped(BitOf, Tail(todo))
           m == IF "MOSI" \in ora THEN 1 ELSE 0
           p == IF "MOSI" \in ora' THEN 1 ELSE 0
<1>1. /\ todo \in Seq(Accesses) /\ todo # <<>> /\ todo' = Tail(todo) /\ want' = want
      /\ a \in Accesses /\ Here = Kind(a) /\ Here' \in Then(Here)
      /\ Tail(todo) \in Seq(Accesses)
  BY HereIs, HereNext DEF Moves, RunInv, Routine
<1>2. Mapped(BitOf, todo) = Cat(BitOf[a], n) /\ n \in Seq({0, 1})
  <2>1. Stands(BitOf, Accesses, {0, 1}) /\ todo \in Seq(Accesses) /\ todo # <<>> /\ Tail(todo) \in Seq(Accesses)
    BY <1>1, StandFor
  <2>2. Mapped(BitOf, todo) = Cat(BitOf[Head(todo)], Mapped(BitOf, Tail(todo)))
    BY <2>1, MappedFirst, Zenon
  <2>3. Mapped(BitOf, Tail(todo)) \in Seq({0, 1})
    BY <2>1, MappedType, Zenon
  <2> QED BY <2>2, <2>3
<1>3. slave \in Seq({0, 1})
  BY DEF TypeOK
<1>4. want = Cat(slave, Cat(BitOnPort, Cat(BitOf[a], n)))
  BY <1>2 DEF RunInv, Histories
<1>5. Mapped(BitOf, todo') = n
  BY <1>1
<1> HIDE DEF n
<1>6. Cat(<<>>, n) = n
  BY <1>2, CatNothing
<1>7. CASE Here \in {"one", "zero"}
  <2>1. Here' = "clockHigh" /\ slave' = slave
    BY <1>1, <1>7 DEF Then, Moves
  <2>2. BitOf[a] = <<p>>
    BY <1>1, <1>7, StandFor
  <2> DEFINE v == <<p>>
  <2>3. BitOnPort = <<>> /\ BitOnPort' = v /\ v \in Seq({0, 1})
    BY <1>7, <2>1 DEF BitOnPort
  <2>4. BitOf[a] = v
    BY <2>2
  <2> HIDE DEF v
  <2>5. Cat(v, n) \in Seq({0, 1})
    BY <1>2, <2>3, CatAssociative
  <2>6. Cat(<<>>, Cat(v, n)) = Cat(v, n)
    BY <2>5, CatNothing
  <2> QED BY <1>1, <1>4, <1>5, <2>1, <2>3, <2>4, <2>6
<1>8. CASE Here \notin {"one", "zero"}
  <2>1. BitOf[a] = <<>>
    BY <1>1, <1>8, StandFor
  <2>2. want = Cat(slave, Cat(BitOnPort, n))
    BY <1>4, <1>6, <2>1
  <2>3. CASE Here = "clockHigh"
    <3>1. Here' = "flip" /\ slave' = slave
      BY <1>1, <2>3 DEF Then, Moves
    <3>2. BitOnPort' = BitOnPort
      BY <2>3, <3>1 DEF BitOnPort
    <3> QED BY <1>1, <1>5, <2>2, <3>1, <3>2
  <2>4. CASE Here = "flip"
    <3>1. Here' \notin {"clockHigh", "flip"} /\ slave' = Append(slave, m)
      BY <1>1, <2>4 DEF Then, Moves
    <3>2. BitOnPort' = <<>> /\ BitOnPort = <<m>>
      BY <2>4, <3>1 DEF BitOnPort
    <3>3. m \in {0, 1}
      OBVIOUS
    <3> HIDE DEF m
    <3>4. Cat(slave, Cat(<<m>>, n)) = Cat(Append(slave, m), n)
      BY <1>2, <1>3, <3>3, AppendCat
    <3> QED BY <1>1, <1>5, <1>6, <2>2, <3>1, <3>2, <3>4
  <2>5. CASE Here \notin {"clockHigh", "flip"}
    <3>1. Here \in {"put", "out", "wait", "low", "high", "in", "waitKey", "readLow", "get",
                    "readHigh", "return", "one", "zero", "clockHigh", "flip", "selectLow",
                    "selectHigh"}
      BY <1>1, KindOf
    <3>2. Here' \notin {"clockHigh", "flip"} /\ slave' = slave
      BY <1>1, <1>8, <2>5, <3>1 DEF Then, Moves
    <3>3. BitOnPort' = <<>> /\ BitOnPort = <<>>
      BY <2>5, <3>2 DEF BitOnPort
    <3> QED BY <1>1, <1>5, <2>2, <3>2, <3>3
  <2> QED BY <2>3, <2>4, <2>5
<1> QED BY <1>7, <1>8

\* The key read is returned, when its strobe drops it from the chip.
LEMMA KeysMove ==
    ASSUME TypeOK, RunInv, Moves, Here = "readHigh" => val = Head(rx) /\ rx # <<>>
    PROVE  typed' = Cat(Returned', rx')
<1>1. typed' = typed /\ Here' \in Then(Here) /\ rx \in Seq(Byte) /\ Here # "return"
  BY HereNext DEF Moves, TypeOK
<1>2. typed = rx
  <2>1. Returned = <<>>
    BY <1>1 DEF Returned
  <2> QED BY <1>1, <2>1, CatNothing DEF RunInv, Histories
<1>3. CASE Here = "readHigh"
  <2>1. Here' = "return" /\ val' = val /\ rx' = Tail(rx)
    BY <1>1, <1>3 DEF Then, Moves
  <2>2. rx = Cat(<<Head(rx)>>, Tail(rx))
    BY <1>1, <1>3, HeadAndTail, Zenon DEF Cat
  <2>3. Returned' = <<val>>
    BY <2>1 DEF Returned
  <2> QED BY <1>1, <1>2, <1>3, <2>1, <2>2, <2>3
<1>4. CASE Here # "readHigh"
  <2>1. todo # <<>>
    BY DEF Moves
  <2>2. Here \in {"put", "out", "wait", "low", "high", "in", "waitKey", "readLow", "get",
                  "readHigh", "return", "one", "zero", "clockHigh", "flip", "selectLow",
                  "selectHigh"}
    BY <2>1, HereIs, KindOf
  <2>3. Here' # "return" /\ rx' = rx
    BY <1>1, <1>4, <2>2 DEF Then, Moves
  <2>4. Returned' = <<>>
    BY <2>3 DEF Returned
  <2> QED BY <1>1, <1>2, <2>3, <2>4, CatNothing
<1> QED BY <1>3, <1>4

\* An access leaves every variable a value of its kind.
LEMMA TypesMove ==
    ASSUME Inv, RunInv, Moves, ora' \subseteq Pins, ddra' \subseteq Pins,
           um' \in {"UNDEFINED_STATE", "WRITE_HIGH", "WRITE_LOW"},
           Here \in {"get", "readHigh"} => rx # <<>>
    PROVE  TypeOK' /\ OneCall'
<1>1. TypeOK /\ OneCall
  BY DEF Inv
<1>2. /\ tx \in Seq(Byte) /\ Len(tx) \in Nat /\ Len(tx) <= TxCap /\ rx \in Seq(Byte) /\ Len(rx) \in Nat
      /\ Len(rx) <= RxCap /\ slave \in Seq({0, 1}) /\ orb \in Byte /\ val \in Byte
      /\ ddrb \in {"in", "out"} /\ TxCap \in Nat /\ RxCap \in Nat
  BY <1>1, LenProperties, Constants DEF TypeOK
<1>3. /\ tx' \in Seq(Byte) /\ Len(tx') \in Nat /\ Len(tx') <= TxCap /\ Len(tx) <= Len(tx')
  <2>1. CASE Here = "high"
    <3>1. tx' = Append(tx, orb) /\ Len(tx) < TxCap
      BY <2>1 DEF Moves
    <3>2. tx' \in Seq(Byte) /\ Len(tx') = Len(tx) + 1
      BY <1>2, <3>1, AppendProperties
    <3> QED BY <1>2, <3>1, <3>2
  <2>2. CASE Here # "high"
    BY <1>2, <2>2 DEF Moves
  <2> QED BY <2>1, <2>2
<1>4. rx' \in Seq(Byte) /\ Len(rx') <= RxCap
  <2>1. CASE Here = "readHigh"
    <3>1. rx' = Tail(rx) /\ rx # <<>>
      BY <2>1 DEF Moves
    <3>2. rx' \in Seq(Byte) /\ Len(rx) = Len(rx') + 1 /\ Len(rx') \in Nat
      BY <1>2, <3>1, HeadAndTail, LenProperties
    <3> QED BY <1>2, <3>2
  <2>2. CASE Here # "readHigh"
    BY <1>2, <2>2 DEF Moves
  <2> QED BY <2>1, <2>2
<1>5. slave' \in Seq({0, 1})
  <2> DEFINE m == IF "MOSI" \in ora THEN 1 ELSE 0
  <2>1. m \in {0, 1}
    OBVIOUS
  <2>2. slave' = IF Here = "flip" THEN Append(slave, m) ELSE slave
    BY DEF Moves
  <2> HIDE DEF m
  <2>3. Append(slave, m) \in Seq({0, 1})
    BY <1>2, <2>1, AppendProperties
  <2> QED BY <1>2, <2>2, <2>3
<1>6. orb' \in Byte
  <2>1. CASE Here = "put"
    <3>1. orb' = Head(todo).byte /\ Head(todo) \in Accesses /\ Kind(Head(todo)) = "put"
      BY <2>1, HereIs DEF Moves
    <3> QED BY <3>1, StandFor
  <2>2. CASE Here # "put"
    BY <1>2, <2>2 DEF Moves
  <2> QED BY <2>1, <2>2
<1>7. val' \in Byte
  <2>1. CASE Here = "get"
    BY <1>2, <2>1, HeadAndTail DEF Moves
  <2>2. CASE Here # "get"
    BY <1>2, <2>2 DEF Moves
  <2> QED BY <2>1, <2>2
<1>8. ddrb' \in {"in", "out"}
  BY <1>2 DEF Moves
<1>9. hw' = hw /\ mode' = mode /\ leds' = leds /\ asked' = asked
  BY DEF Moves
<1>10. AtMostOneCallAhead'
  BY <1>1, <1>9 DEF TypeOK, AtMostOneCallAhead
<1>11. TypeOK'
  BY <1>1, <1>3, <1>4, <1>5, <1>6, <1>7, <1>8, <1>9, <1>10 DEF TypeOK
<1>12. OneCall'
  <2>1. PICK s \in Texts \cup {Motd} : Len(asked) <= Len(tx) + (Len(s) + Len(Prompt) + 2)
    BY <1>1 DEF OneCall
  <2>2. Len(s) \in Nat /\ Len(Prompt) \in Nat /\ Len(asked) \in Nat
    BY <1>1, Constants, LenProperties DEF TypeOK
  <2>3. Len(asked) <= Len(tx') + (Len(s) + Len(Prompt) + 2)
    BY <1>2, <1>3, <2>1, <2>2
  <2> QED BY <1>9, <2>3 DEF OneCall
<1> QED BY <1>11, <1>12

\* An access of a routine on the board keeps the invariant.
LEMMA ChipStepKeeps ==
    ASSUME Inv, RunInv, hw = "um245r", Step
    PROVE  Inv'
<1>1. Moves /\ MovesPins
  BY ChipMoves
<1>2. TypeOK /\ AtChip
  BY DEF Inv, RunInv
<1>3. Routine(todo)' /\ Here' \in Then(Here) /\ Here # "return" /\ todo # <<>>
  BY <1>1, HereNext DEF Moves
<1>4. Here \in {"put", "out", "wait", "low", "high", "in", "waitKey", "readLow", "get",
                "readHigh", "one", "zero", "clockHigh", "flip", "selectLow", "selectHigh"}
  BY <1>3, HereIs, KindOf
<1>5. TypeOK' /\ OneCall'
  <2>1. ora' \subseteq Pins /\ ddra' \subseteq Pins /\ um' = um
    BY <1>1 DEF MovesPins, Driven, Pins
  <2>2. Here \in {"get", "readHigh"} => rx # <<>>
    BY <1>2 DEF AtChip
  <2> QED BY <1>1, <1>2, <2>1, <2>2, TypesMove DEF TypeOK
<1>6. Histories'
  <2>1. asked' = Cat(tx', Cat(OnPort', Mapped(ByteOf, todo')))
    BY <1>1, <1>2, BytesMove
  <2>2. want' = Cat(slave', Cat(BitOnPort', Mapped(BitOf, todo')))
    BY <1>1, <1>2, BitsMove DEF MovesPins
  <2>3. typed' = Cat(Returned', rx')
    BY <1>1, <1>2, KeysMove DEF AtChip
  <2> QED BY <2>1, <2>2, <2>3 DEF Histories
<1>7. AtChip'
  <2>1. ddra' = Driven
    BY <1>1 DEF MovesPins
  <2>2. /\ "WE" \in ora' <=> Here' # "high"
        /\ "RD" \in ora' <=> Here' \notin {"get", "readHigh"}
        /\ "CLK" \in ora' <=> Here' = "flip"
    BY <1>1, <1>3, <1>4 DEF MovesPins, Then
  <2>3. /\ Here' \in {"wait", "put", "low", "high"} => ddrb' = "out"
        /\ Here' \in {"waitKey", "readLow", "get", "readHigh"} => ddrb' = "in"
    BY <1>1, <1>2, <1>3, <1>4 DEF Moves, Then, AtChip
  <2>4. Here' \in {"put", "low", "high"} => Len(tx') < TxCap
    <3>1. Here' \in {"put", "low", "high"} => Here \in {"wait", "put", "low"}
      BY <1>3, <1>4 DEF Then
    <3>2. Here \in {"wait", "put", "low"} => tx' = tx /\ Len(tx) < TxCap
      <4>1. Len(tx) \in Nat /\ TxCap \in Nat /\ Len(tx) <= TxCap
        BY <1>2, LenProperties, Constants DEF TypeOK
      <4>2. Here = "wait" => Len(tx) # TxCap
        BY <1>1 DEF MovesPins
      <4>3. Here \in {"put", "low"} => Len(tx) < TxCap
        BY <1>2 DEF AtChip
      <4>4. Here \in {"wait", "put", "low"} => tx' = tx
        BY <1>1 DEF Moves
      <4> QED BY <4>1, <4>2, <4>3, <4>4
    <3> QED BY <3>1, <3>2
  <2>5. /\ Here' \in {"readLow", "get", "readHigh"} => rx' # <<>>
        /\ Here' = "readHigh" => val' = Head(rx')
    <3>1. Here' \in {"readLow", "get", "readHigh"} => Here \in {"waitKey", "readLow", "get"}
      BY <1>3, <1>4 DEF Then
    <3>2. Here \in {"waitKey", "readLow", "get"} => rx' = rx /\ rx # <<>>
      BY <1>1, <1>2 DEF Moves, MovesPins, AtChip
    <3>3. Here' = "readHigh" => Here = "get"
      BY <1>3, <1>4 DEF Then
    <3>4. Here = "get" => val' = Head(rx)
      BY <1>1 DEF Moves
    <3> QED BY <3>1, <3>2, <3>3, <3>4
  <2>6. Here' \in {"one", "zero", "clockHigh", "flip"} => "CS" \notin ora'
    BY <1>1, <1>2, <1>3, <1>4 DEF MovesPins, Then, AtChip
  <2>7. Here' # "selectHigh"
    BY <1>3, <1>4 DEF Then
  <2>8. mode' = "spi" => "CS" \notin ora' \/ IsIn(SelectLow)'
    <3> SUFFICES ASSUME mode' = "spi" PROVE "CS" \notin ora' \/ IsIn(SelectLow)'
      OBVIOUS
    <3>1. mode = "spi" /\ Here # "selectHigh"
      BY <1>1, <1>2 DEF Moves, AtChip
    <3>2. CASE "CS" \notin ora
      BY <1>1, <3>1, <3>2 DEF MovesPins
    <3>3. CASE IsIn(SelectLow)
      <4>1. PICK k \in DOMAIN todo : todo[k] = SelectLow
        BY <3>3 DEF IsIn
      <4>2. /\ todo \in Seq(Accesses) /\ todo' = Tail(todo) /\ Here = Kind(Head(todo))
        BY <1>1, <1>3, HereIs DEF Moves, RunInv, Routine
      <4>3. /\ Head(todo) = todo[1] /\ Tail(todo) \in Seq(Accesses) /\ Len(Tail(todo)) = Len(todo) - 1
            /\ \A i \in 1 .. Len(Tail(todo)) : Tail(todo)[i] = todo[i + 1]
            /\ k \in 1 .. Len(todo) /\ Len(todo) \in Nat
        BY <1>3, <4>1, <4>2, HeadTailProperties, LenProperties
      <4>4. CASE k = 1
        <5>1. Here = "selectLow"
          BY <4>1, <4>2, <4>3, <4>4, Kinds
        <5> QED BY <1>1, <5>1 DEF MovesPins
      <4>5. CASE k # 1
        <5>1. k - 1 \in 1 .. Len(todo) - 1 /\ (k - 1) + 1 = k
          BY <4>3, <4>5
        <5>2. Tail(todo)[k - 1] = SelectLow /\ k - 1 \in DOMAIN Tail(todo)
          BY <4>1, <4>3, <5>1, LenProperties
        <5> QED BY <4>2, <5>2 DEF IsIn
      <4> QED BY <4>4, <4>5
    <3> QED BY <1>2, <3>1, <3>2, <3>3 DEF AtChip
  <2> QED BY <2>1, <2>2, <2>3, <2>4, <2>5, <2>6, <2>7, <2>8 DEF AtChip
<1>8. hw' = "um245r"
  BY <1>1 DEF Moves
<1>9. RunInv'
  BY <1>3, <1>6, <1>7, <1>8 DEF RunInv
<1> QED BY <1>5, <1>9 DEF Inv

\* So does one on the simulator.
LEMMA SimulatorStepKeeps ==
    ASSUME Inv, RunInv, hw = "simulator", Step
    PROVE  Inv'
<1>1. /\ Moves /\ ora' = ora /\ ddra' = ddra
      /\ um' \in {"UNDEFINED_STATE", "WRITE_HIGH", "WRITE_LOW"}
      /\ Here = "low" => um' = "WRITE_LOW"
      /\ Here \in {"out", "wait", "put", "low", "high"}
  BY SimulatorMoves
<1>2. TypeOK /\ AtSimulator
  BY DEF Inv, RunInv
<1>3. Routine(todo)' /\ Here' \in Then(Here) /\ todo # <<>> /\ todo' = Tail(todo)
  BY <1>1, HereNext DEF Moves
<1>4. TypeOK' /\ OneCall'
  BY <1>1, <1>2, TypesMove DEF TypeOK
<1>5. Histories'
  <2>1. asked' = Cat(tx', Cat(OnPort', Mapped(ByteOf, todo')))
    BY <1>1, <1>2, BytesMove
  <2>2. want' = Cat(slave', Cat(BitOnPort', Mapped(BitOf, todo')))
    BY <1>1, <1>2, BitsMove
  <2>3. typed' = Cat(Returned', rx')
    BY <1>1, <1>2, KeysMove
  <2> QED BY <2>1, <2>2, <2>3 DEF Histories
<1>6. AtSimulator'
  <2>1. Here' = "high" => Here = "low"
    BY <1>1, <1>3 DEF Then
  <2>2. todo' \in Seq(PrintAccesses)
    BY <1>2, <1>3, HeadAndTail DEF AtSimulator
  <2>3. mode' = "shell" /\ rx' = <<>>
    BY <1>1, <1>2 DEF Moves, AtSimulator
  <2> QED BY <1>1, <2>1, <2>2, <2>3 DEF AtSimulator
<1>7. hw' = "simulator"
  BY <1>1 DEF Moves
<1>8. RunInv'
  BY <1>3, <1>5, <1>6, <1>7 DEF RunInv
<1> QED BY <1>4, <1>8 DEF Inv

-----------------------------------------------------------------------------
(* The program starts.                                                      *)

\* The accesses it starts with.
LEMMA StartIs ==
    /\ Start[1].op = "outA" /\ Start[1].on = {"CS"} /\ Start[1].off = {"CLK"}
    /\ Start[2].op = "dirA" /\ Start[2].on = {"MOSI", "CS", "CLK"}
    /\ Start[3].op = "dirB" /\ Start[3].to = "out"
    /\ Start[4].op = "putB" /\ Start[4].byte = 0
    /\ Start[5].op = "dirA" /\ Start[5].on = {"WE", "RD"}
    /\ Start[6].op = "outA" /\ Start[6].on = {"WE", "RD"} /\ Start[6].off = {}
<1>1. /\ Start[1] = OutA({"CS"}, {"CLK"}) /\ Start[2] = DirA({"MOSI", "CS", "CLK"})
      /\ Start[3] = DirB("out") /\ Start[4] = PutB(0) /\ Start[5] = DirA({"WE", "RD"})
      /\ Start[6] = OutA({"WE", "RD"}, {})
  BY DEF Start
<1>2. \A on, off : OutA(on, off).op = "outA" /\ OutA(on, off).on = on /\ OutA(on, off).off = off
  BY DEF OutA
<1>3. \A on : DirA(on).op = "dirA" /\ DirA(on).on = on
  BY DEF DirA
<1>4. DirB("out").op = "dirB" /\ DirB("out").to = "out"
  BY DEF DirB
<1>5. PutB(0).op = "putB" /\ PutB(0).byte = 0
  BY DEF PutB
<1> QED BY <1>1, <1>2, <1>3, <1>4, <1>5

\* On the board the message of the day and the first prompt follow, on the simulator nothing.
LEMMA BannerCode ==
    /\ hw = "um245r" => Printing(Banner, Cat(Motd, Prompt))
    /\ hw # "um245r" => Banner = <<>>
    /\ Banner \in Seq(Accesses) /\ Len(Banner) \in Nat
<1>1. hw # "um245r" => Banner = <<>>
  BY DEF Banner
<1>2. ASSUME hw = "um245r" PROVE Printing(Banner, Cat(Motd, Prompt))
  <2> DEFINE t == serial_writeline(Motd)
             u == serial_writeline(Prompt)
  <2>1. Printing(t, Motd) /\ Printing(u, Prompt)
    BY WritelineCode, Constants
  <2>2. Banner = Cat(t, u)
    BY <1>2 DEF Banner, Cat
  <2> HIDE DEF t, u
  <2> QED BY <2>1, <2>2, PrintingConcat
<1>3. Banner \in Seq(Accesses)
  <2>1. <<>> \in Seq(Accesses)
    OBVIOUS
  <2> QED BY <1>1, <1>2, <2>1 DEF Printing, Code
<1> QED BY <1>1, <1>2, <1>3, LenProperties

\* One access of the start is done.
LEMMA StartsNext ==
    ASSUME NEW n \in 1 .. 6, Starts(n)
    PROVE  /\ todo # <<>> /\ todo # <<Return>> /\ Head(todo) = Start[7 - n]
           /\ todo' = Tail(todo) /\ hw' = hw => /\ n > 1 => Starts(n - 1)'
                                                /\ n = 1 => todo' = Banner
<1> DEFINE S == Accesses \cup {Start[k] : k \in 1 .. 6}
           m == Len(Banner)
<1>1. /\ todo \in Seq(S) /\ Len(todo) = n + m
      /\ \A k \in 1 .. n : todo[k] = Start[(6 - n) + k]
      /\ \A k \in 1 .. m : todo[n + k] = Banner[k]
  BY DEF Starts
<1>2. m \in Nat /\ Banner \in Seq(Accesses)
  BY BannerCode
<1> HIDE DEF S
<1>3. todo # <<>> /\ Head(todo) = todo[1] /\ 1 \in 1 .. n
  <2>1. todo # <<>> /\ 1 \in 1 .. n
    <3>1. Len(todo) # 0
      BY <1>1, <1>2
    <3> QED BY <1>1, <3>1, EmptySeq
  <2> QED BY <1>1, <2>1, HeadAndTail
<1>4. todo[1] = Start[7 - n]
  <2>1. (6 - n) + 1 = 7 - n
    OBVIOUS
  <2> QED BY <1>1, <1>3, <2>1
<1>5. todo # <<Return>>
  <2>1. Return.op = "return"
    BY DEF Return
  <2>2. 7 - n \in 1 .. 6
    OBVIOUS
  <2>3. Start[7 - n] # Return
    BY <2>1, <2>2, StartIs
  <2> QED BY <1>4, <2>3
<1>6. ASSUME todo' = Tail(todo), hw' = hw
      PROVE  /\ n > 1 => Starts(n - 1)'
             /\ n = 1 => todo' = Banner
  <2> DEFINE t == Tail(todo)
  <2>1. t \in Seq(S) /\ Len(t) = (n - 1) + m /\ \A i \in 1 .. (n - 1) + m : t[i] = todo[i + 1]
    <3>1. t \in Seq(S) /\ Len(t) = Len(todo) - 1 /\ \A i \in 1 .. Len(t) : t[i] = todo[i + 1]
      BY <1>1, <1>3, HeadTailProperties
    <3>2. Len(todo) - 1 = (n - 1) + m
      BY <1>1, <1>2
    <3> QED BY <3>1, <3>2
  <2> HIDE DEF t
  <2>2. \A k \in 1 .. n - 1 : t[k] = Start[(6 - (n - 1)) + k]
    <3> SUFFICES ASSUME NEW k \in 1 .. n - 1 PROVE t[k] = Start[(6 - (n - 1)) + k]
      OBVIOUS
    <3>1. k \in 1 .. (n - 1) + m /\ k + 1 \in 1 .. n /\ (6 - n) + (k + 1) = (6 - (n - 1)) + k
      BY <1>2
    <3>2. t[k] = todo[k + 1] /\ todo[k + 1] = Start[(6 - n) + (k + 1)]
      BY <1>1, <2>1, <3>1
    <3> QED BY <3>1, <3>2
  <2>3. \A k \in 1 .. m : t[(n - 1) + k] = Banner[k]
    <3> SUFFICES ASSUME NEW k \in 1 .. m PROVE t[(n - 1) + k] = Banner[k]
      OBVIOUS
    <3>1. (n - 1) + k \in 1 .. (n - 1) + m /\ ((n - 1) + k) + 1 = n + k
      BY <1>2
    <3>2. t[(n - 1) + k] = todo[((n - 1) + k) + 1] /\ todo[n + k] = Banner[k]
      BY <1>1, <2>1, <3>1
    <3> QED BY <3>1, <3>2
  <2>4. Banner' = Banner
    BY <1>6 DEF Banner
  <2>5. Starts(n - 1)'
    BY <1>6, <2>1, <2>2, <2>3, <2>4 DEF Starts, t, S
  <2>6. n = 1 => t = Banner
    <3> SUFFICES ASSUME n = 1 PROVE t = Banner
      OBVIOUS
    <3>1. Len(t) = Len(Banner) /\ \A k \in 1 .. m : t[k] = Banner[k]
      <4>1. \A k \in 1 .. m : 0 + k = k
        BY <1>2
      <4>2. n - 1 = 0 /\ 0 + m = m
        BY <1>2
      <4> QED BY <2>1, <2>3, <4>1, <4>2
    <3> QED BY <1>2, <2>1, <3>1, SeqEqual
  <2> QED BY <1>6, <2>5, <2>6 DEF t
<1> QED BY <1>3, <1>4, <1>5, <1>6

\* What the chip and the slave see of a change of port A that moves no pin of theirs.
LEMMA NoEdge ==
    ASSUME Edges, ~Rises("WE"), ~Rises("RD"), ~Falls("CLK") \/ Level("CS", ora, ddra)
    PROVE  tx' = tx /\ rx' = rx /\ slave' = slave
BY DEF Edges

\* An access of the start, on the board: the pins.
LEMMA ChipStarts ==
    ASSUME TypeOK, hw = "um245r", Step, todo # <<>>, NEW n \in 1 .. 6, Head(todo) = Start[7 - n],
           n \in {5, 6} => ddra = {},
           n \in {2, 3, 4} => ddra = {"MOSI", "CS", "CLK"},
           n = 1 => ddra = Driven,
           n < 6 => {"WE", "RD", "CS"} \subseteq ora /\ "CLK" \notin ora
    PROVE  /\ n = 6 => ddra' = {}
           /\ n \in {3, 4, 5} => ddra' = {"MOSI", "CS", "CLK"}
           /\ n \in {1, 2} => ddra' = Driven
           /\ {"WE", "RD", "CS"} \subseteq ora' /\ "CLK" \notin ora' /\ ora' \subseteq Pins
           /\ orb' \in Byte /\ ddrb' \in {"in", "out"} /\ val' = val /\ um' = um
           /\ tx' = tx /\ rx' = rx /\ slave' = slave
<1> DEFINE a == Head(todo)
<1>1. /\ n = 6 => a = Start[1]
      /\ n = 5 => a = Start[2]
      /\ n = 4 => a = Start[3]
      /\ n = 3 => a = Start[4]
      /\ n = 2 => a = Start[5]
      /\ n = 1 => a = Start[6]
      /\ n \in {1, 2, 3, 4, 5, 6}
  <2>1. n \in {1, 2, 3, 4, 5, 6}
    OBVIOUS
  <2>2. n = 6 => 7 - n = 1
    OBVIOUS
  <2>3. n = 5 => 7 - n = 2
    OBVIOUS
  <2>4. n = 4 => 7 - n = 3
    OBVIOUS
  <2>5. n = 3 => 7 - n = 4
    OBVIOUS
  <2>6. n = 2 => 7 - n = 5
    OBVIOUS
  <2>7. n = 1 => 7 - n = 6
    OBVIOUS
  <2> QED BY <2>1, <2>2, <2>3, <2>4, <2>5, <2>6, <2>7
<1>2. /\ orb \in Byte /\ ddrb \in {"in", "out"} /\ ora \subseteq Pins /\ 0 \in Byte
      /\ Driven = {"WE", "RD", "MOSI", "CLK", "CS"}
      /\ Pins = {"WE", "RD", "TXE", "RXF", "MOSI", "CLK", "CS"}
  BY Constants DEF TypeOK, Driven, Pins
<1>3. PortA = (ora \cap ddra) \cup (Inputs \ ddra)
  BY DEF PortA, ToVia
<1>4. {"WE", "RD", "MOSI", "CLK", "CS"} \subseteq Inputs /\ Inputs \subseteq Pins
  BY DEF Inputs, Pins
<1>5. \A v : StoreA(v) => ora' = v /\ ddra' = ddra /\ um' = um /\ Edges
  BY DEF StoreA, ToVia
<1>6. CASE a.op = "outA"
  <2>1. /\ ora' = (PortA \ a.off) \cup a.on /\ ddra' = ddra /\ um' = um /\ Edges
        /\ orb' = orb /\ ddrb' = ddrb /\ val' = val
    BY <1>5, <1>6 DEF Step, SetDirA, SetDirB, PutByte, GetByte, ChangeA, Waited, Does, Access
  <2>2. n = 6 \/ n = 1
    BY <1>1, <1>6, StartIs
  <2>3. CASE n = 6
    <3>1. a.on = {"CS"} /\ a.off = {"CLK"} /\ ddra = {}
      BY <1>1, <2>3, StartIs
    <3>2. ora' = (Inputs \ {"CLK"}) \cup {"CS"}
      BY <1>3, <2>1, <3>1
    <3>3. {"WE", "RD", "CS"} \subseteq ora' /\ "CLK" \notin ora' /\ ora' \subseteq Pins
      BY <1>2, <1>4, <3>2
    <3>4. ~Rises("WE") /\ ~Rises("RD") /\ ~Falls("CLK")
      BY <2>1, <3>1 DEF Rises, Falls, Level
    <3>5. tx' = tx /\ rx' = rx /\ slave' = slave
      BY <2>1, <3>4, NoEdge
    <3> QED BY <1>2, <2>1, <2>3, <3>1, <3>3, <3>5
  <2>4. CASE n = 1
    <3>1. a.on = {"WE", "RD"} /\ a.off = {} /\ ddra = Driven
      BY <1>1, <2>4, StartIs
    <3>2. {"WE", "RD", "CS"} \subseteq ora /\ "CLK" \notin ora
      BY <2>4
    <3>3. {"WE", "RD", "CS"} \subseteq ora' /\ "CLK" \notin ora' /\ ora' \subseteq Pins
      BY <1>2, <1>3, <1>4, <2>1, <3>1, <3>2
    <3>4. ~Rises("WE") /\ ~Rises("RD") /\ ~Falls("CLK")
      BY <2>1, <3>1, <3>2 DEF Rises, Falls, Level
    <3>5. tx' = tx /\ rx' = rx /\ slave' = slave
      BY <2>1, <3>4, NoEdge
    <3> QED BY <1>2, <2>1, <2>4, <3>1, <3>3, <3>5
  <2> QED BY <2>2, <2>3, <2>4
<1>7. CASE a.op = "dirA"
  <2>1. /\ ddra' = ddra \cup a.on /\ ora' = ora /\ um' = um /\ Edges
        /\ orb' = orb /\ ddrb' = ddrb /\ val' = val
    BY <1>7 DEF Step, SetDirA, SetDirB, PutByte, GetByte, ChangeA, Waited, Does, Access
  <2>2. n = 5 \/ n = 2
    BY <1>1, <1>7, StartIs
  <2>3. {"WE", "RD", "CS"} \subseteq ora /\ "CLK" \notin ora
    BY <2>2
  <2>4. CASE n = 5
    <3>1. a.on = {"MOSI", "CS", "CLK"} /\ ddra = {}
      BY <1>1, <2>4, StartIs
    <3>2. ~Rises("WE") /\ ~Rises("RD") /\ Level("CS", ora, ddra)
      BY <2>1, <3>1 DEF Rises, Level
    <3>3. tx' = tx /\ rx' = rx /\ slave' = slave
      BY <2>1, <3>2, NoEdge
    <3>4. ddra' = {"MOSI", "CS", "CLK"}
      BY <2>1, <3>1
    <3> QED BY <1>2, <2>1, <2>3, <2>4, <3>3, <3>4
  <2>5. CASE n = 2
    <3>1. a.on = {"WE", "RD"} /\ ddra = {"MOSI", "CS", "CLK"}
      BY <1>1, <2>5, StartIs
    <3>2. ~Rises("WE") /\ ~Rises("RD") /\ Level("CS", ora, ddra)
      BY <2>1, <2>3, <3>1 DEF Rises, Level
    <3>3. tx' = tx /\ rx' = rx /\ slave' = slave
      BY <2>1, <3>2, NoEdge
    <3>4. ddra' = Driven
      BY <1>2, <2>1, <3>1
    <3> QED BY <1>2, <2>1, <2>3, <2>5, <3>3, <3>4
  <2> QED BY <2>2, <2>4, <2>5
<1>8. CASE a.op = "dirB"
  <2>1. /\ ddrb' = a.to /\ ora' = ora /\ ddra' = ddra /\ orb' = orb /\ um' = um
        /\ tx' = tx /\ rx' = rx /\ slave' = slave /\ val' = val
    BY <1>8 DEF Step, SetDirA, SetDirB, PutByte, GetByte, ChangeA, Waited, Does, Access, chip
  <2>2. n = 4 /\ a.to = "out"
    BY <1>1, <1>8, StartIs
  <2> QED BY <1>2, <2>1, <2>2
<1>9. CASE a.op = "putB"
  <2>1. /\ orb' = a.byte /\ ora' = ora /\ ddra' = ddra /\ ddrb' = ddrb /\ um' = um
        /\ tx' = tx /\ rx' = rx /\ slave' = slave /\ val' = val
    BY <1>9 DEF Step, SetDirA, SetDirB, PutByte, GetByte, ChangeA, Waited, Does, Access, chip
  <2>2. n = 3 /\ a.byte = 0
    BY <1>1, <1>9, StartIs
  <2> QED BY <1>2, <2>1, <2>2
<1> QED BY <1>1, <1>6, <1>7, <1>8, <1>9, StartIs

\* The same on the simulator, which has no pins.
LEMMA SimulatorStarts ==
    ASSUME TypeOK, hw = "simulator", Step, todo # <<>>, NEW n \in 1 .. 4, Head(todo) = Start[7 - n],
           um = "UNDEFINED_STATE"
    PROVE  /\ ora' = ora /\ ddra' \subseteq Pins /\ orb' \in Byte /\ ddrb' \in {"in", "out"}
           /\ val' = val /\ (n > 1 => um' = um)
           /\ um' \in {"UNDEFINED_STATE", "WRITE_HIGH", "WRITE_LOW"}
           /\ tx' = tx /\ rx' = rx /\ slave' = slave
<1> DEFINE a == Head(todo)
<1>1. /\ n = 4 => a = Start[3]
      /\ n = 3 => a = Start[4]
      /\ n = 2 => a = Start[5]
      /\ n = 1 => a = Start[6]
      /\ n \in {1, 2, 3, 4}
  <2>1. n \in {1, 2, 3, 4}
    OBVIOUS
  <2>2. n = 4 => 7 - n = 3
    OBVIOUS
  <2>3. n = 3 => 7 - n = 4
    OBVIOUS
  <2>4. n = 2 => 7 - n = 5
    OBVIOUS
  <2>5. n = 1 => 7 - n = 6
    OBVIOUS
  <2> QED BY <2>1, <2>2, <2>3, <2>4, <2>5
<1>2. /\ orb \in Byte /\ ddrb \in {"in", "out"} /\ ddra \subseteq Pins /\ 0 \in Byte
      /\ "WE" \in Pins /\ "RD" \in Pins
  BY Constants DEF TypeOK, Pins
<1>3. CASE n = 4
  <2>1. a.op = "dirB" /\ a.to = "out"
    BY <1>1, <1>3, StartIs
  <2>2. /\ ddrb' = a.to /\ ora' = ora /\ ddra' = ddra /\ orb' = orb /\ um' = um
        /\ tx' = tx /\ rx' = rx /\ slave' = slave /\ val' = val
    BY <2>1 DEF Step, SetDirA, SetDirB, PutByte, GetByte, ChangeA, Waited, Does, Access, chip
  <2> QED BY <1>2, <2>1, <2>2
<1>4. CASE n = 3
  <2>1. a.op = "putB" /\ a.byte = 0
    BY <1>1, <1>4, StartIs
  <2>2. /\ orb' = a.byte /\ ora' = ora /\ ddra' = ddra /\ ddrb' = ddrb /\ um' = um
        /\ tx' = tx /\ rx' = rx /\ slave' = slave /\ val' = val
    BY <2>1 DEF Step, SetDirA, SetDirB, PutByte, GetByte, ChangeA, Waited, Does, Access, chip
  <2> QED BY <1>2, <2>1, <2>2
<1>5. CASE n = 2
  <2>1. a.op = "dirA" /\ a.on = {"WE", "RD"}
    BY <1>1, <1>5, StartIs
  <2>2. /\ ddra' = ddra \cup a.on /\ ora' = ora /\ ddrb' = ddrb /\ orb' = orb /\ um' = um
        /\ tx' = tx /\ rx' = rx /\ slave' = slave /\ val' = val
    BY <2>1 DEF Step, SetDirA, SetDirB, PutByte, GetByte, ChangeA, Waited, Does, Access
  <2> QED BY <1>2, <2>1, <2>2
<1>6. CASE n = 1
  <2>1. a.op = "outA" /\ a.on = {"WE", "RD"} /\ a.off = {}
    BY <1>1, <1>6, StartIs
  <2>2. \A v : StoreA(v) => Um245_Write(v) /\ ora' = ora /\ ddra' = ddra /\ rx' = rx /\ slave' = slave
    BY Devices DEF StoreA, ToVia
  <2>3. /\ Um245_Write((PortA \ a.off) \cup a.on) /\ ora' = ora /\ ddra' = ddra /\ rx' = rx
        /\ slave' = slave /\ orb' = orb /\ ddrb' = ddrb /\ val' = val
    BY <2>1, <2>2 DEF Step, SetDirA, SetDirB, PutByte, GetByte, ChangeA, Waited, Does, Access
  <2>4. um' = "WRITE_HIGH" /\ tx' = tx
    BY <2>1, <2>3 DEF Um245_Write, updateState
  <2> QED BY <1>2, <1>6, <2>3, <2>4
<1> QED BY <1>1, <1>3, <1>4, <1>5, <1>6

\* An access of the start keeps the invariant; after the last one, the program runs.
LEMMA StartKeeps ==
    ASSUME Inv, BootInv, Step
    PROVE  Inv'
<1>1. TypeOK /\ OneCall /\ hw \in {"um245r", "simulator"}
  BY Constants DEF Inv, TypeOK
<1>2. /\ tx = <<>> /\ slave = <<>> /\ want = <<>> /\ typed = rx /\ mode = "shell"
      /\ asked = Mapped(ByteOf, Banner)
  BY DEF BootInv
<1>3. /\ todo' = Tail(todo) /\ hw' = hw /\ mode' = mode /\ leds' = leds /\ asked' = asked
      /\ typed' = typed /\ want' = want
  BY DEF Step, SetDirA, SetDirB, PutByte, GetByte, ChangeA, Waited, Done
<1>4. Banner' = Banner
  BY <1>3 DEF Banner
<1>5. AtMostOneCallAhead'
  BY <1>1, <1>3 DEF TypeOK, AtMostOneCallAhead
<1>6. ASSUME tx' = tx PROVE OneCall'
  BY <1>1, <1>3, <1>6 DEF OneCall
<1>7. ASSUME tx' = <<>>, slave' = <<>>, rx' = rx, todo' = Banner, Printing(Banner, asked) \/ Banner = <<>>
      PROVE  Routine(todo)' /\ Histories' /\ Here' \in {"out", "idle"}
  <2>1. Here' \in {"out", "idle"} /\ Routine(todo)' /\ Mapped(BitOf, todo') = <<>>
    <3>1. CASE Banner = <<>>
      <4>1. Routine(<<>>)
        <5>1. <<>> \in Seq(Accesses) /\ Len(<<>>) = 0
          OBVIOUS
        <5> QED BY <5>1 DEF Routine, Linked, Ends
      <4> QED BY <1>7, <3>1, <4>1, StandFor, MappedEmpty DEF Here, First
    <3>2. CASE Printing(Banner, asked)
      <4>1. /\ Code(Banner, asked, <<>>) /\ First(Banner) = "out"
            /\ "idle" \in Then(Final(Banner))
        BY <3>2 DEF Printing, Then
      <4>2. Routine(Banner)
        BY <4>1, CodeRoutine
      <4>3. Mapped(BitOf, Banner) = <<>>
        BY <4>1 DEF Code
      <4> QED BY <1>7, <4>1, <4>2, <4>3 DEF Here
    <3> QED BY <1>7, <3>1, <3>2
  <2>2. OnPort' = <<>> /\ BitOnPort' = <<>> /\ Returned' = <<>>
    BY <2>1 DEF OnPort, BitOnPort, Returned
  <2>3. asked \in Seq(Byte) /\ rx \in Seq(Byte)
    BY <1>1 DEF TypeOK
  <2>4. asked' = Cat(tx', Cat(OnPort', Mapped(ByteOf, todo')))
    BY <1>2, <1>3, <1>7, <2>2, <2>3, CatNothing
  <2>5. Cat(<<>>, <<>>) = <<>>
    BY DEF Cat
  <2>6. want' = Cat(slave', Cat(BitOnPort', Mapped(BitOf, todo')))
    BY <1>2, <1>3, <1>7, <2>1, <2>2, <2>5
  <2>7. typed' = Cat(Returned', rx')
    BY <1>2, <1>3, <1>7, <2>2, <2>3, CatNothing
  <2> QED BY <2>1, <2>4, <2>6, <2>7 DEF Histories
<1>8. CASE hw = "um245r"
  <2>1. PICK n \in 1 .. 6 :
          /\ Starts(n)
          /\ n \in {5, 6} => ddra = {}
          /\ n \in {2, 3, 4} => ddra = {"MOSI", "CS", "CLK"}
          /\ n = 1 => ddra = Driven
          /\ n < 6 => {"WE", "RD", "CS"} \subseteq ora /\ "CLK" \notin ora
    BY <1>8 DEF BootInv
  <2>2. /\ todo # <<>> /\ Head(todo) = Start[7 - n]
        /\ n > 1 => Starts(n - 1)'
        /\ n = 1 => todo' = Banner
    BY <1>3, <2>1, StartsNext
  <2>3. /\ n = 6 => ddra' = {}
        /\ n \in {3, 4, 5} => ddra' = {"MOSI", "CS", "CLK"}
        /\ n \in {1, 2} => ddra' = Driven
        /\ {"WE", "RD", "CS"} \subseteq ora' /\ "CLK" \notin ora' /\ ora' \subseteq Pins
        /\ orb' \in Byte /\ ddrb' \in {"in", "out"} /\ val' = val /\ um' = um
        /\ tx' = tx /\ rx' = rx /\ slave' = slave
    BY <1>1, <1>8, <2>1, <2>2, ChipStarts
  <2>4. ddra' \subseteq Pins
    <3>1. n \in {1, 2, 3, 4, 5, 6}
      OBVIOUS
    <3> QED BY <2>3, <3>1 DEF Driven, Pins
  <2>5. TypeOK'
    BY <1>1, <1>3, <1>5, <2>3, <2>4 DEF TypeOK
  <2>6. CASE n > 1
    <3> DEFINE m == n - 1
    <3>1. /\ m \in 1 .. 6 /\ Starts(m)'
          /\ m \in {5, 6} => ddra' = {}
          /\ m \in {2, 3, 4} => ddra' = {"MOSI", "CS", "CLK"}
          /\ m = 1 => ddra' = Driven
      <4>1. m \in 1 .. 5
        BY <2>6
      <4>2. m \in {5, 6} => n = 6
        BY <2>6
      <4>3. m \in {2, 3, 4} => n \in {3, 4, 5}
        BY <2>6
      <4>4. m = 1 => n = 2
        BY <2>6
      <4> QED BY <2>2, <2>3, <2>6, <4>1, <4>2, <4>3, <4>4
    <3> HIDE DEF m
    <3>2. BootInv'
      BY <1>2, <1>3, <1>4, <1>8, <2>3, <3>1 DEF BootInv
    <3> QED BY <1>6, <2>3, <2>5, <3>2 DEF Inv
  <2>7. CASE n = 1
    <3>1. Printing(Banner, asked)
      BY <1>2, <1>8, BannerCode DEF Printing, Code
    <3>2. Routine(todo)' /\ Histories' /\ Here' \in {"out", "idle"}
      BY <1>2, <1>7, <2>2, <2>3, <2>7, <3>1
    <3>3. AtChip'
      BY <1>2, <1>3, <2>3, <2>7, <3>2 DEF AtChip
    <3>4. RunInv'
      BY <1>3, <1>8, <3>2, <3>3 DEF RunInv
    <3> QED BY <1>6, <2>3, <2>5, <3>4 DEF Inv
  <2> QED BY <2>6, <2>7
<1>9. CASE hw = "simulator"
  <2>1. PICK n \in 1 .. 4 : Starts(n)
    BY <1>9 DEF BootInv
  <2>2. n \in 1 .. 6 /\ rx = <<>> /\ um = "UNDEFINED_STATE" /\ Banner = <<>>
    BY <1>9, BannerCode DEF BootInv
  <2>3. /\ todo # <<>> /\ Head(todo) = Start[7 - n]
        /\ n > 1 => Starts(n - 1)'
        /\ n = 1 => todo' = Banner
    BY <1>3, <2>1, <2>2, StartsNext
  <2>4. /\ ora' = ora /\ ddra' \subseteq Pins /\ orb' \in Byte /\ ddrb' \in {"in", "out"}
        /\ val' = val /\ (n > 1 => um' = um)
        /\ um' \in {"UNDEFINED_STATE", "WRITE_HIGH", "WRITE_LOW"}
        /\ tx' = tx /\ rx' = rx /\ slave' = slave
    BY <1>1, <1>9, <2>2, <2>3, SimulatorStarts
  <2>5. TypeOK'
    BY <1>1, <1>3, <1>5, <2>4 DEF TypeOK
  <2>6. CASE n > 1
    <3>1. n - 1 \in 1 .. 4
      BY <2>6
    <3>2. BootInv'
      BY <1>2, <1>3, <1>4, <1>9, <2>2, <2>3, <2>4, <2>6, <3>1 DEF BootInv
    <3> QED BY <1>6, <2>4, <2>5, <3>2 DEF Inv
  <2>7. CASE n = 1
    <3>1. Routine(todo)' /\ Histories' /\ Here' \in {"out", "idle"}
      BY <1>2, <1>7, <2>2, <2>3, <2>4, <2>7
    <3>2. AtSimulator'
      <4>1. todo' = <<>> /\ mode' = "shell" /\ rx' = <<>> /\ Here' # "high"
        BY <1>2, <1>3, <2>2, <2>3, <2>4, <2>7, <3>1
      <4>2. <<>> \in Seq(PrintAccesses)
        OBVIOUS
      <4>3. todo' \in Seq(PrintAccesses)
        BY <4>1, <4>2
      <4> QED BY <4>1, <4>3 DEF AtSimulator
    <3>3. RunInv'
      BY <1>3, <1>9, <3>1, <3>2 DEF RunInv
    <3> QED BY <1>6, <2>4, <2>5, <3>3 DEF Inv
  <2> QED BY <2>6, <2>7
<1> QED BY <1>1, <1>8, <1>9

\* While the program starts, only the user may do something else.
LEMMA StartAlone ==
    ASSUME Inv, BootInv
    PROVE  /\ todo # <<>> /\ todo # <<Return>> /\ ~HostTakes
           /\ \A key \in Keys : UserTypes(key) => Inv'
<1>1. TypeOK /\ OneCall
  BY DEF Inv
<1>2. todo # <<>> /\ todo # <<Return>>
  <2>1. PICK n \in 1 .. 6 : Starts(n)
    <3>1. 1 .. 4 \subseteq 1 .. 6
      OBVIOUS
    <3> QED BY <3>1 DEF BootInv
  <2> QED BY <2>1, StartsNext
<1>3. ~HostTakes
  BY DEF BootInv, HostTakes
<1>4. ASSUME NEW key \in Keys, UserTypes(key) PROVE Inv'
  <2>1. hw = "um245r" /\ Len(rx) < RxCap /\ rx' = Append(rx, key) /\ typed' = Append(typed, key)
    BY <1>4 DEF UserTypes
  <2>2. /\ hw' = hw /\ ora' = ora /\ ddra' = ddra /\ orb' = orb /\ ddrb' = ddrb /\ um' = um
        /\ tx' = tx /\ slave' = slave /\ todo' = todo /\ val' = val /\ mode' = mode /\ leds' = leds
        /\ want' = want /\ asked' = asked
    BY <1>4 DEF UserTypes, via, program
  <2>3. Banner' = Banner
    BY <2>2 DEF Banner
  <2>4. \A n : Starts(n)' <=> Starts(n)
    BY <2>2, <2>3 DEF Starts
  <2>5. typed' = rx'
    BY <2>1 DEF BootInv
  <2>6. BootInv'
    BY <2>1, <2>2, <2>3, <2>4, <2>5 DEF BootInv
  <2>7. rx' \in Seq(Byte) /\ Len(rx') <= RxCap
    <3>1. rx \in Seq(Byte) /\ Len(rx) \in Nat /\ key \in Byte /\ RxCap \in Nat
      BY <1>1, Constants, LenProperties DEF TypeOK
    <3>2. rx' \in Seq(Byte) /\ Len(rx') = Len(rx) + 1
      BY <2>1, <3>1, AppendProperties
    <3> QED BY <2>1, <3>1, <3>2
  <2>8. TypeOK' /\ OneCall'
    BY <1>1, <2>2, <2>7 DEF TypeOK, AtMostOneCallAhead, OneCall
  <2> QED BY <2>6, <2>8 DEF Inv
<1> QED BY <1>2, <1>3, <1>4

\* After power-on it holds.
LEMMA InitInv == Init => Inv
<1> SUFFICES ASSUME Init PROVE Inv
  OBVIOUS
<1>1. /\ hw \in {"um245r", "simulator"} /\ hw \in Hardware /\ ora = {} /\ ddra = {} /\ orb = 0
      /\ ddrb = "in" /\ um = "UNDEFINED_STATE" /\ tx = <<>> /\ rx = <<>> /\ slave = <<>>
      /\ val = 0 /\ mode = "shell" /\ leds = 0 /\ typed = <<>> /\ want = <<>>
  BY Constants DEF Init
<1> DEFINE S == Accesses \cup {Start[k] : k \in 1 .. 6}
<1>2. ASSUME NEW t \in Seq(Accesses) PROVE t \in Seq(S)
  OBVIOUS
<1>3. Start \in Seq(S) /\ Len(Start) = 6
  <2>1. Len(Start) = 6 /\ Start \in Seq({Start[k] : k \in 1 .. 6})
    BY DEF Start
  <2> QED BY <2>1
<1>4. /\ asked = Mapped(ByteOf, Banner) /\ asked \in Seq(Byte)
      /\ Len(asked) <= Len(Motd) + Len(Prompt) /\ Len(Motd) \in Nat /\ Len(Prompt) \in Nat
  <2>1. Motd \in Seq(Byte) /\ Prompt \in Seq(Byte) /\ Len(Motd) \in Nat /\ Len(Prompt) \in Nat
    BY Constants, LenProperties
  <2>2. CASE hw = "um245r"
    <3>1. asked = Cat(Motd, Prompt)
      BY <2>2 DEF Init, Cat
    <3>2. Mapped(ByteOf, Banner) = Cat(Motd, Prompt)
      BY <2>2, BannerCode DEF Printing, Code
    <3>3. asked \in Seq(Byte) /\ Len(asked) = Len(Motd) + Len(Prompt)
      BY <2>1, <3>1, CatAssociative, LenOfCat
    <3> QED BY <2>1, <3>1, <3>2, <3>3
  <2>3. CASE hw = "simulator"
    <3>1. asked = <<>> /\ Banner = <<>>
      BY <2>3, BannerCode DEF Init
    <3>2. asked \in Seq(Byte) /\ Len(asked) = 0
      BY <3>1
    <3> QED BY <2>1, <3>1, <3>2, StandFor, MappedEmpty
  <2> QED BY <1>1, <2>2, <2>3
<1>5. ASSUME hw = "um245r" PROVE Starts(6)
  <2>1. todo = Cat(Start, Banner)
    <3> DEFINE w == serial_writeline(Motd)
               u == serial_writeline(Prompt)
               c == spiInit \o serial_init
    <3>1. w \in Seq(Accesses) /\ u \in Seq(Accesses)
      BY WritelineCode, Constants DEF Printing, Code
    <3>2. Start = c
      BY DEF Start, spiInit, serial_init
    <3>3. todo = Cat(Cat(c, w), u)
      BY <1>1, <1>5 DEF Init, Boot, Cat
    <3>4. Banner = Cat(w, u)
      BY <1>5 DEF Banner, Cat
    <3>5. Start \in Seq(S) /\ w \in Seq(S) /\ u \in Seq(S)
      BY <1>2, <1>3, <3>1
    <3> HIDE DEF w, u, c, S
    <3>6. Cat(Cat(Start, w), u) = Cat(Start, Cat(w, u))
      BY <3>5, CatAssociative
    <3> QED BY <3>2, <3>3, <3>4, <3>6
  <2> DEFINE m == Len(Banner)
  <2>2. Banner \in Seq(S) /\ m \in Nat
    BY <1>2, BannerCode
  <2> HIDE DEF S
  <2>3. /\ todo \in Seq(S) /\ Len(todo) = 6 + m
        /\ \A i \in 1 .. 6 + m : todo[i] = IF i <= 6 THEN Start[i] ELSE Banner[i - 6]
    <3>1. /\ Start \o Banner \in Seq(S) /\ Len(Start \o Banner) = Len(Start) + Len(Banner)
          /\ \A i \in 1 .. Len(Start) + Len(Banner) :
               (Start \o Banner)[i] = IF i <= Len(Start) THEN Start[i] ELSE Banner[i - Len(Start)]
      BY <1>3, <2>2, ConcatProperties, Zenon
    <3> QED BY <1>3, <2>1, <3>1 DEF Cat
  <2>4. \A k \in 1 .. 6 : todo[k] = Start[(6 - 6) + k]
    <3> SUFFICES ASSUME NEW k \in 1 .. 6 PROVE todo[k] = Start[(6 - 6) + k]
      OBVIOUS
    <3>1. k \in 1 .. 6 + m /\ k <= 6 /\ (6 - 6) + k = k
      BY <2>2
    <3> QED BY <2>3, <3>1
  <2>5. \A k \in 1 .. m : todo[6 + k] = Banner[k]
    <3> SUFFICES ASSUME NEW k \in 1 .. m PROVE todo[6 + k] = Banner[k]
      OBVIOUS
    <3>1. 6 + k \in 1 .. 6 + m /\ ~(6 + k <= 6) /\ (6 + k) - 6 = k
      BY <2>2
    <3> QED BY <2>3, <3>1
  <2> QED BY <2>3, <2>4, <2>5 DEF Starts, S
<1>6. ASSUME hw = "simulator" PROVE Starts(4)
  <2>1. todo = serial_init /\ Banner = <<>>
    BY <1>1, <1>6, BannerCode DEF Init
  <2>2. /\ Len(serial_init) = 4 /\ serial_init[1] = Start[3] /\ serial_init[2] = Start[4]
        /\ serial_init[3] = Start[5] /\ serial_init[4] = Start[6]
        /\ serial_init = <<Start[3], Start[4], Start[5], Start[6]>>
    BY DEF serial_init, Start
  <2>3. Start[3] \in S /\ Start[4] \in S /\ Start[5] \in S /\ Start[6] \in S
    <3>1. 3 \in 1 .. 6 /\ 4 \in 1 .. 6 /\ 5 \in 1 .. 6 /\ 6 \in 1 .. 6
      OBVIOUS
    <3> QED BY <3>1
  <2> HIDE DEF S
  <2>4. <<Start[3], Start[4], Start[5], Start[6]>> \in Seq(S)
    BY <2>3
  <2>5. \A k \in 1 .. 4 : todo[k] = Start[(6 - 4) + k]
    <3> SUFFICES ASSUME NEW k \in 1 .. 4 PROVE todo[k] = Start[(6 - 4) + k]
      OBVIOUS
    <3>1. k \in {1, 2, 3, 4} /\ (6 - 4) + 1 = 3 /\ (6 - 4) + 2 = 4 /\ (6 - 4) + 3 = 5 /\ (6 - 4) + 4 = 6
      OBVIOUS
    <3> QED BY <2>1, <2>2, <3>1
  <2>6. Len(todo) = 4 + Len(Banner) /\ Len(Banner) = 0
    <3>1. Len(<<>>) = 0
      OBVIOUS
    <3> QED BY <2>1, <2>2, <3>1
  <2>7. \A k \in 1 .. Len(Banner) : todo[4 + k] = Banner[k]
    BY <2>6
  <2>8. todo \in Seq(S)
    BY <2>1, <2>2, <2>4
  <2> QED BY <2>5, <2>6, <2>7, <2>8 DEF Starts, S
<1>7. BootInv
  <2>1. CASE hw = "um245r"
    <3>1. 6 \in 1 .. 6 /\ ~(6 < 6) /\ 6 # 1
      OBVIOUS
    <3> QED BY <1>1, <1>4, <1>5, <2>1, <3>1 DEF BootInv
  <2>2. CASE hw = "simulator"
    <3>1. 4 \in 1 .. 4
      OBVIOUS
    <3> QED BY <1>1, <1>4, <1>6, <2>2, <3>1 DEF BootInv
  <2> QED BY <1>1, <2>1, <2>2
<1>8. Len(tx) = 0 /\ Len(rx) = 0 /\ tx \in Seq(Byte) /\ rx \in Seq(Byte) /\ slave \in Seq({0, 1})
  BY <1>1
<1>9. OneCall
  BY <1>4, <1>8 DEF OneCall
<1>10. AtMostOneCallAhead
  <2>1. Len(asked) <= TxCap + (Len(Motd) + Len(Prompt) + 2)
    <3>1. Len(asked) \in Nat
      BY <1>4, LenProperties
    <3> QED BY <1>4, <3>1, Constants
  <2> QED BY <2>1 DEF AtMostOneCallAhead
<1>11. TypeOK
  <2>1. leds \in 0 .. Leds
    BY <1>1, BoardAssumption
  <2>2. Len(tx) <= TxCap /\ Len(rx) <= RxCap /\ 0 \in Byte
    BY <1>8, Constants
  <2> QED BY <1>1, <1>4, <1>8, <1>10, <2>1, <2>2 DEF TypeOK
<1> QED BY <1>7, <1>9, <1>11 DEF Inv

\* Every step keeps it, but for an LED command.
LEMMA NextInv ==
    ASSUME Inv, [Next]_vars, leds' = 0
    PROVE  Inv'
<1>1. CASE UNCHANGED vars
  <2>1. /\ hw' = hw /\ ora' = ora /\ ddra' = ddra /\ orb' = orb /\ ddrb' = ddrb /\ um' = um
        /\ tx' = tx /\ rx' = rx /\ slave' = slave /\ todo' = todo /\ val' = val /\ mode' = mode
        /\ leds' = leds /\ asked' = asked /\ typed' = typed /\ want' = want
    BY <1>1 DEF vars, via, chip, program
  <2>2. TypeOK' /\ OneCall'
    BY <2>1 DEF Inv, TypeOK, AtMostOneCallAhead, OneCall
  <2>3. Here' = Here /\ OnPort' = OnPort /\ BitOnPort' = BitOnPort /\ Returned' = Returned /\ Banner' = Banner
    BY <2>1 DEF Here, OnPort, BitOnPort, Returned, Banner
  <2>4. CASE RunInv
    <3>1. IsIn(SelectLow)' <=> IsIn(SelectLow)
      BY <2>1 DEF IsIn
    <3>2. AtChip' <=> AtChip
      BY <2>1, <2>3, <3>1 DEF AtChip
    <3>3. AtSimulator' <=> AtSimulator
      BY <2>1, <2>3 DEF AtSimulator
    <3>4. Histories' <=> Histories
      BY <2>1, <2>3 DEF Histories
    <3>5. RunInv'
      BY <2>1, <2>4, <3>2, <3>3, <3>4 DEF RunInv
    <3> QED BY <2>2, <3>5 DEF Inv
  <2>5. CASE BootInv
    <3>1. \A n : Starts(n)' <=> Starts(n)
      BY <2>1, <2>3 DEF Starts
    <3>2. BootInv'
      BY <2>1, <2>3, <2>5, <3>1 DEF BootInv
    <3> QED BY <2>2, <3>2 DEF Inv
  <2> QED BY <2>4, <2>5 DEF Inv
<1>2. CASE BootInv /\ Next
  <2>1. Step \/ \E key \in Keys : UserTypes(key)
    BY <1>2, StartAlone DEF Next, Program, Reads, HasRead, ThreadPrints
  <2> QED BY <1>2, <2>1, StartKeeps, StartAlone
<1>3. CASE RunInv /\ Next
  <2>1. hw \in {"um245r", "simulator"}
    BY Constants DEF Inv, TypeOK
  <2>2. CASE Step
    BY <1>3, <2>1, <2>2, ChipStepKeeps, SimulatorStepKeeps
  <2>3. CASE Reads
    BY <1>3, <2>3, ReadsKeeps
  <2>4. CASE HasRead
    BY <1>3, <2>4, HasReadKeeps
  <2>5. CASE \E text \in Texts : ThreadPrints(text)
    BY <1>3, <2>5, ThreadPrintsKeeps
  <2>6. CASE HostTakes
    BY <1>3, <2>6, HostTakesKeeps
  <2>7. CASE \E key \in Keys : UserTypes(key)
    BY <1>3, <2>7, UserTypesKeeps
  <2> QED BY <1>3, <2>2, <2>3, <2>4, <2>5, <2>6, <2>7 DEF Next, Program
<1> QED BY <1>1, <1>2, <1>3 DEF Inv

-----------------------------------------------------------------------------
(* What the invariant gives.                                                *)

\* What a sequence begins with is a prefix of it.
LEMMA PrefixOfCat ==
    ASSUME NEW X, NEW p \in Seq(X), NEW q \in Seq(X)
    PROVE  IsPrefix(p, Cat(p, q))
<1> DEFINE n == Len(p)
           u == Cat(p, q)
<1>1. n \in Nat /\ Len(q) \in Nat /\ Len(u) = n + Len(q)
  BY LenOfCat
<1>2. n \in 0 .. n /\ n <= Len(u)
  BY <1>1
<1>3. SubSeq(u, 1, n) = SubSeq(p, 1, n)
  BY <1>2, RestOfConcat, Zenon DEF Cat
<1> HIDE DEF n, u
<1>4. n <= Len(u) /\ SubSeq(p, 1, n) = SubSeq(u, 1, n)
  BY <1>2, <1>3
<1> QED BY <1>4 DEF IsPrefix, n, u

\* An access of a routine that cannot be the last one is followed.
LEMMA Followed ==
    ASSUME NEW t, Routine(t), NEW k \in 1 .. Len(t), "idle" \notin Then(Kind(t[k]))
    PROVE  /\ k + 1 \in 1 .. Len(t) /\ Kind(t[k + 1]) \in Then(Kind(t[k])) /\ t[k + 1] \in Accesses
<1>1. t \in Seq(Accesses) /\ Linked(t) /\ Ends(t) /\ Len(t) \in Nat
  BY LenProperties DEF Routine
<1>2. k # Len(t)
  <2>1. t # <<>>
    <3>1. Len(<<>>) = 0 /\ Len(t) # 0
      BY <1>1
    <3> QED BY <3>1
  <2> QED BY <1>1, <2>1 DEF Ends
<1>3. k + 1 \in 1 .. Len(t) /\ k \in 1 .. Len(t) - 1
  BY <1>1, <1>2
<1> QED BY <1>1, <1>3, LenProperties DEF Linked

\* A byte that is still to be printed still needs its strobe.
LEMMA NoByteLeft ==
    ASSUME NEW t, Routine(t), ~ \E k \in DOMAIN t : t[k] = High
    PROVE  Mapped(ByteOf, t) = <<>> /\ First(t) \notin {"put", "low", "high"}
<1>1. t \in Seq(Accesses) /\ DOMAIN t = 1 .. Len(t) /\ Len(t) \in Nat
      /\ \A k \in 1 .. Len(t) : t[k] \in Accesses
  BY LenProperties DEF Routine
<1>2. ASSUME NEW k \in 1 .. Len(t) PROVE Kind(t[k]) # "high"
  BY <1>1, KindOf
<1>3. ASSUME NEW k \in 1 .. Len(t) PROVE Kind(t[k]) # "low"
  <2> SUFFICES ASSUME Kind(t[k]) = "low" PROVE FALSE
    OBVIOUS
  <2>1. "idle" \notin Then(Kind(t[k])) /\ Then(Kind(t[k])) = {"high"}
    BY DEF Then
  <2>2. k + 1 \in 1 .. Len(t) /\ Kind(t[k + 1]) \in Then(Kind(t[k]))
    BY <2>1, Followed
  <2> QED BY <1>2, <2>1, <2>2
<1>4. ASSUME NEW k \in 1 .. Len(t) PROVE Kind(t[k]) # "put"
  <2> SUFFICES ASSUME Kind(t[k]) = "put" PROVE FALSE
    OBVIOUS
  <2>1. "idle" \notin Then(Kind(t[k])) /\ Then(Kind(t[k])) = {"low"}
    BY DEF Then
  <2>2. k + 1 \in 1 .. Len(t) /\ Kind(t[k + 1]) \in Then(Kind(t[k]))
    BY <2>1, Followed
  <2> QED BY <1>3, <2>1, <2>2
<1>5. \A k \in 1 .. Len(t) : ByteOf[t[k]] = <<>>
  BY <1>1, <1>4, StandFor
<1>6. Mapped(ByteOf, t) = <<>>
  BY <1>1, <1>5, StandFor, MappedNothing
<1>7. First(t) \notin {"put", "low", "high"}
  <2>1. CASE t = <<>>
    BY <2>1 DEF First
  <2>2. CASE t # <<>>
    <3>1. 1 \in 1 .. Len(t)
      BY <1>1, <2>2, EmptySeq
    <3> QED BY <1>2, <1>3, <1>4, <2>2, <3>1 DEF First
  <2> QED BY <2>1, <2>2
<1> QED BY <1>6, <1>7

\* A bit that is still to be shifted out still needs the falling edge of the clock.
LEMMA NoBitLeft ==
    ASSUME NEW t, Routine(t), ~ \E k \in DOMAIN t : t[k] = FlipA("CLK")
    PROVE  Mapped(BitOf, t) = <<>> /\ First(t) \notin {"one", "zero", "clockHigh", "flip"}
<1>1. t \in Seq(Accesses) /\ DOMAIN t = 1 .. Len(t) /\ Len(t) \in Nat
      /\ \A k \in 1 .. Len(t) : t[k] \in Accesses
  BY LenProperties DEF Routine
<1>2. ASSUME NEW k \in 1 .. Len(t) PROVE Kind(t[k]) # "flip"
  BY <1>1, KindOf
<1>3. ASSUME NEW k \in 1 .. Len(t) PROVE Kind(t[k]) # "clockHigh"
  <2> SUFFICES ASSUME Kind(t[k]) = "clockHigh" PROVE FALSE
    OBVIOUS
  <2>1. "idle" \notin Then(Kind(t[k])) /\ Then(Kind(t[k])) = {"flip"}
    BY DEF Then
  <2>2. k + 1 \in 1 .. Len(t) /\ Kind(t[k + 1]) \in Then(Kind(t[k]))
    BY <2>1, Followed
  <2> QED BY <1>2, <2>1, <2>2
<1>4. ASSUME NEW k \in 1 .. Len(t) PROVE Kind(t[k]) \notin {"one", "zero"}
  <2> SUFFICES ASSUME Kind(t[k]) \in {"one", "zero"} PROVE FALSE
    OBVIOUS
  <2>1. "idle" \notin Then(Kind(t[k])) /\ Then(Kind(t[k])) = {"clockHigh"}
    BY DEF Then
  <2>2. k + 1 \in 1 .. Len(t) /\ Kind(t[k + 1]) \in Then(Kind(t[k]))
    BY <2>1, Followed
  <2> QED BY <1>3, <2>1, <2>2
<1>5. \A k \in 1 .. Len(t) : BitOf[t[k]] = <<>>
  BY <1>1, <1>4, StandFor
<1>6. Mapped(BitOf, t) = <<>>
  BY <1>1, <1>5, StandFor, MappedNothing
<1>7. First(t) \notin {"one", "zero", "clockHigh", "flip"}
  <2>1. CASE t = <<>>
    BY <2>1 DEF First
  <2>2. CASE t # <<>>
    <3>1. 1 \in 1 .. Len(t)
      BY <1>1, <2>2, EmptySeq
    <3> QED BY <1>2, <1>3, <1>4, <2>2, <3>1 DEF First
  <2> QED BY <2>1, <2>2
<1> QED BY <1>6, <1>7

\* What is written is in the chip, or on its way to it.
LEMMA InvWritten ==
    ASSUME Inv
    PROVE  HostGetsWhatWasWritten
<1>1. tx \in Seq(Byte) /\ hw \in {"um245r", "simulator"}
  BY Constants DEF Inv, TypeOK
<1>2. OutA({"WE"}, {}) = High
  BY DEF High
<1>3. CASE RunInv
  <2> DEFINE r == Cat(OnPort, Mapped(ByteOf, todo))
  <2>1. Routine(todo) /\ asked = Cat(tx, r) /\ r \in Seq(Byte)
    BY <1>3, PartTypes DEF RunInv, Routine, Histories, Inv
  <2>2. ASSUME ~IsIn(High) PROVE tx = asked
    <3>1. Mapped(ByteOf, todo) = <<>> /\ Here \notin {"put", "low", "high"}
      BY <2>1, <2>2, NoByteLeft DEF IsIn, Here
    <3>2. OnPort = <<>> /\ Cat(<<>>, <<>>) = <<>>
      BY <3>1 DEF OnPort, Cat
    <3>3. r = <<>>
      BY <3>1, <3>2
    <3> QED BY <1>1, <2>1, <3>3, CatNothing
  <2> HIDE DEF r
  <2>3. IsPrefix(tx, asked)
    BY <1>1, <2>1, PrefixOfCat
  <2> QED BY <1>2, <2>2, <2>3 DEF HostGetsWhatWasWritten
<1>4. CASE BootInv
  <2>1. tx = <<>> /\ asked = Mapped(ByteOf, Banner) /\ Banner \in Seq(Accesses)
    BY <1>4, BannerCode DEF BootInv
  <2>2. asked \in Seq(Byte) /\ asked = Cat(tx, asked)
    <3>1. asked \in Seq(Byte)
      BY DEF Inv, TypeOK
    <3> QED BY <2>1, <3>1, CatNothing
  <2>3. IsPrefix(tx, asked)
    BY <1>1, <2>2, PrefixOfCat
  <2>4. ASSUME ~IsIn(High) PROVE asked = <<>>
    <3>1. CASE hw # "um245r"
      BY <2>1, <3>1, BannerCode, StandFor, MappedEmpty
    <3>2. CASE hw = "um245r"
      <4>1. PICK n \in 1 .. 6 : Starts(n)
        BY <1>4, <3>2 DEF BootInv
      <4>2. Routine(Banner)
        <5>1. /\ Code(Banner, Cat(Motd, Prompt), <<>>)
              /\ "idle" \in Then(Final(Banner))
          BY <3>2, BannerCode DEF Printing, Then
        <5> QED BY <5>1, CodeRoutine
      <4>3. ASSUME NEW k \in DOMAIN Banner, Banner[k] = High PROVE FALSE
        <5>1. k \in 1 .. Len(Banner) /\ Len(Banner) \in Nat
          BY <2>1, LenProperties
        <5>2. /\ Len(todo) = n + Len(Banner) /\ todo[n + k] = Banner[k]
              /\ todo \in Seq(Accesses \cup {Start[i] : i \in 1 .. 6})
          BY <4>1, <5>1 DEF Starts
        <5>3. n + k \in DOMAIN todo
          <6>1. n + k \in 1 .. n + Len(Banner)
            BY <5>1
          <6> QED BY <5>2, <6>1, LenProperties
        <5> QED BY <2>4, <4>3, <5>2, <5>3 DEF IsIn
      <4> QED BY <2>1, <4>2, <4>3, NoByteLeft
    <3> QED BY <3>1, <3>2
  <2> QED BY <1>2, <2>1, <2>3, <2>4 DEF HostGetsWhatWasWritten
<1> QED BY <1>3, <1>4 DEF Inv

\* The same of the bits.
LEMMA InvShifted ==
    ASSUME Inv
    PROVE  SlaveGetsWhatWasTyped
<1>1. slave \in Seq({0, 1})
  BY DEF Inv, TypeOK
<1>2. CASE RunInv
  <2> DEFINE r == Cat(BitOnPort, Mapped(BitOf, todo))
  <2>1. Routine(todo) /\ want = Cat(slave, r) /\ r \in Seq({0, 1})
    BY <1>2, PartTypes DEF RunInv, Routine, Histories, Inv
  <2>2. ASSUME ~IsIn(FlipA("CLK")) PROVE slave = want
    <3>1. Mapped(BitOf, todo) = <<>> /\ Here \notin {"one", "zero", "clockHigh", "flip"}
      BY <2>1, <2>2, NoBitLeft DEF IsIn, Here
    <3>2. BitOnPort = <<>> /\ Cat(<<>>, <<>>) = <<>>
      BY <3>1 DEF BitOnPort, Cat
    <3>3. r = <<>>
      BY <3>1, <3>2
    <3> QED BY <1>1, <2>1, <3>3, CatNothing
  <2> HIDE DEF r
  <2>3. IsPrefix(slave, want)
    BY <1>1, <2>1, PrefixOfCat
  <2> QED BY <2>2, <2>3 DEF SlaveGetsWhatWasTyped
<1>3. CASE BootInv
  <2>1. slave = want /\ want = Cat(slave, slave)
    BY <1>3 DEF BootInv, Cat
  <2>2. IsPrefix(slave, want)
    BY <1>1, <2>1, PrefixOfCat
  <2> QED BY <2>1, <2>2 DEF SlaveGetsWhatWasTyped
<1> QED BY <1>2, <1>3 DEF Inv

\* Nothing follows the return of a key.
LEMMA InvReturned ==
    ASSUME Inv
    PROVE  KeysAreReadOnce
<1>1. CASE RunInv
  <2>1. todo \in Seq(Accesses) /\ Linked(todo) /\ Len(todo) \in Nat
        /\ \A k \in 1 .. Len(todo) : todo[k] \in Accesses
    BY <1>1, LenProperties DEF RunInv, Routine
  <2>2. rx \in Seq(Byte) /\ typed = Cat(Returned, rx)
    BY <1>1 DEF Inv, TypeOK, RunInv, Histories
  <2>3. CASE Here = "return"
    <3>1. todo # <<>> /\ todo[1] = Return /\ Len(todo) # 0
      <4>1. todo # <<>>
        BY <2>3 DEF Here, First
      <4>2. Len(todo) # 0
        BY <2>1, <4>1, EmptySeq
      <4>3. 1 \in 1 .. Len(todo) /\ Kind(todo[1]) = "return"
        BY <2>1, <2>3, <4>1, <4>2 DEF Here, First
      <4> QED BY <2>1, <4>1, <4>2, <4>3, KindOf
    <3>2. Len(todo) = 1
      <4> SUFFICES ASSUME Len(todo) # 1 PROVE FALSE
        OBVIOUS
      <4>1. 1 \in 1 .. Len(todo) - 1 /\ 1 + 1 \in 1 .. Len(todo)
        <5> DEFINE n == Len(todo)
        <5>1. n \in Nat /\ n # 0 /\ n # 1
          BY <2>1, <3>1
        <5> HIDE DEF n
        <5>2. 1 \in 1 .. n - 1 /\ 1 + 1 \in 1 .. n
          BY <5>1
        <5> QED BY <5>2 DEF n
      <4>2. Kind(todo[1 + 1]) \in Then(Kind(todo[1]))
        BY <2>1, <4>1 DEF Linked
      <4>3. Kind(todo[1 + 1]) = "idle"
        BY <3>1, <4>2, Kinds DEF Then
      <4>4. Kind(todo[1 + 1]) # "idle"
        BY <2>1, <4>1, KindOf
      <4> QED BY <4>3, <4>4
    <3>3. todo = <<Return>>
      BY <2>1, <3>1, <3>2
    <3>4. typed = <<val>> \o rx
      BY <2>2, <2>3 DEF Returned, Cat
    <3> QED BY <3>3, <3>4 DEF KeysAreReadOnce
  <2>4. CASE Here # "return"
    <3>1. todo # <<Return>>
      BY <1>1, <2>4, AtRest DEF Inv
    <3>2. typed = rx
      BY <2>2, <2>4, CatNothing DEF Returned
    <3> QED BY <3>1, <3>2 DEF KeysAreReadOnce
  <2> QED BY <2>3, <2>4
<1>2. CASE BootInv
  BY <1>2, StartAlone DEF KeysAreReadOnce, BootInv
<1> QED BY <1>1, <1>2 DEF Inv

\* The chip drives port B only between the strobes of a read.
LEMMA InvOneDriver ==
    ASSUME Inv
    PROVE  NoContention
<1> SUFFICES ASSUME hw = "um245r", "RD" \in ddra, "RD" \notin ora
             PROVE  ddrb = "in"
  BY DEF NoContention, Level
<1>1. ~BootInv
  <2> SUFFICES ASSUME BootInv PROVE FALSE
    OBVIOUS
  <2>1. PICK n \in 1 .. 6 : /\ n \in {5, 6} => ddra = {}
                            /\ n < 6 => {"WE", "RD", "CS"} \subseteq ora
    BY DEF BootInv
  <2>2. n = 6 \/ n < 6
    OBVIOUS
  <2> QED BY <2>1, <2>2
<1>2. AtChip
  BY <1>1 DEF Inv, RunInv
<1> QED BY <1>2 DEF AtChip

-----------------------------------------------------------------------------
(* The theorems. An LED command writes all of port A, and is what breaks them. *)

\* LED commands are counted, so what has no count yet has had none.
LEMMA LedsGrow ==
    ASSUME leds \in 0 .. Leds, [Next]_vars
    PROVE  leds' \in 0 .. Leds /\ (leds' = 0 => leds = 0)
<1>1. leds' = leds \/ (leds < Leds /\ leds' = leds + 1)
  <2>1. CASE Step
    BY <2>1 DEF Step, SetDirA, SetDirB, PutByte, GetByte, ChangeA, Waited, Done
  <2>2. CASE HasRead
    <3>1. Echo \/ ExecuteSpi \/ Spi \/ LeaveSpi
          \/ (\E text \in Texts : Execute(text)) \/ \E routine \in {ledOn, ledOff} : ExecuteLed(routine)
      BY <2>2 DEF HasRead
    <3>2. Echo => leds' = leds
      BY DEF Echo
    <3>3. ExecuteSpi => leds' = leds
      BY DEF ExecuteSpi
    <3>4. Spi => leds' = leds
      BY DEF Spi
    <3>5. LeaveSpi => leds' = leds
      BY DEF LeaveSpi
    <3>6. \A text \in Texts : Execute(text) => leds' = leds
      BY DEF Execute
    <3>7. \A routine \in {ledOn, ledOff} : ExecuteLed(routine) => leds < Leds /\ leds' = leds + 1
      BY DEF ExecuteLed
    <3> QED BY <3>1, <3>2, <3>3, <3>4, <3>5, <3>6, <3>7
  <2>3. CASE Reads \/ HostTakes \/ UNCHANGED vars
    BY <2>3 DEF Reads, HostTakes, vars, program
  <2>4. CASE \E text \in Texts : ThreadPrints(text)
    BY <2>4 DEF ThreadPrints
  <2>5. CASE \E key \in Keys : UserTypes(key)
    BY <2>5 DEF UserTypes, program
  <2> QED BY <2>1, <2>2, <2>3, <2>4, <2>5 DEF Next, Program
<1> QED BY <1>1, BoardAssumption

\* The properties hold from power-on until an LED command is given, however often that is.
THEOREM UntilTheLeds ==
    Spec => [](leds \in 0 .. Leds
               /\ (leds = 0 => TypeOK /\ HostGetsWhatWasWritten /\ KeysAreReadOnce
                               /\ SlaveGetsWhatWasTyped /\ NoContention))
<1> DEFINE Before == leds \in 0 .. Leds /\ (leds = 0 => Inv)
<1>1. Init => Before
  <2>1. Init => leds \in 0 .. Leds
    BY BoardAssumption DEF Init
  <2> QED BY <2>1, InitInv
<1>2. Before /\ [Next]_vars => Before'
  BY LedsGrow, NextInv
<1>3. Before => /\ leds \in 0 .. Leds
                /\ leds = 0 => /\ TypeOK /\ HostGetsWhatWasWritten /\ KeysAreReadOnce
                               /\ SlaveGetsWhatWasTyped /\ NoContention
  BY InvWritten, InvReturned, InvShifted, InvOneDriver DEF Inv
<1> HIDE DEF Before
<1> QED BY <1>1, <1>2, <1>3, PTL DEF Spec

\* When there is none, they hold for ever.
LEMMA NoLeds ==
    ASSUME Leds = 0
    PROVE  Spec => [](/\ TypeOK /\ HostGetsWhatWasWritten /\ KeysAreReadOnce
                      /\ SlaveGetsWhatWasTyped /\ NoContention)
<1>1. leds \in 0 .. Leds => leds = 0
  OBVIOUS
<1> QED BY <1>1, UntilTheLeds, PTL

\* Every variable holds a value of its kind, the chip's queues hold no more than they can,
\* and the program is never further ahead of the host than these and one call (um245.s).
THEOREM TypeCorrectness ==
    ASSUME Leds = 0
    PROVE  Spec => []TypeOK
BY NoLeds, PTL

\* The host gets the bytes that serial_writebyte and serial_writeline are called with,
\* each once and in order, from power-on, on the board and on the simulator.
THEOREM Written ==
    ASSUME Leds = 0
    PROVE  Spec => []HostGetsWhatWasWritten
BY NoLeds, PTL

\* serial_readbyte returns every key once and in order.
THEOREM KeysRead ==
    ASSUME Leds = 0
    PROVE  Spec => []KeysAreReadOnce
BY NoLeds, PTL

\* The SPI slave samples the bits of the byte that spiWrite is called with, the highest
\* first, and no others, whatever else port A is used for in between.
THEOREM Shifted ==
    ASSUME Leds = 0
    PROVE  Spec => []SlaveGetsWhatWasTyped
BY NoLeds, PTL

\* The VIA and the UM245R never drive port B both at once.
THEOREM OneDriver ==
    ASSUME Leds = 0
    PROVE  Spec => []NoContention
BY NoLeds, PTL
=============================================================================
