---------------------------- MODULE DiskLinkProofs ----------------------------
(***************************************************************************)
(* The invariants of DiskLink and the theorems they give, for every magic  *)
(* value, every size of a block and of a buffer, and every text.           *)
(***************************************************************************)
EXTENDS DiskLink, Flattening

\* What the assumptions say of the constants, in one place.
LEMMA Sizes ==
    /\ Radix \in Nat /\ Radix > 1 /\ BlockLen \in Nat /\ BlockLen > 0
    /\ UpCap \in Nat /\ DownCap \in Nat /\ Byte \subseteq Nat
    /\ BlockLen + 2 < Radix * Radix
    /\ Magic \in Seq(Byte) /\ Len(Magic) \in Nat /\ Len(Magic) > 0
    /\ {R, W, Enter, Newline} \subseteq Byte /\ R # W
    /\ Line \in Seq(Byte) /\ Prompt \in Seq(Byte) /\ Motd \in Seq(Byte)
BY MagicAssumption, LinkAssumption, LenProperties DEF Byte

\* What the assumptions say of the magic value.
LEMMA MagicSize ==
    Magic \in Seq(Byte) /\ Len(Magic) \in Nat /\ Len(Magic) > 0 /\ Byte \subseteq Nat
BY MagicAssumption, LenProperties DEF Byte

\* The two bytes of a length, and the length that they stand for.
LEMMA Digits ==
    ASSUME NEW n \in Nat, n < Radix * Radix
    PROVE  /\ n % Radix \in Byte /\ n \div Radix \in Byte
           /\ ((n \div Radix) * Radix) + (n % Radix) = n
<1> DEFINE q == n \div Radix
           r == n % Radix
<1>1. q \in Nat /\ r \in Nat /\ r < Radix /\ n = q * Radix + r
  BY Sizes
<1>2. q < Radix
  <2> SUFFICES ASSUME q >= Radix PROVE FALSE
    BY <1>1, Sizes
  <2> HIDE DEF q, r
  <2>1. q = Radix + (q - Radix) /\ q - Radix \in Nat
    BY <1>1, Sizes
  <2>2. q * Radix = Radix * Radix + (q - Radix) * Radix
    BY <2>1, Sizes
  <2>3. (q - Radix) * Radix \in Nat /\ Radix * Radix \in Nat
    BY <2>1, Sizes
  <2> QED BY <1>1, <2>2, <2>3, Sizes, SMTT(30)
<1> HIDE DEF q, r
<1>3. q \in Byte /\ r \in Byte /\ (q * Radix) + r = n
  <2>1. q * Radix \in Nat
    BY <1>1, Sizes
  <2> QED BY <1>1, <1>2, <2>1, Sizes DEF Byte
<1> QED BY <1>3 DEF q, r

\* Block s lies inside the file.
LEMMA BlockInside ==
    ASSUME NEW s \in Byte, NEW k \in 1 .. BlockLen
    PROVE  (s * BlockLen) + (k - 1) \in Addresses
<1>1. s \in Nat /\ s <= Radix - 1
  BY Sizes DEF Byte
<1>2. s * BlockLen \in Nat /\ Radix * BlockLen \in Nat
  BY <1>1, Sizes
<1>3. Radix * BlockLen = s * BlockLen + (Radix - s) * BlockLen
  BY <1>1, Sizes
<1>4. (Radix - s) * BlockLen = BlockLen + ((Radix - s) - 1) * BlockLen
  BY <1>1, Sizes
<1>5. ((Radix - s) - 1) * BlockLen \in Nat
  BY <1>1, Sizes
<1>6. (s * BlockLen) + BlockLen <= Radix * BlockLen
  BY <1>2, <1>3, <1>4, <1>5, Sizes
<1> DEFINE p == s * BlockLen
           q == Radix * BlockLen
<1> HIDE DEF p, q
<1>7. p \in Nat /\ q \in Nat /\ p + BlockLen <= q
  BY <1>2, <1>6 DEF p, q
<1>8. p + (k - 1) \in 0 .. q - 1
  BY <1>7, Sizes
<1> QED BY <1>8 DEF Addresses, p, q

\* A block of the file is a block of bytes.
LEMMA StoredType ==
    ASSUME NEW d \in [Addresses -> Byte], NEW s \in Byte
    PROVE  /\ Stored(d, s) \in [1 .. BlockLen -> Byte]
           /\ Stored(d, s) \in Seq(Byte) /\ Len(Stored(d, s)) = BlockLen
<1>1. \A k \in 1 .. BlockLen : d[(s * BlockLen) + (k - 1)] \in Byte
  BY BlockInside
<1>2. Stored(d, s) \in [1 .. BlockLen -> Byte]
  BY <1>1 DEF Stored
<1>3. BlockLen \in Nat
  BY Sizes
<1> QED BY <1>2, <1>3

\* A file that a packet has written to is still a file of bytes.
LEMMA WrittenType ==
    ASSUME NEW d \in [Addresses -> Byte], NEW t \in Seq(Byte), Len(t) > 1
    PROVE  Written(d, t) \in [Addresses -> Byte]
<1> DEFINE c == SubSeq(t, 3, Len(t))
           start == t[2] * BlockLen
<1>1. Len(t) \in Nat /\ t[2] \in Byte /\ t[2] \in Nat
  <2>1. Len(t) \in Nat /\ 2 \in 1 .. Len(t)
    BY LenProperties
  <2> QED BY <2>1, ElementOfSeq, Sizes
<1>2. c \in Seq(Byte) /\ Len(c) \in Nat
  <2>1. \A i \in 3 .. Len(t) : t[i] \in Byte
    BY <1>1, LenProperties
  <2> QED BY <1>1, <2>1, SubSeqProperties, LenProperties
<1>3. start \in Nat
  BY <1>1, Sizes
<1>4. \A n \in Addresses : n \in Nat
  BY Sizes DEF Addresses
<1>5. Written(d, t) = [n \in Addresses |-> IF n >= start /\ n < start + Len(c) THEN c[(n - start) + 1] ELSE d[n]]
  BY DEF Written
<1> HIDE DEF c, start
<1>6. ASSUME NEW n \in Addresses, n >= start, n < start + Len(c)
      PROVE  c[(n - start) + 1] \in Byte
  <2>1. (n - start) + 1 \in 1 .. Len(c)
    BY <1>2, <1>3, <1>4, <1>6
  <2> QED BY <1>2, <2>1, LenProperties
<1> QED BY <1>5, <1>6

\* A text is asked byte by byte.
LEMMA TextsType ==
    ASSUME NEW t \in Seq(Byte)
    PROVE  /\ Texts(t) \in Seq(Item) /\ Len(Texts(t)) = Len(t)
           /\ \A k \in 1 .. Len(t) : Texts(t)[k] = [kind |-> "text", bytes |-> <<t[k]>>]
<1>1. Len(t) \in Nat /\ DOMAIN t = 1 .. Len(t) /\ \A k \in 1 .. Len(t) : t[k] \in Byte
  BY LenProperties
<1>2. Texts(t) = [k \in 1 .. Len(t) |-> [kind |-> "text", bytes |-> <<t[k]>>]]
  BY <1>1 DEF Texts
<1>3. \A k \in 1 .. Len(t) : [kind |-> "text", bytes |-> <<t[k]>>] \in Item
  BY <1>1 DEF Item
<1> QED BY <1>1, <1>2, <1>3

\* What a packet consists of.
LEMMA PacketType ==
    ASSUME NEW b \in Seq(Byte), Len(b) \in 1 .. BlockLen + 2
    PROVE  /\ Packet(b) \in Seq(Byte) /\ Len(Packet(b)) = Len(Magic) + 2 + Len(b)
           /\ Packet(b) = Magic \o (<<Len(b) % Radix, Len(b) \div Radix>> \o b)
           /\ Command(b) \in Item
<1>1. Len(b) \in Nat /\ Len(b) < Radix * Radix
  BY Sizes
<1>2. <<Len(b) % Radix, Len(b) \div Radix>> \in Seq(Byte)
  BY <1>1, Digits
<1> DEFINE h == <<Len(b) % Radix, Len(b) \div Radix>>
<1>3. Len(h) = 2 /\ h \in Seq(Byte)
  BY <1>2
<1>4. Packet(b) = (Magic \o h) \o b
  BY DEF Packet
<1> HIDE DEF h
<1>5. Magic \in Seq(Byte) /\ Len(Magic) \in Nat
  BY Sizes
<1>6. (Magic \o h) \o b = Magic \o (h \o b)
  BY <1>3, <1>5, ConcatAssociative, SMTT(30)
<1>7. h \o b \in Seq(Byte) /\ Len(h \o b) = Len(h) + Len(b)
  BY <1>3, ConcatProperties, Zenon
<1> DEFINE e == h \o b
<1>8. e \in Seq(Byte) /\ Len(e) = 2 + Len(b)
  BY <1>3, <1>7
<1> HIDE DEF e
<1>9. Magic \o e \in Seq(Byte) /\ Len(Magic \o e) = Len(Magic) + Len(e)
  BY <1>5, <1>8, ConcatProperties, Zenon
<1>10. Command(b) \in Item
  BY DEF Command, Item
<1>11. Packet(b) = Magic \o e
  BY <1>4, <1>6 DEF e
<1>12. Packet(b) \in Seq(Byte) /\ Len(Packet(b)) = Len(Magic) + 2 + Len(b)
  BY <1>1, <1>5, <1>8, <1>9, <1>11
<1> QED BY <1>10, <1>11, <1>12 DEF e, h

\* The states of the tokenizer.
TokenizerType ==
    [state : {"magic", "size", "size2", "data"}, matched : 0 .. Len(Magic) - 1,
     length : 0 .. (Radix * Radix) - 1, body : Seq(Byte)]

\* What byte b may make of the tokenizer: a tokenizer again, and console text or a body.
LEMMA TokenizerTypes ==
    ASSUME NEW t \in TokenizerType, NEW b \in Byte, t.state = "size2" => t.length \in Byte
    PROVE  /\ Advance(t, b) \in TokenizerType
           /\ Advance(t, b).state = "size2" => Advance(t, b).length \in Byte
           /\ Potential(t) \in Seq(Byte) /\ Len(Potential(t)) = t.matched
           /\ \A k \in 1 .. t.matched : Potential(t)[k] = Magic[k]
           /\ Text(t, b) \in Seq(Byte) /\ Token(t, b) \in Seq(Byte)
<1> DEFINE M == 0 .. Len(Magic) - 1
           sq == Radix * Radix
           N == 0 .. sq - 1
           T == [state : {"magic", "size", "size2", "data"}, matched : M, length : N, body : Seq(Byte)]
<1>0. TokenizerType = T
  BY DEF TokenizerType
<1>1. /\ sq \in Nat /\ Radix <= sq
      /\ \A x \in Byte, y \in Byte : (x * Radix) + y \in Nat /\ (x * Radix) + y < sq
  <2>1. sq = Radix + (Radix - 1) * Radix /\ (Radix - 1) * Radix \in Nat /\ sq \in Nat
    BY Sizes
  <2> DEFINE p == (Radix - 1) * Radix
  <2>2. p \in Nat /\ sq = Radix + p
    BY <2>1
  <2> HIDE DEF p, sq
  <2>3. Radix <= sq
    BY <2>2, Sizes
  <2>4. ASSUME NEW x \in Byte, NEW y \in Byte
        PROVE  (x * Radix) + y \in Nat /\ (x * Radix) + y < sq
    <3>1. x \in Nat /\ x <= Radix - 1 /\ y \in Nat /\ y < Radix
      BY Sizes DEF Byte
    <3>2. p = x * Radix + ((Radix - 1) - x) * Radix
      BY <3>1, Sizes DEF p
    <3>3. x * Radix \in Nat /\ ((Radix - 1) - x) * Radix \in Nat
      BY <3>1, Sizes
    <3> DEFINE u == x * Radix
               v == ((Radix - 1) - x) * Radix
    <3>4. u \in Nat /\ v \in Nat /\ p = u + v
      BY <3>2, <3>3
    <3> HIDE DEF u, v
    <3>5. u + y \in Nat /\ u + y < sq
      BY <2>2, <3>1, <3>4, Sizes
    <3> QED BY <3>5 DEF u
  <2> QED BY <2>2, <2>3, <2>4
<1> HIDE DEF sq
<1>2. 0 \in M /\ 0 \in N /\ b \in N
  <2>1. b \in Nat /\ b < Radix
    BY Sizes DEF Byte
  <2> QED BY <1>1, <2>1, Sizes
<1>3. /\ t.matched \in M /\ t.body \in Seq(Byte) /\ t.length \in N /\ Len(t.body) \in Nat
      /\ t.state \in {"magic", "size", "size2", "data"} /\ t \in T
  <2>1. t \in T
    BY <1>0
  <2> HIDE DEF M, N
  <2> QED BY <2>1, LenProperties
<1>4. t.matched \in Nat /\ t.matched < Len(Magic)
  BY <1>3, Sizes
<1>5. /\ Potential(t) \in Seq(Byte) /\ Len(Potential(t)) = t.matched
      /\ \A k \in 1 .. t.matched : Potential(t)[k] = Magic[k]
  <2>1. \A i \in 1 .. t.matched : Magic[i] \in Byte
    BY <1>4, Sizes, LenProperties
  <2> QED BY <1>4, <2>1, SubSeqProperties DEF Potential
<1>6. Append(Potential(t), b) \in Seq(Byte) /\ Append(t.body, b) \in Seq(Byte) /\ <<>> \in Seq(Byte)
  BY <1>3, <1>5, AppendProperties
<1>7. Text(t, b) \in Seq(Byte) /\ Token(t, b) \in Seq(Byte)
  BY <1>6 DEF Text, Token
<1>8. t.matched + 1 < Len(Magic) => t.matched + 1 \in M
  BY <1>4, Sizes
<1>9. t.matched + 1 < Len(Magic) \/ t.matched + 1 = Len(Magic)
  BY <1>4, Sizes
<1>10. t.state = "size2" => (b * Radix) + t.length \in N
  BY <1>1
<1> HIDE DEF M, N
<1>11. NewTokenizer \in T /\ NewTokenizer.state = "magic"
  BY <1>2, <1>6 DEF NewTokenizer
<1> DEFINE u == Advance(t, b)
<1>12. u \in T /\ (u.state = "size2" => u.length \in Byte)
  <2>1. CASE t.state = "magic"
    <3>1. CASE ~Matches(t, b)
      <4>1. u = [t EXCEPT !.matched = 0]
        BY <2>1, <3>1 DEF Advance
      <4> QED BY <1>2, <1>3, <2>1, <4>1
    <3>2. CASE Matches(t, b) /\ t.matched + 1 < Len(Magic)
      <4> DEFINE m == t.matched + 1
      <4>0. u = [t EXCEPT !.matched = @ + 1]
        BY <2>1, <3>2 DEF Advance
      <4>1. u = [t EXCEPT !.matched = m] /\ m \in M
        BY <1>8, <3>2, <4>0
      <4> HIDE DEF m
      <4>2. [t EXCEPT !.matched = m] \in T
        BY <1>3, <4>1
      <4>3. u.state = "magic"
        BY <1>3, <2>1, <4>1
      <4> QED BY <4>1, <4>2, <4>3
    <3>3. CASE Matches(t, b) /\ t.matched + 1 = Len(Magic)
      <4>1. u = [state |-> "size", matched |-> 0, length |-> 0, body |-> <<>>]
        BY <2>1, <3>3, <1>4, Sizes, SMTT(30) DEF Advance
      <4> QED BY <1>2, <1>6, <4>1
    <3> QED BY <1>9, <3>1, <3>2, <3>3
  <2>2. CASE t.state = "size"
    <3>1. u = [t EXCEPT !.state = "size2", !.length = b]
      BY <2>2 DEF Advance
    <3> QED BY <1>2, <1>3, <3>1
  <2>3. CASE t.state = "size2"
    <3> DEFINE n == (b * Radix) + t.length
    <3>1. u = [t EXCEPT !.state = "data", !.length = n] /\ n \in N
      BY <1>10, <2>3 DEF Advance
    <3> HIDE DEF n
    <3> QED BY <1>3, <3>1
  <2>4. CASE t.state = "data" /\ Len(t.body) + 1 = t.length
    <3>1. u = NewTokenizer
      BY <2>4 DEF Advance
    <3> QED BY <1>11, <3>1
  <2>5. CASE t.state = "data" /\ Len(t.body) + 1 # t.length
    <3>1. u = IF t.length = 0 THEN t ELSE [t EXCEPT !.body = Append(@, b)]
      BY <2>5 DEF Advance
    <3> QED BY <1>3, <1>6, <2>5, <3>1
  <2> QED BY <1>3, <2>1, <2>2, <2>3, <2>4, <2>5
<1> QED BY <1>0, <1>5, <1>7, <1>12

\* Without a cable nothing of what was read before is left, but what Unplug says; a read
\* under way lacks a byte; the first byte of a length is one.
HeldOK ==
    /\ port # "closed" => held = 0
    /\ mode = "reading" => Len(got) < BlockLen
    /\ tok.state = "size2" => tok.length \in Byte

\* The inductive invariant of the types.
TypeInv == TypeOK /\ HeldOK

-----------------------------------------------------------------------------
(* Type correctness.                                                        *)

\* It holds when the computer and the host start.
LEMMA InitTypes == Init => TypeInv
<1> SUFFICES ASSUME Init PROVE TypeInv
  OBVIOUS
<1>1. Motd \o Prompt \in Seq(Byte) /\ <<>> \in Seq(Byte) /\ Len(<<>>) = 0
  BY Sizes, ConcatProperties, EmptySeq
<1>2. asked \in Seq(Item)
  BY <1>1, TextsType DEF Init
<1>3. disk \in [Addresses -> Byte]
  BY Sizes DEF Init, Byte
<1>4. last \in [Sectors -> [1 .. BlockLen -> Byte]]
  BY <1>3, StoredType, LinkAssumption DEF Init
<1>5. tok \in [state : {"magic", "size", "size2", "data"}, matched : 0 .. Len(Magic) - 1,
               length : 0 .. (Radix * Radix) - 1, body : Seq(Byte)]
  <2>1. 0 \in 0 .. Len(Magic) - 1
    BY Sizes
  <2>2. 0 \in 0 .. (Radix * Radix) - 1
    BY Sizes
  <2> QED BY <1>1, <2>1, <2>2 DEF Init, NewTokenizer
<1>6. Resets \in Nat /\ Unplugs \in Nat
  BY LinkAssumption
<1>7. /\ mode = "shell" /\ out \in Seq(Byte) /\ got = <<>> /\ sector \in Sectors
      /\ up = <<>> /\ down = <<>> /\ reply = <<>> /\ host = "running" /\ port = "none"
      /\ held = 0 /\ unplugs = 0 /\ resets = 0 /\ cutOff = FALSE /\ astray = FALSE
  BY <1>1 DEF Init
<1>8. Len(got) <= BlockLen /\ Len(up) <= UpCap /\ Len(down) <= DownCap
  BY <1>1, <1>7, Sizes
<1>9. held \in 0 .. Len(up) /\ unplugs \in 0 .. Unplugs /\ resets \in 0 .. Resets
  BY <1>1, <1>6, <1>7
<1> QED BY <1>1, <1>2, <1>3, <1>4, <1>5, <1>7, <1>8, <1>9 DEF TypeInv, TypeOK, HeldOK, NewTokenizer, Init

\* What a step that prints or asks makes of the two histories.
LEMMA ExpectTypes ==
    ASSUME NEW items \in Seq(Item), NEW lost \in BOOLEAN, Expect(items, lost), astray \in BOOLEAN
    PROVE  asked' \in Seq(Item) /\ astray' \in BOOLEAN
<1>1. Spelt(items) \in BOOLEAN
  BY DEF Spelt
<1> QED BY <1>1, EmptySeq DEF Expect
LEMMA RecordTypes ==
    ASSUME TypeInv, NEW items \in Seq(Item), Record(items)
    PROVE  asked' \in Seq(Item) /\ astray' \in BOOLEAN
<1>1. asked \o items \in Seq(Item) /\ astray \in BOOLEAN
  BY ConcatProperties DEF TypeInv, TypeOK
<1> QED BY <1>1, ExpectTypes DEF Record

\* What every step that prints does.
LEMMA SayTypes ==
    ASSUME TypeInv, NEW text \in Seq(Byte), Say(text, mode'),
           mode' \in {"shell", "command", "input", "entered"},
           down' \in Seq(Byte), Len(down') <= DownCap \/ Len(down') <= Ahead
    PROVE  TypeInv'
<1>1. Texts(text) \in Seq(Item)
  BY TextsType
<1>2. asked' \in Seq(Item) /\ astray' \in BOOLEAN
  BY <1>1, RecordTypes DEF Say
<1> QED BY <1>2 DEF TypeInv, TypeOK, HeldOK, Say, server, cable

\* The mode that a step that prints leads to is the one it names.
LEMMA SayText ==
    ASSUME NEW text \in Seq(Byte), NEW next, Say(text, next)
    PROVE  Say(text, mode') /\ mode' = next
BY DEF Say

\* The keys that a step takes from the line.
LEMMA DownTail ==
    ASSUME TypeInv, down # <<>>
    PROVE  /\ Head(down) \in Byte /\ Tail(down) \in Seq(Byte)
           /\ Len(Tail(down)) <= DownCap \/ Len(Tail(down)) <= Ahead
<1>1. /\ down \in Seq(Byte) /\ Len(down) \in Nat /\ Ahead \in Nat
      /\ Len(down) <= DownCap \/ Len(down) <= Ahead
  BY LenProperties, LinkAssumption DEF TypeInv, TypeOK
<1>2. Head(down) \in Byte /\ Tail(down) \in Seq(Byte) /\ Len(Tail(down)) = Len(down) - 1
  BY <1>1, HeadTailProperties
<1> QED BY <1>1, <1>2, Sizes

\* The steps of the computer: shell, disk_read, disk_write, a byte sent or received.
LEMMA ComputerTypes == TypeInv /\ Computer => TypeInv'
<1> SUFFICES ASSUME TypeInv, Computer PROVE TypeInv'
  OBVIOUS
<1>0. /\ out \in Seq(Byte) /\ up \in Seq(Byte) /\ asked \in Seq(Item) /\ got \in Seq(Byte)
      /\ Len(out) \in Nat /\ Len(up) \in Nat /\ Len(got) \in Nat
  BY LenProperties DEF TypeInv, TypeOK
<1>1. CASE SendByte
  <2>1. Head(out) \in Byte /\ Tail(out) \in Seq(Byte)
    BY <1>0, <1>1, HeadTailProperties DEF SendByte
  <2>2. Append(up, Head(out)) \in Seq(Byte) /\ Len(Append(up, Head(out))) = Len(up) + 1
    BY <1>0, <2>1, AppendProperties
  <2>3. up' = Append(up, Head(out)) /\ Len(up) < UpCap /\ out' = Tail(out)
    BY <1>1 DEF SendByte
  <2>4. Len(up') <= UpCap /\ held' \in 0 .. Len(up')
    <3>1. held \in 0 .. Len(up)
      BY DEF TypeInv, TypeOK
    <3>2. Len(up') = Len(up) + 1
      BY <2>2, <2>3
    <3>3. Len(up) \in Nat /\ UpCap \in Nat
      BY <1>0, Sizes
    <3>4. held' = held
      BY <1>1 DEF SendByte, cable
    <3> QED BY <2>3, <3>1, <3>2, <3>3, <3>4
  <2>5. mode' \in {"shell", "command", "input", "entered", "reading", "writing"}
    BY <1>1 DEF SendByte, TypeInv, TypeOK
  <2> QED BY <1>1, <2>1, <2>2, <2>3, <2>4, <2>5, SMTT(30) DEF SendByte, TypeInv, TypeOK, HeldOK, server, cable
<1>2. CASE ReadKey
  <2>1. <<Enter, Newline>> \in Seq(Byte) /\ <<Head(down)>> \in Seq(Byte)
    BY <1>2, DownTail, Sizes DEF ReadKey
  <2>2. \E text \in Seq(Byte) : Say(text, mode') /\ mode' \in {"shell", "command"}
    BY <1>2, <2>1, SayText DEF ReadKey
  <2> QED BY <1>2, <2>2, DownTail, SayTypes DEF ReadKey
<1>3. CASE StartInput
  <2>1. <<Newline>> \in Seq(Byte)
    BY Sizes
  <2> QED BY <1>3, <2>1, SayText, SayTypes DEF StartInput, TypeInv, TypeOK
<1>4. CASE InputKey
  <2>1. <<Head(down)>> \in Seq(Byte)
    BY <1>4, DownTail DEF InputKey
  <2>2. Say(<<Head(down)>>, mode') /\ mode' \in {"input", "entered"}
    BY <1>4, <2>1, SayText DEF InputKey
  <2> QED BY <1>4, <2>1, <2>2, DownTail, SayTypes DEF InputKey
<1>5. CASE EndInput
  BY <1>5, Sizes, SayText, SayTypes DEF EndInput, TypeInv, TypeOK
<1>6. CASE Return
  BY <1>6, Sizes, SayText, SayTypes DEF Return, TypeInv, TypeOK
<1>7. CASE ReceiveByte
  <2>1. Append(got, Head(down)) \in Seq(Byte) /\ Len(Append(got, Head(down))) = Len(got) + 1
    BY <1>0, <1>7, DownTail, AppendProperties DEF ReceiveByte
  <2>2. got' = Append(got, Head(down)) /\ Len(got) < BlockLen
    BY <1>7 DEF ReceiveByte, TypeInv, HeldOK
  <2>3. Len(got') <= BlockLen /\ (Len(got') # BlockLen => Len(got') < BlockLen)
    BY <1>0, <2>1, <2>2, Sizes
  <2> QED BY <1>7, <2>1, <2>2, <2>3, DownTail DEF ReceiveByte, TypeInv, TypeOK, HeldOK, server, cable
<1>8. CASE \E s \in Sectors : DiskRead(s)
  <2>1. PICK s \in Sectors : DiskRead(s)
    BY <1>8
  <2>2. <<R, s>> \in Seq(Byte) /\ Len(<<R, s>>) = 2
    BY Sizes, LinkAssumption
  <2>3. 2 \in 1 .. BlockLen + 2
    BY Sizes
  <2>4. Packet(<<R, s>>) \in Seq(Byte) /\ Command(<<R, s>>) \in Item
    BY <2>2, <2>3, PacketType
  <2>5. asked' \in Seq(Item) /\ astray' \in BOOLEAN /\ cutOff' \in BOOLEAN
    <3> DEFINE q == Command(<<R, s>>)
    <3>1. q \in Item /\ Record(<<q>>) /\ cutOff' = astray
      BY <2>1, <2>4 DEF DiskRead
    <3> HIDE DEF q
    <3>2. <<q>> \in Seq(Item)
      BY <3>1
    <3> QED BY <3>1, <3>2, RecordTypes DEF TypeInv, TypeOK
  <2>6. <<>> \in Seq(Byte) /\ Len(<<>>) < BlockLen /\ Len(<<>>) <= BlockLen
    BY Sizes, EmptySeq
  <2> QED BY <2>1, <2>4, <2>5, <2>6 DEF DiskRead, TypeInv, TypeOK, HeldOK, server, cable
<1>9. CASE \E s \in Sectors : \E d \in Data : DiskWrite(s, d)
  <2>1. PICK s \in Sectors : \E d \in Data : DiskWrite(s, d)
    BY <1>9
  <2>2. PICK d \in Data : DiskWrite(s, d)
    BY <2>1
  <2>3. d \in [1 .. BlockLen -> Byte] /\ d \in Seq(Byte) /\ Len(d) = BlockLen
    <3>1. d \in [1 .. BlockLen -> Byte] /\ BlockLen \in Nat
      BY Sizes, LinkAssumption
    <3> QED BY <3>1
  <2>4. <<W, s>> \in Seq(Byte) /\ Len(<<W, s>>) = 2
    BY Sizes, LinkAssumption
  <2> DEFINE b == <<W, s>> \o d
  <2>5. b \in Seq(Byte) /\ Len(b) = 2 + BlockLen
    BY <2>3, <2>4
  <2> HIDE DEF b
  <2>6. Len(b) \in 1 .. BlockLen + 2
    BY <2>5, Sizes
  <2>7. Packet(b) \in Seq(Byte) /\ Command(b) \in Item
    BY <2>5, <2>6, PacketType
  <2>8. asked' \in Seq(Item) /\ astray' \in BOOLEAN
    <3> DEFINE q == Command(b)
    <3>1. q \in Item /\ Record(<<q>>)
      BY <2>2, <2>7 DEF DiskWrite, b
    <3> HIDE DEF q
    <3>2. <<q>> \in Seq(Item)
      BY <3>1
    <3> QED BY <3>1, <3>2, RecordTypes
  <2>9. [last EXCEPT ![s] = d] \in [Sectors -> [1 .. BlockLen -> Byte]]
    BY <2>3 DEF TypeInv, TypeOK
  <2>10. /\ out' = Packet(b) /\ mode' = "writing"
         /\ last' = [last EXCEPT ![s] = d]
         /\ UNCHANGED <<got, sector, resets, server, cable, up, down>>
    BY <2>2 DEF DiskWrite, b
  <2> QED BY <2>7, <2>8, <2>9, <2>10 DEF TypeInv, TypeOK, HeldOK, server, cable
<1> QED BY <1>1, <1>2, <1>3, <1>4, <1>5, <1>6, <1>7, <1>8, <1>9 DEF Computer

\* A reset starts the shell anew.
LEMMA ResetTypes == TypeInv /\ Reset => TypeInv'
<1> SUFFICES ASSUME TypeInv, Reset PROVE TypeInv'
  OBVIOUS
<1>1. asked \in Seq(Item) /\ Len(asked) \in Nat /\ out \in Seq(Byte) /\ Len(out) \in Nat
  BY LenProperties DEF TypeInv, TypeOK
<1>2. Motd \o Prompt \in Seq(Byte) /\ <<>> \in Seq(Byte) /\ Len(<<>>) <= BlockLen
  BY Sizes, ConcatProperties, EmptySeq
<1>3. Texts(Motd \o Prompt) \in Seq(Item)
  BY <1>2, TextsType
<1>4. SubSeq(asked, 1, Len(asked) - Len(out)) \in Seq(Item)
  <2>1. \A i \in 1 .. Len(asked) - Len(out) : asked[i] \in Item
    BY <1>1, LenProperties
  <2> QED BY <1>1, <2>1, SubSeqProperties
<1>5. SubSeq(asked, 1, Len(asked) - Len(out)) \o Texts(Motd \o Prompt) \in Seq(Item)
  BY <1>3, <1>4, ConcatProperties
<1>6. asked' \in Seq(Item) /\ astray' \in BOOLEAN
  <2>1. InPacket \in BOOLEAN /\ astray \in BOOLEAN
    BY DEF InPacket, TypeInv, TypeOK
  <2> QED BY <1>5, <2>1, ExpectTypes DEF Reset
<1>7. resets' \in 0 .. Resets
  BY LinkAssumption DEF Reset, TypeInv, TypeOK
<1> QED BY <1>2, <1>6, <1>7 DEF Reset, TypeInv, TypeOK, HeldOK, server, cable

\* What a byte makes the host do is a sequence.
LEMMA DoneType ==
    ASSUME TypeInv, HostByte
    PROVE  Len(Done) \in Nat
<1>1. /\ tok \in TokenizerType /\ (tok.state = "size2" => tok.length \in Byte)
      /\ up \in Seq(Byte) /\ up # <<>>
  BY DEF TypeInv, TypeOK, HeldOK, HostByte, TokenizerType
<1>2. Head(up) \in Byte
  BY <1>1, HeadTailProperties
<1>3. Text(tok, Head(up)) \in Seq(Byte)
  BY <1>1, <1>2, TokenizerTypes
<1>4. Texts(Text(tok, Head(up))) \in Seq(Item)
  BY <1>3, TextsType
<1>5. Len(Texts(Text(tok, Head(up)))) \in Nat
  BY <1>4, LenProperties
<1> QED BY <1>5 DEF Done

\* The byte that the host reads makes a text or a packet, or neither.
LEMMA HostByteTypes == TypeInv /\ HostByte => TypeInv'
<1> SUFFICES ASSUME TypeInv, HostByte PROVE TypeInv'
  OBVIOUS
<1>1. /\ tok \in TokenizerType /\ (tok.state = "size2" => tok.length \in Byte)
      /\ up \in Seq(Byte) /\ Len(up) \in Nat /\ up # <<>> /\ asked \in Seq(Item) /\ Len(asked) \in Nat
      /\ disk \in [Addresses -> Byte] /\ held \in 0 .. Len(up)
  BY LenProperties DEF TypeInv, TypeOK, HeldOK, HostByte, TokenizerType
<1> DEFINE b == Head(up)
           t == Token(tok, b)
<1>2. b \in Byte /\ Tail(up) \in Seq(Byte) /\ Len(Tail(up)) = Len(up) - 1
  BY <1>1, HeadTailProperties
<1>3. /\ Advance(tok, b) \in TokenizerType
      /\ Advance(tok, b).state = "size2" => Advance(tok, b).length \in Byte
      /\ Text(tok, b) \in Seq(Byte) /\ t \in Seq(Byte)
  BY <1>1, <1>2, TokenizerTypes
<1>4. up' = Tail(up) /\ tok' = Advance(tok, b)
  BY DEF HostByte
<1>5. Len(Done) \in Nat
  BY DoneType
<1>6. SubSeq(asked, Len(Done) + 1, Len(asked)) \in Seq(Item)
  <2>1. \A i \in Len(Done) + 1 .. Len(asked) : asked[i] \in Item
    BY <1>1, <1>5, LenProperties
  <2> QED BY <1>1, <1>5, <2>1, SubSeqProperties
<1>7. asked' \in Seq(Item)
  BY <1>6 DEF HostByte
<1>8. held' \in 0 .. Len(up') /\ (port' # "closed" => held' = 0)
  <2>1. Len(up) > 0
    BY <1>1, EmptySeq
  <2>2. CASE port = "open" /\ UNCHANGED held
    BY <1>1, <1>2, <1>4, <2>1, <2>2 DEF TypeInv, HeldOK, HostByte
  <2>3. CASE port = "closed" /\ held > 0 /\ held' = held - 1
    BY <1>1, <1>2, <1>4, <2>1, <2>3 DEF HostByte
  <2> QED BY <2>2, <2>3 DEF HostByte
<1>9. reply' \in Seq(Byte) /\ disk' \in [Addresses -> Byte] /\ host' \in {"running", "exited"}
  <2>1. CASE t = <<>>
    BY <2>1 DEF HostByte, TypeInv, TypeOK
  <2>2. CASE t # <<>>
    <3>1. Handle(t)
      BY <2>2 DEF HostByte
    <3>2. Len(t) > 1 => t[2] \in Byte
      <4>1. Len(t) \in Nat
        BY <1>3, LenProperties
      <4>2. Len(t) > 1 => 2 \in 1 .. Len(t)
        BY <4>1
      <4> QED BY <1>3, <4>2, ElementOfSeq
    <3> HIDE DEF t
    <3>3. Len(t) > 1 => Stored(disk, t[2]) \in Seq(Byte) /\ Written(disk, t) \in [Addresses -> Byte]
      BY <1>1, <1>3, <3>2, StoredType, WrittenType
    <3> QED BY <3>1, <3>3 DEF Handle, TypeInv, TypeOK
  <2> QED BY <2>1, <2>2
<1>10. Len(up') <= UpCap
  BY <1>1, <1>2, <1>4, Sizes DEF TypeInv, TypeOK
<1>11. UNCHANGED <<computer, port, unplugs, cutOff, down>>
  BY DEF HostByte
<1>12. astray' \in BOOLEAN
  BY DEF HostByte, TypeInv, TypeOK
<1> HIDE DEF b, t
<1>13. tok' \in TokenizerType /\ up' \in Seq(Byte)
  BY <1>2, <1>3, <1>4
<1>14. HeldOK'
  BY <1>3, <1>4, <1>8, <1>11 DEF TypeInv, HeldOK, computer
<1> QED BY <1>7, <1>8, <1>9, <1>10, <1>11, <1>12, <1>13, <1>14, SMTT(30) DEF TypeInv, TypeOK, TokenizerType, computer

\* What the cable takes with it, when it is pulled, is a part of up and the end of down.
LEMMA UnplugTypes ==
    ASSUME TypeInv, Unplug
    PROVE  TypeInv' /\ (~astray' => ~astray /\ up' = up /\ asked' = asked)
<1>0. down \in Seq(Byte) /\ Len(down) \in Nat /\ up \in Seq(Byte) /\ Len(up) \in Nat
  BY LenProperties DEF TypeInv, TypeOK
<1>1. PICK h \in 0 .. Len(up), n \in 0 .. Len(down) :
           \E m \in 0 .. Len(up) - h :
              /\ held' = h /\ up' = SubSeq(up, 1, h) \o SubSeq(up, h + m + 1, Len(up))
              /\ down' = SubSeq(down, 1, n)
              /\ cutOff' = (cutOff \/ m > 0 \/ n < Len(down))
              /\ astray' = (astray \/ m > 0) /\ asked' = IF astray' THEN <<>> ELSE asked
  BY DEF Unplug
<1>2. PICK m \in 0 .. Len(up) - h :
              /\ held' = h /\ up' = SubSeq(up, 1, h) \o SubSeq(up, h + m + 1, Len(up))
              /\ down' = SubSeq(down, 1, n)
              /\ cutOff' = (cutOff \/ m > 0 \/ n < Len(down))
              /\ astray' = (astray \/ m > 0) /\ asked' = IF astray' THEN <<>> ELSE asked
  BY <1>1
<1>3. down' \in Seq(Byte) /\ Len(down') = n
  BY <1>0, <1>2, PrefixAndRest
<1>4. Len(down') <= DownCap \/ Len(down') <= Ahead
  <2>1. (Len(down) <= DownCap \/ Len(down) <= Ahead) /\ DownCap \in Nat /\ Ahead \in Nat
    BY LinkAssumption DEF TypeInv, TypeOK
  <2>2. n \in Nat /\ n <= Len(down) /\ Len(down') = n
    BY <1>0, <1>3
  <2> QED BY <1>0, <2>1, <2>2
<1> DEFINE a == SubSeq(up, 1, h)
           b == SubSeq(up, h + m + 1, Len(up))
<1>5. a \in Seq(Byte) /\ Len(a) = h
  BY <1>0, PrefixAndRest
<1>6. h + m \in 0 .. Len(up)
  BY <1>0
<1>7. b \in Seq(Byte) /\ Len(b) = Len(up) - (h + m)
  BY <1>0, <1>6, PrefixAndRest
<1>8. m = 0 => a \o b = up
  <2>1. m = 0 => h + m = h
    BY <1>0
  <2>2. up = SubSeq(up, 1, h) \o SubSeq(up, h + 1, Len(up))
    BY <1>0, PrefixAndRest
  <2> QED BY <2>1, <2>2
<1>9. up' = a \o b
  BY <1>2
<1> HIDE DEF a, b
<1>10. up' \in Seq(Byte) /\ Len(up') = Len(a) + Len(b)
  <2>1. a \o b \in Seq(Byte) /\ Len(a \o b) = Len(a) + Len(b)
    BY <1>5, <1>7, ConcatProperties, Zenon
  <2> QED BY <1>9, <2>1
<1>11. held' \in 0 .. Len(up') /\ Len(up') <= UpCap
  <2>1. Len(up) <= UpCap /\ UpCap \in Nat /\ held' = h
    BY <1>2, LinkAssumption DEF TypeInv, TypeOK
  <2>2. h \in Nat /\ m \in Nat /\ h + m <= Len(up)
    BY <1>0
  <2>3. Len(up') = h + (Len(up) - (h + m))
    BY <1>5, <1>7, <1>10
  <2> QED BY <1>0, <2>1, <2>2, <2>3
<1>12. cutOff' \in BOOLEAN /\ astray' \in BOOLEAN
  BY <1>2 DEF TypeInv, TypeOK
<1>13. asked' \in Seq(Item)
  BY <1>2, EmptySeq DEF TypeInv, TypeOK
<1>14. unplugs' \in 0 .. Unplugs /\ port' = "closed" /\ UNCHANGED <<computer, server>>
  BY LinkAssumption DEF Unplug, TypeInv, TypeOK
<1>15. ~astray' => ~astray /\ up' = up /\ asked' = asked
  <2>1. SUFFICES ASSUME ~astray' PROVE ~astray /\ up' = up /\ asked' = asked
    OBVIOUS
  <2>2. ~astray /\ ~(m > 0) /\ asked' = asked
    BY <1>2, <2>1
  <2>3. m = 0
    BY <1>0, <2>2
  <2> QED BY <1>8, <1>9, <2>2, <2>3
<1> QED BY <1>3, <1>4, <1>10, <1>11, <1>12, <1>13, <1>14, <1>15 DEF TypeInv, TypeOK, HeldOK, computer, server

\* The port, the keyboard, and the byte that the host writes.
LEMMA LineTypes == TypeInv /\ (Open \/ OpenFails \/ HostReply \/ Type) => TypeInv'
<1> SUFFICES ASSUME TypeInv PROVE (Open \/ OpenFails \/ HostReply \/ Type) => TypeInv'
  OBVIOUS
<1>0. /\ down \in Seq(Byte) /\ Len(down) \in Nat /\ Ahead \in Nat
      /\ Len(down) <= DownCap \/ Len(down) <= Ahead
  BY LenProperties, LinkAssumption DEF TypeInv, TypeOK
<1>1. ASSUME Open \/ OpenFails PROVE TypeInv'
  BY <1>1 DEF Open, OpenFails, TypeInv, TypeOK, HeldOK, computer, server, cable
<1>2. ASSUME HostReply PROVE TypeInv'
  <2>1. CASE port = "closed" /\ host' = "exited" /\ UNCHANGED <<down, reply>>
    BY <1>2, <2>1 DEF HostReply, TypeInv, TypeOK, HeldOK, computer, cable
  <2>2. CASE Len(down) < DownCap /\ down' = Append(down, Head(reply)) /\ reply' = Tail(reply) /\ UNCHANGED host
    <3>1. reply \in Seq(Byte) /\ reply # <<>>
      BY <1>2 DEF HostReply, TypeInv, TypeOK
    <3>2. Head(reply) \in Byte /\ Tail(reply) \in Seq(Byte)
      BY <3>1, HeadTailProperties
    <3>3. Append(down, Head(reply)) \in Seq(Byte) /\ Len(Append(down, Head(reply))) = Len(down) + 1
      BY <1>0, <3>2, AppendProperties
    <3>4. Len(down') <= DownCap
      BY <1>0, <2>2, <3>3, Sizes
    <3> QED BY <1>2, <2>2, <3>2, <3>3, <3>4 DEF HostReply, TypeInv, TypeOK, HeldOK, computer, cable
  <2> QED BY <1>2, <2>1, <2>2 DEF HostReply
<1>3. ASSUME Type PROVE TypeInv'
  <2>1. CASE host' = "exited" /\ UNCHANGED down
    BY <1>3, <2>1 DEF Type, TypeInv, TypeOK, HeldOK, computer, cable
  <2>2. CASE UNCHANGED host /\ \E k \in Keys : down' = Append(down, k)
    <3>1. PICK k \in Keys : down' = Append(down, k)
      BY <2>2
    <3>2. k \in Byte
      BY LinkAssumption
    <3>3. Append(down, k) \in Seq(Byte) /\ Len(Append(down, k)) = Len(down) + 1
      BY <1>0, <3>2, AppendProperties
    <3>4. Len(down') <= DownCap \/ Len(down') <= Ahead
      <4>1. CASE Len(down) < Ahead
        BY <1>0, <3>1, <3>3, <4>1
      <4>2. CASE Patient
        <5>1. Len(down) = 0 /\ DownCap >= 1
          BY <4>2, EmptySeq, LinkAssumption DEF Patient
        <5> QED BY <3>1, <3>3, <5>1, Sizes
      <4> QED BY <1>3, <4>1, <4>2 DEF Type
    <3> QED BY <1>3, <2>2, <3>1, <3>3, <3>4 DEF Type, TypeInv, TypeOK, HeldOK, computer, cable
  <2> QED BY <1>3, <2>1, <2>2 DEF Type
<1> QED BY <1>1, <1>2, <1>3

\* Every step.
LEMMA StepTypes == TypeInv /\ [Next]_vars => TypeInv'
<1>1. TypeInv /\ UNCHANGED vars => TypeInv'
  BY DEF vars, computer, server, cable, TypeInv, TypeOK, HeldOK
<1> QED BY <1>1, ComputerTypes, ResetTypes, HostByteTypes, LineTypes, UnplugTypes DEF Next

\* Every variable holds a value of its kind, and no buffer more than it can, however the
\* cable, a reset and a user who types ahead disturb the line: a length the tokenizer
\* reads is one of two bytes, a block lies inside the file, and a read ends with BLOCK_SIZE.
THEOREM TypeCorrectness == Spec => []TypeOK
<1>1. Spec => []TypeInv
  BY InitTypes, StepTypes, PTL DEF Spec
<1>2. TypeInv => TypeOK
  BY DEF TypeInv
<1> QED BY <1>1, <1>2, PTL

-----------------------------------------------------------------------------
(* What is printed and asked, as one stream of bytes.                       *)

\* The items of asked: console bytes and requests for blocks; and the bytes of each on
\* the line.
Prints == {[kind |-> "text", bytes |-> <<b>>] : b \in Byte}
Requests ==
    {Command(<<R, s>>) : s \in Sectors} \cup {Command(<<W, s>> \o d) : s \in Sectors, d \in Data}
Said == Prints \cup Requests

Bytes(item) == IF item.kind = "text" THEN item.bytes ELSE Packet(item.bytes)
Encoded(a) == [k \in DOMAIN a |-> Bytes(a[k])]
Stream(a) == FlattenSeq(Encoded(a))

\* The two kinds of requests.
LEMMA RequestTypes ==
    ASSUME NEW i \in Requests
    PROVE  /\ i.kind = "command" /\ i.bytes \in Seq(Byte) /\ Len(i.bytes) \in 1 .. BlockLen + 2
           /\ i = Command(i.bytes)
<1>1. ASSUME NEW s \in Sectors
      PROVE  <<R, s>> \in Seq(Byte) /\ Len(<<R, s>>) \in 1 .. BlockLen + 2
  <2>1. <<R, s>> \in Seq(Byte) /\ Len(<<R, s>>) = 2
    BY Sizes, LinkAssumption
  <2> QED BY <2>1, Sizes
<1>2. ASSUME NEW s \in Sectors, NEW d \in Data
      PROVE  <<W, s>> \o d \in Seq(Byte) /\ Len(<<W, s>> \o d) \in 1 .. BlockLen + 2
  <2>1. d \in Seq(Byte) /\ Len(d) = BlockLen /\ <<W, s>> \in Seq(Byte) /\ Len(<<W, s>>) = 2
    BY Sizes, LinkAssumption
  <2>2. <<W, s>> \o d \in Seq(Byte) /\ Len(<<W, s>> \o d) = 2 + BlockLen
    BY <2>1
  <2> QED BY <2>2, Sizes
<1>3. \A b \in Seq(Byte) : Command(b).kind = "command" /\ Command(b).bytes = b
  BY DEF Command
<1>4. CASE i \in {Command(<<R, s>>) : s \in Sectors}
  <2>1. PICK s \in Sectors : i = Command(<<R, s>>)
    BY <1>4
  <2> QED BY <1>1, <1>3, <2>1
<1>5. CASE i \in {Command(<<W, s>> \o d) : s \in Sectors, d \in Data}
  <2>1. \E s \in Sectors : \E d \in Data : i = Command(<<W, s>> \o d)
    BY <1>5
  <2>2. PICK s \in Sectors : \E d \in Data : i = Command(<<W, s>> \o d)
    BY <2>1
  <2>3. PICK d \in Data : i = Command(<<W, s>> \o d)
    BY <2>2
  <2> DEFINE b == <<W, s>> \o d
  <2>4. b \in Seq(Byte) /\ Len(b) \in 1 .. BlockLen + 2 /\ i = Command(b)
    BY <1>2, <2>3
  <2> HIDE DEF b
  <2> QED BY <1>3, <2>4
<1> QED BY <1>4, <1>5 DEF Requests

\* The bytes of an item are bytes, those of a text are one, those of a request its packet.
LEMMA BytesTypes ==
    ASSUME NEW i \in Said
    PROVE  /\ i \in Item /\ Bytes(i) \in Seq(Byte)
           /\ i \in Prints => Bytes(i) = i.bytes /\ i.bytes[1] \in Byte /\ i.bytes = <<i.bytes[1]>>
                              /\ i = [kind |-> "text", bytes |-> <<i.bytes[1]>>]
           /\ i \in Requests => Bytes(i) = Packet(i.bytes)
           /\ i \in Requests \/ i \in Prints
<1>1. CASE i \in Prints
  <2>1. PICK b \in Byte : i = [kind |-> "text", bytes |-> <<b>>]
    BY <1>1 DEF Prints
  <2>2. i \notin Requests
    BY <2>1, RequestTypes
  <2> QED BY <1>1, <2>1, <2>2 DEF Bytes, Item
<1>2. CASE i \in Requests
  <2>1. i \notin Prints
    BY <1>2, RequestTypes DEF Prints
  <2>2. Packet(i.bytes) \in Seq(Byte) /\ Command(i.bytes) \in Item
    BY <1>2, RequestTypes, PacketType
  <2> QED BY <1>2, <2>1, <2>2, RequestTypes DEF Bytes
<1> QED BY <1>1, <1>2 DEF Said

\* The stream of a sequence of items is a stream of bytes.
LEMMA EncodedType ==
    ASSUME NEW a \in Seq(Said)
    PROVE  /\ Encoded(a) \in Seq(Seq(Byte)) /\ Len(Encoded(a)) = Len(a) /\ Stream(a) \in Seq(Byte)
           /\ \A k \in 1 .. Len(a) : Encoded(a)[k] = Bytes(a[k])
<1>1. Len(a) \in Nat /\ DOMAIN a = 1 .. Len(a) /\ \A k \in 1 .. Len(a) : a[k] \in Said
  BY LenProperties
<1>2. Encoded(a) = [k \in 1 .. Len(a) |-> Bytes(a[k])] /\ \A k \in 1 .. Len(a) : Bytes(a[k]) \in Seq(Byte)
  BY <1>1, BytesTypes DEF Encoded
<1>3. Encoded(a) \in Seq(Seq(Byte)) /\ Len(Encoded(a)) = Len(a)
  BY <1>1, <1>2
<1> QED BY <1>2, <1>3, FlattenType DEF Stream

\* What is asked after something else comes after it in the stream.
LEMMA StreamConcat ==
    ASSUME NEW a \in Seq(Said), NEW b \in Seq(Said)
    PROVE  Stream(a \o b) = Stream(a) \o Stream(b)
<1>1. /\ a \o b \in Seq(Said) /\ Len(a \o b) = Len(a) + Len(b)
      /\ \A i \in 1 .. Len(a) + Len(b) : (a \o b)[i] = IF i <= Len(a) THEN a[i] ELSE b[i - Len(a)]
  BY ConcatProperties, Zenon
<1> DEFINE c == a \o b
           e == Encoded(a)
           f == Encoded(b)
           g == Encoded(c)
<1>2. /\ e \in Seq(Seq(Byte)) /\ Len(e) = Len(a) /\ f \in Seq(Seq(Byte)) /\ Len(f) = Len(b)
      /\ \A k \in 1 .. Len(a) : e[k] = Bytes(a[k])
      /\ \A k \in 1 .. Len(b) : f[k] = Bytes(b[k])
  BY EncodedType
<1> HIDE DEF c
<1>3. /\ g \in Seq(Seq(Byte)) /\ Len(g) = Len(a) + Len(b) /\ \A k \in 1 .. Len(c) : g[k] = Bytes(c[k])
      /\ Len(c) = Len(a) + Len(b)
  BY <1>1, EncodedType DEF c
<1> HIDE DEF e, f, g
<1>4. /\ e \o f \in Seq(Seq(Byte)) /\ Len(e \o f) = Len(e) + Len(f)
      /\ \A i \in 1 .. Len(e) + Len(f) : (e \o f)[i] = IF i <= Len(e) THEN e[i] ELSE f[i - Len(e)]
  <2>1. e \in Seq(Seq(Byte)) /\ f \in Seq(Seq(Byte))
    BY <1>2
  <2> QED BY <2>1, ConcatProperties, Zenon
<1>5. Len(a) \in Nat /\ Len(b) \in Nat
  BY LenProperties
<1>6. ASSUME NEW i \in 1 .. Len(a) + Len(b)
      PROVE  g[i] = (e \o f)[i]
  <2>1. c[i] = IF i <= Len(a) THEN a[i] ELSE b[i - Len(a)]
    BY <1>1 DEF c
  <2>2. i <= Len(a) \/ i - Len(a) \in 1 .. Len(b)
    BY <1>5
  <2>3. i <= Len(a) => i \in 1 .. Len(a)
    BY <1>5
  <2>4. g[i] = Bytes(c[i])
    BY <1>3
  <2>5. (e \o f)[i] = IF i <= Len(a) THEN e[i] ELSE f[i - Len(a)]
    BY <1>2, <1>4
  <2> QED BY <1>2, <2>1, <2>2, <2>3, <2>4, <2>5
<1> DEFINE h == e \o f
<1>7. h \in Seq(Seq(Byte)) /\ Len(h) = Len(g) /\ \A i \in 1 .. Len(g) : g[i] = h[i]
  BY <1>2, <1>3, <1>4, <1>6
<1> HIDE DEF h
<1>8. g = h
  BY <1>3, <1>7, SeqEqual
<1>9. FlattenSeq(h) = FlattenSeq(e) \o FlattenSeq(f)
  BY <1>2, FlattenConcat DEF h
<1> QED BY <1>8, <1>9 DEF Stream, c, e, f, g

\* The stream of one item is its bytes.
LEMMA StreamOne ==
    ASSUME NEW i \in Said
    PROVE  <<i>> \in Seq(Said) /\ Stream(<<i>>) = Bytes(i)
<1>1. <<i>> \in Seq(Said) /\ Len(<<i>>) = 1
  OBVIOUS
<1>2. Encoded(<<i>>) \in Seq(Seq(Byte)) /\ Len(Encoded(<<i>>)) = 1 /\ Encoded(<<i>>)[1] = Bytes(i)
  <2> DEFINE s == <<i>>
  <2>1. s \in Seq(Said) /\ Len(s) = 1 /\ s[1] = i
    BY <1>1
  <2> HIDE DEF s
  <2>2. Encoded(s) \in Seq(Seq(Byte)) /\ Len(Encoded(s)) = 1 /\ Encoded(s)[1] = Bytes(i)
    BY <2>1, EncodedType
  <2> QED BY <2>2 DEF s
<1>3. Bytes(i) \in Seq(Byte)
  BY BytesTypes
<1>4. Encoded(<<i>>) = <<Bytes(i)>>
  BY <1>2, <1>3
<1> QED BY <1>1, <1>3, <1>4, FlattenOne DEF Stream

\* The stream of a text is the text.
LEMMA StreamTexts ==
    ASSUME NEW t \in Seq(Byte)
    PROVE  Texts(t) \in Seq(Prints) /\ Texts(t) \in Seq(Said) /\ Stream(Texts(t)) = t
<1>1. Len(t) \in Nat /\ DOMAIN t = 1 .. Len(t) /\ \A k \in 1 .. Len(t) : t[k] \in Byte
  BY LenProperties
<1>2. Texts(t) = [k \in 1 .. Len(t) |-> [kind |-> "text", bytes |-> <<t[k]>>]]
  BY <1>1 DEF Texts
<1>3. \A k \in 1 .. Len(t) : [kind |-> "text", bytes |-> <<t[k]>>] \in Prints
  BY <1>1 DEF Prints
<1>4. Texts(t) \in Seq(Prints) /\ Texts(t) \in Seq(Said)
  <2>1. \A k \in 1 .. Len(t) : [kind |-> "text", bytes |-> <<t[k]>>] \in Said
    BY <1>3 DEF Said
  <2> QED BY <1>1, <1>2, <1>3, <2>1
<1>5. Encoded(Texts(t)) = Units(t)
  BY <1>1, <1>2 DEF Encoded, Units, Bytes
<1> QED BY <1>4, <1>5, FlattenUnits DEF Stream

\* The stream of a sequence whose first item is a request.
LEMMA StreamRequest ==
    ASSUME NEW a \in Seq(Said), a # <<>>, a[1] \in Requests
    PROVE  Stream(a) = Packet(a[1].bytes) \o Stream(Tail(a))
<1>1. Tail(a) \in Seq(Said) /\ a[1] \in Said /\ Len(a) \in Nat /\ Len(a) > 0
  BY HeadTailProperties, EmptySeq, LenProperties DEF Said
<1>2. a = <<a[1]>> \o Tail(a)
  <2>1. 1 \in 0 .. Len(a)
    BY <1>1
  <2>2. a = SubSeq(a, 1, 1) \o SubSeq(a, 2, Len(a))
    BY <2>1, PrefixAndRest
  <2>3. SubSeq(a, 1, 1) = <<a[1]>>
    <3>1. SubSeq(a, 1, 1) \in Seq(Said) /\ Len(SubSeq(a, 1, 1)) = 1 /\ SubSeq(a, 1, 1)[1] = a[1]
      BY <2>1, PrefixAndRest
    <3> DEFINE p == SubSeq(a, 1, 1)
    <3> HIDE DEF p
    <3>2. p \in Seq(Said) /\ Len(p) = 1 /\ p[1] = a[1]
      BY <3>1 DEF p
    <3>3. p = <<a[1]>>
      BY <3>2
    <3> QED BY <3>3 DEF p
  <2>4. Tail(a) = SubSeq(a, 2, Len(a))
    BY TailIsSubSeq
  <2> QED BY <2>2, <2>3, <2>4
<1>3. Stream(<<a[1]>> \o Tail(a)) = Stream(<<a[1]>>) \o Stream(Tail(a))
  BY <1>1, StreamOne, StreamConcat
<1>4. Stream(<<a[1]>>) = Bytes(a[1]) /\ Bytes(a[1]) = Packet(a[1].bytes)
  BY <1>1, StreamOne, BytesTypes
<1> QED BY <1>2, <1>3, <1>4

\* The stream of a sequence whose first n items are texts begins with their bytes.
LEMMA StreamPrefix ==
    ASSUME NEW a \in Seq(Said), NEW n \in 0 .. Len(a), \A i \in 1 .. n : a[i] \in Prints
    PROVE  /\ n <= Len(Stream(a))
           /\ \A i \in 1 .. n : a[i] = [kind |-> "text", bytes |-> <<Stream(a)[i]>>]
           /\ SubSeq(a, 1, n) = Texts(SubSeq(Stream(a), 1, n))
           /\ SubSeq(Stream(a), n + 1, Len(Stream(a))) = Stream(SubSeq(a, n + 1, Len(a)))
<1> DEFINE p == SubSeq(a, 1, n)
           r == SubSeq(a, n + 1, Len(a))
           t == [i \in 1 .. n |-> a[i].bytes[1]]
<1>1. /\ n \in Nat /\ p \in Seq(Said) /\ Len(p) = n /\ r \in Seq(Said) /\ a = p \o r
      /\ \A i \in 1 .. n : p[i] = a[i]
  <2>1. n \in Nat
    BY LenProperties
  <2> QED BY <2>1, PrefixAndRest, ZenonT(30)
<1>2. \A i \in 1 .. n : a[i].bytes[1] \in Byte /\ a[i] = [kind |-> "text", bytes |-> <<a[i].bytes[1]>>]
  BY BytesTypes DEF Said
<1>3. t \in Seq(Byte) /\ Len(t) = n /\ \A i \in 1 .. n : t[i] = a[i].bytes[1]
  <2>1. n \in Nat
    BY <1>1
  <2>2. \A i \in 1 .. n : a[i].bytes[1] \in Byte
    BY <1>2
  <2> QED BY <2>1, <2>2
<1> HIDE DEF p, r, t
<1>4. p = Texts(t)
  <2>1. Texts(t) \in Seq(Said) /\ Len(Texts(t)) = n
        /\ \A i \in 1 .. n : Texts(t)[i] = [kind |-> "text", bytes |-> <<t[i]>>]
    BY <1>3, StreamTexts, TextsType
  <2>2. \A i \in 1 .. n : p[i] = Texts(t)[i]
    BY <1>1, <1>2, <1>3, <2>1, ZenonT(30)
  <2> QED BY <1>1, <2>1, <2>2, SeqEqual
<1>5. Stream(a) = t \o Stream(r) /\ Stream(r) \in Seq(Byte) /\ Stream(a) \in Seq(Byte)
  <2>1. Stream(p \o r) = Stream(p) \o Stream(r)
    BY <1>1, StreamConcat
  <2>2. Stream(p) = t
    BY <1>3, <1>4, StreamTexts
  <2> QED BY <1>1, <2>1, <2>2, EncodedType
<1> DEFINE s == Stream(r)
           u == Stream(a)
<1> HIDE DEF s, u
<1>6. u = t \o s /\ s \in Seq(Byte) /\ u \in Seq(Byte)
  BY <1>5 DEF s, u
<1>7. /\ Len(t \o s) = Len(t) + Len(s) /\ Len(s) \in Nat
      /\ \A i \in 1 .. Len(t) + Len(s) : (t \o s)[i] = IF i <= Len(t) THEN t[i] ELSE s[i - Len(t)]
  <2>1. /\ Len(t \o s) = Len(t) + Len(s)
        /\ \A i \in 1 .. Len(t) + Len(s) : (t \o s)[i] = IF i <= Len(t) THEN t[i] ELSE s[i - Len(t)]
    BY <1>3, <1>6, ConcatProperties, Zenon
  <2> QED BY <1>6, <2>1, LenProperties
<1>8. n <= Len(u) /\ n \in 0 .. Len(u)
  BY <1>1, <1>3, <1>6, <1>7
<1>9. \A i \in 1 .. n : u[i] = t[i]
  BY <1>1, <1>3, <1>6, <1>7
<1>10. SubSeq(u, 1, n) = t /\ SubSeq(u, n + 1, Len(u)) = s
  <2>1. /\ SubSeq(u, 1, n) \in Seq(Byte) /\ Len(SubSeq(u, 1, n)) = n
        /\ SubSeq(u, n + 1, Len(u)) \in Seq(Byte) /\ u = SubSeq(u, 1, n) \o SubSeq(u, n + 1, Len(u))
    BY <1>6, <1>8, PrefixAndRest, ZenonT(30)
  <2> QED BY <1>3, <1>6, <2>1, ConcatSplit
<1> QED BY <1>2, <1>3, <1>4, <1>8, <1>9, <1>10, ZenonT(30) DEF p, r, s, u

\* The stream of a sequence whose first item is a request, part by part.
LEMMA StreamOfRequest ==
    ASSUME NEW a \in Seq(Said), a # <<>>, a[1] \in Requests
    PROVE  \E c \in Seq(Byte) :
             /\ Len(c) \in 1 .. BlockLen + 2 /\ a[1] = Command(c)
             /\ Tail(a) \in Seq(Said) /\ Stream(Tail(a)) \in Seq(Byte)
             /\ <<Len(c) % Radix, Len(c) \div Radix>> \in Seq(Byte)
             /\ Stream(a) = Magic \o (<<Len(c) % Radix, Len(c) \div Radix>> \o (c \o Stream(Tail(a))))
<1>1. PICK c \in Seq(Byte) : Len(c) \in 1 .. BlockLen + 2 /\ a[1] = Command(c) /\ a[1].bytes = c
  BY RequestTypes
<1>2. Tail(a) \in Seq(Said) /\ Stream(Tail(a)) \in Seq(Byte)
  <2>1. Tail(a) \in Seq(Said)
    BY HeadTailProperties
  <2> QED BY <2>1, EncodedType
<1> DEFINE h == <<Len(c) % Radix, Len(c) \div Radix>>
           r == Stream(Tail(a))
<1>3. h \in Seq(Byte)
  <2>1. Len(c) \in Nat /\ Len(c) < Radix * Radix
    BY <1>1, Sizes
  <2> QED BY <2>1, Digits
<1>4. Stream(a) = (Magic \o (h \o c)) \o r
  BY <1>1, StreamRequest, PacketType
<1>5. (Magic \o (h \o c)) \o r = Magic \o (h \o (c \o r))
  <2> HIDE DEF h, r
  <2>1. Magic \in Seq(Byte) /\ r \in Seq(Byte)
    BY <1>2, Sizes DEF r
  <2>2. Cat(Cat(Magic, Cat(h, c)), r) = Cat(Magic, Cat(h, Cat(c, r)))
    BY <1>3, <2>1, CatAssociative
  <2> QED BY <2>2 DEF Cat
<1> QED BY <1>1, <1>2, <1>3, <1>4, <1>5

-----------------------------------------------------------------------------
(* The tokenizer on that stream.                                            *)

\* What the tokenizer has taken from the stream and not turned into anything yet.
Pre(t) ==
    CASE t.state = "magic" -> Potential(t)
      [] t.state = "size" -> Magic
      [] t.state = "size2" -> Magic \o <<t.length>>
      [] t.state = "data" -> Magic \o (<<t.length % Radix, t.length \div Radix>> \o t.body)

\* What a state of the tokenizer says of its length and its body.
Shape(t) ==
    /\ t.state = "size2" => t.length \in Byte
    /\ t.state \in {"size", "size2"} => t.body = <<>>
    /\ t.state = "data" => Len(t.body) < t.length

\* A tokenizer in the middle of a packet is in the middle of a request.
Begun(t, a) == t.state # "magic" => a # <<>> /\ a[1] \in Requests

\* No text that a request follows directly ends with a byte of the magic value.
Quiet(item) == item \in Requests \/ \A k \in 1 .. Len(Magic) : item.bytes[1] # Magic[k]
Parted(a) == \A i \in 2 .. Len(a) : a[i] \in Requests => Quiet(a[i - 1])

\* What the tokenizer makes of a byte, as items.
TurnsOut(t, b) ==
    LET k == Token(t, b) IN IF k = <<>> THEN Texts(Text(t, b)) ELSE <<Command(k)>>

\* What turns out, d, is what was said first, and the tokenizer follows what is left.
Follows(a, d, t, rest) ==
    LET left == SubSeq(a, Len(d) + 1, Len(a))
    IN  /\ Len(d) \in 0 .. Len(a) /\ SubSeq(a, 1, Len(d)) = d
        /\ Pre(t) \o rest = Stream(left) /\ Shape(t) /\ Begun(t, left)

\* A byte that completes nothing leaves everything on the line.
LEMMA Silence ==
    ASSUME NEW a \in Seq(Said), NEW t, NEW rest, Pre(t) \o rest = Stream(a), Shape(t), Begun(t, a)
    PROVE  Follows(a, <<>>, t, rest) /\ Texts(<<>>) = <<>>
<1>1. Len(a) \in Nat /\ 0 \in 0 .. Len(a) /\ Len(<<>>) = 0 /\ 0 + 1 = 1
  BY LenProperties
<1>2. SubSeq(a, 1, Len(a)) = a /\ SubSeq(a, 1, 0) = <<>>
  BY SubSeqFull, SubSeqEmpty
<1>3. Texts(<<>>) = <<>>
  <2>1. <<>> \in Seq(Byte) /\ Len(<<>>) = 0
    BY EmptySeq
  <2>2. Texts(<<>>) \in Seq(Item) /\ Len(Texts(<<>>)) = 0
    BY <2>1, TextsType
  <2> QED BY <2>2, EmptySeq
<1> QED BY <1>1, <1>2, <1>3 DEF Follows

\* Of a stream that begins like the magic value, and not with a request, the first n
\* bytes were printed.
LEMMA TextsFirst ==
    ASSUME NEW a \in Seq(Said), Parted(a), a # <<>> => a[1] \notin Requests,
           NEW n \in 1 .. Len(Magic), n <= Len(Stream(a)),
           \A i \in 1 .. n - 1 : Stream(a)[i] = Magic[i]
    PROVE  n \in 0 .. Len(a) /\ \A i \in 1 .. n : a[i] \in Prints
<1>0. n \in Nat /\ Len(a) \in Nat /\ n > 0
  BY Sizes, LenProperties
<1> DEFINE T == {k \in Nat : k \in 1 .. n => k <= Len(a) /\ \A i \in 1 .. k : a[i] \in Prints}
<1>1. 0 \in T
  OBVIOUS
<1>2. ASSUME NEW k \in Nat, k \in T
      PROVE  k + 1 \in T
  <2> SUFFICES ASSUME k + 1 \in 1 .. n
               PROVE  k + 1 <= Len(a) /\ \A i \in 1 .. k + 1 : a[i] \in Prints
    OBVIOUS
  <2>1. k <= Len(a) /\ \A i \in 1 .. k : a[i] \in Prints
    BY <1>0, <1>2
  <2>2. k \in 0 .. Len(a)
    BY <2>1
  <2> DEFINE r == SubSeq(a, k + 1, Len(a))
             s == Stream(a)
  <2>3. /\ k <= Len(s) /\ \A i \in 1 .. k : a[i] = [kind |-> "text", bytes |-> <<s[i]>>]
        /\ SubSeq(s, k + 1, Len(s)) = Stream(r)
    BY <2>1, <2>2, StreamPrefix
  <2>4. s \in Seq(Byte) /\ Len(s) \in Nat
    BY EncodedType, LenProperties
  <2>5. k + 1 <= Len(a)
    <3> SUFFICES ASSUME k = Len(a) PROVE FALSE
      BY <1>0, <2>1
    <3>1. r = <<>>
      BY <1>0, SubSeqEmpty
    <3>2. Stream(<<>>) = <<>>
      <4>1. <<>> \in Seq(Byte)
        BY EmptySeq
      <4>2. Texts(<<>>) = <<>>
        <5>1. Texts(<<>>) \in Seq(Item) /\ Len(Texts(<<>>)) = 0
          BY <4>1, TextsType, EmptySeq
        <5> QED BY <5>1, EmptySeq
      <4> QED BY <4>1, <4>2, StreamTexts
    <3>3. Len(SubSeq(s, k + 1, Len(s))) = Len(s) - k
      <4>1. k \in 0 .. Len(s)
        BY <2>3, <2>4
      <4> HIDE DEF s
      <4> QED BY <2>4, <4>1, PrefixAndRest
    <3>4. Len(<<>>) = 0
      OBVIOUS
    <3>5. Len(s) = k
      <4>1. SubSeq(s, k + 1, Len(s)) = <<>>
        BY <2>3, <3>1, <3>2
      <4> HIDE DEF s, r
      <4>2. Len(s) - k = 0
        BY <3>3, <3>4, <4>1
      <4> QED BY <2>4, <4>2
    <3>6. k + 1 <= n /\ n <= Len(s)
      BY <1>0
    <3> HIDE DEF s, r
    <3> QED BY <1>0, <3>5, <3>6
  <2>6. a[k + 1] \in Said
    BY <1>0, <2>5, LenProperties
  <2>7. a[k + 1] \notin Requests
    <3>1. CASE k = 0
      <4>1. a # <<>>
        BY <2>5, <3>1, EmptySeq
      <4> QED BY <3>1, <4>1
    <3>2. CASE k # 0
      <4> SUFFICES ASSUME a[k + 1] \in Requests PROVE FALSE
        OBVIOUS
      <4>1. k + 1 \in 2 .. Len(a) /\ (k + 1) - 1 = k /\ k \in 1 .. k /\ k \in 1 .. n - 1 /\ k \in 1 .. Len(Magic)
        BY <1>0, <2>5, <3>2, Sizes
      <4>2. Quiet(a[k])
        BY <4>1 DEF Parted
      <4>3. a[k] \in Prints /\ a[k] = [kind |-> "text", bytes |-> <<s[k]>>]
        BY <2>1, <2>3, <4>1
      <4>4. a[k] \notin Requests
        BY <4>3, RequestTypes
      <4>5. a[k].bytes[1] = Magic[k]
        BY <4>1, <4>3
      <4> QED BY <4>1, <4>2, <4>4, <4>5 DEF Quiet
    <3> QED BY <3>1, <3>2
  <2>8. a[k + 1] \in Prints
    BY <2>6, <2>7 DEF Said
  <2>9. \A i \in 1 .. k + 1 : i \in 1 .. k \/ i = k + 1
    OBVIOUS
  <2> QED BY <2>1, <2>5, <2>8, <2>9
<1> HIDE DEF T
<1>3. n \in T
  BY <1>0, <1>1, <1>2, SetInduction
<1> QED BY <1>0, <1>3 DEF T

\* What the tokenizer has taken are bytes.
LEMMA PreType ==
    ASSUME NEW t \in TokenizerType, Shape(t)
    PROVE  /\ Pre(t) \in Seq(Byte)
           /\ t.state = "data" => <<t.length % Radix, t.length \div Radix>> \in Seq(Byte)
<1>1. /\ t.state \in {"magic", "size", "size2", "data"} /\ t.body \in Seq(Byte)
      /\ t.length \in 0 .. (Radix * Radix) - 1
  BY DEF TokenizerType
<1>2. t.length \in Nat /\ t.length < Radix * Radix
  <2> DEFINE sq == Radix * Radix
  <2>1. sq \in Nat /\ t.length \in 0 .. sq - 1
    BY <1>1, Sizes
  <2> HIDE DEF sq
  <2>2. t.length \in Nat /\ t.length < sq
    BY <2>1
  <2> QED BY <2>2 DEF sq
<1>3. CASE t.state = "magic"
  BY <1>3, TokenizerTypes, Sizes DEF Pre, Shape, Byte
<1>4. CASE t.state = "size"
  BY <1>4, Sizes DEF Pre
<1>5. CASE t.state = "size2"
  <2>1. <<t.length>> \in Seq(Byte)
    BY <1>5 DEF Shape
  <2>2. Magic \o <<t.length>> \in Seq(Byte)
    BY <2>1, Sizes, ConcatProperties
  <2> QED BY <1>5, <2>2 DEF Pre
<1>6. CASE t.state = "data"
  <2> DEFINE h == <<t.length % Radix, t.length \div Radix>>
  <2>1. h \in Seq(Byte)
    BY <1>2, Digits
  <2>2. Cat(Magic, Cat(h, t.body)) \in Seq(Byte)
    <3> HIDE DEF h
    <3>1. Magic \in Seq(Byte)
      BY Sizes
    <3> QED BY <1>1, <2>1, <3>1, CatAssociative
  <2> QED BY <1>6, <2>1, <2>2 DEF Pre, Cat
<1> QED BY <1>1, <1>3, <1>4, <1>5, <1>6

\* Within the magic value: a byte that does not match shows that all of it was text; the
\* one that completes the magic value belongs to a request.
LEMMA MagicStep ==
    ASSUME NEW t \in TokenizerType, NEW b \in Byte, NEW rest \in Seq(Byte), NEW a \in Seq(Said),
           Shape(t), Parted(a), t.state = "magic", Pre(t) \o (<<b>> \o rest) = Stream(a),
           Len(Magic) \in 0 .. Len(a) => SubSeq(a, 1, Len(Magic)) # Texts(Magic)
    PROVE  Follows(a, TurnsOut(t, b), Advance(t, b), rest)
<1> DEFINE p == Potential(t)
           m == t.matched
           s == Stream(a)
           q == Append(p, b)
<1>1. /\ m \in Nat /\ m < Len(Magic) /\ p \in Seq(Byte) /\ Len(p) = m
      /\ \A k \in 1 .. m : p[k] = Magic[k]
  <2>1. t.matched \in 0 .. Len(Magic) - 1
    BY DEF TokenizerType
  <2>2. m \in Nat /\ m < Len(Magic)
    BY <2>1, MagicSize
  <2>3. t.state = "size2" => t.length \in Byte
    BY DEF Shape
  <2> QED BY <2>2, <2>3, TokenizerTypes
<1>2. Pre(t) = p
  BY DEF Pre
<1>3. s \in Seq(Byte) /\ q \in Seq(Byte) /\ Len(q) = m + 1 /\ q[m + 1] = b /\ \A k \in 1 .. m : q[k] = p[k]
  <2> HIDE DEF p
  <2> QED BY <1>1, EncodedType, AppendProperties
<1>4. s = q \o rest
  <2> HIDE DEF p
  <2>1. p \in Seq(Byte)
    BY <1>1
  <2>2. Cat(p, Cat(<<b>>, rest)) = Cat(Append(p, b), rest)
    BY <2>1, AppendCat
  <2> QED BY <1>2, <2>2 DEF Cat
<1> HIDE DEF p, q, s
<1>5. Len(rest) \in Nat /\ Len(s) = m + 1 + Len(rest) /\ \A k \in 1 .. m + 1 : s[k] = q[k]
  <2>1. Len(rest) \in Nat
    BY LenProperties
  <2>2. /\ Len(q \o rest) = Len(q) + Len(rest)
        /\ \A i \in 1 .. Len(q) + Len(rest) : (q \o rest)[i] = IF i <= Len(q) THEN q[i] ELSE rest[i - Len(q)]
    BY <1>3, ConcatProperties, Zenon
  <2> QED BY <1>1, <1>3, <1>4, <2>1, <2>2
<1>6. ASSUME NEW k \in 1 .. m
      PROVE  s[k] = Magic[k]
  <2>1. k \in 1 .. m + 1
    BY <1>1
  <2>2. s[k] = q[k] /\ q[k] = p[k]
    BY <1>3, <1>5, <2>1
  <2>3. p[k] = Magic[k]
    BY <1>1
  <2> QED BY <2>2, <2>3
<1>7. s[m + 1] = b
  <2>1. m + 1 \in 1 .. m + 1
    BY <1>1
  <2> QED BY <1>3, <1>5, <2>1
<1>8. Token(t, b) = <<>>
  BY DEF Token
\* The stream begins with the magic value when it begins with a request.
<1>9. a # <<>> /\ a[1] \in Requests => \A k \in 1 .. Len(Magic) : s[k] = Magic[k]
  <2> SUFFICES ASSUME a # <<>>, a[1] \in Requests
               PROVE  \A k \in 1 .. Len(Magic) : s[k] = Magic[k]
    OBVIOUS
  <2>1. PICK c \in Seq(Byte) :
             /\ Stream(Tail(a)) \in Seq(Byte)
             /\ <<Len(c) % Radix, Len(c) \div Radix>> \in Seq(Byte)
             /\ Stream(a) = Magic \o (<<Len(c) % Radix, Len(c) \div Radix>> \o (c \o Stream(Tail(a))))
    BY StreamOfRequest
  <2> DEFINE h == <<Len(c) % Radix, Len(c) \div Radix>>
             r == Stream(Tail(a))
             z == h \o (c \o r)
  <2>2. h \in Seq(Byte) /\ r \in Seq(Byte) /\ s = Magic \o z
    BY <2>1 DEF s
  <2>3. z \in Seq(Byte)
    <3> HIDE DEF h, r
    <3>1. Cat(h, Cat(c, r)) \in Seq(Byte)
      BY <2>2, CatAssociative
    <3> QED BY <3>1 DEF Cat
  <2> HIDE DEF z
  <2>4. \A i \in 1 .. Len(Magic) + Len(z) :
           (Magic \o z)[i] = IF i <= Len(Magic) THEN Magic[i] ELSE z[i - Len(Magic)]
    <3>1. Magic \in Seq(Byte)
      BY MagicSize
    <3> QED BY <2>3, <3>1, ConcatProperties, Zenon
  <2>5. Len(z) \in Nat
    BY <2>3, LenProperties
  <2> QED BY <2>2, <2>4, <2>5, MagicSize
<1>10. CASE ~Matches(t, b)
  <2>1. b # Magic[m + 1]
    BY <1>10 DEF Matches
  <2>2. a # <<>> => a[1] \notin Requests
    <3>1. m + 1 \in 1 .. Len(Magic)
      BY <1>1, MagicSize
    <3> QED BY <1>7, <1>9, <2>1, <3>1
  <2> DEFINE n == m + 1
             left == SubSeq(a, n + 1, Len(a))
  <2>3. n \in 1 .. Len(Magic) /\ n <= Len(s) /\ \A i \in 1 .. n - 1 : s[i] = Magic[i]
    <3>1. n \in 1 .. Len(Magic) /\ n - 1 = m
      BY <1>1, MagicSize
    <3>2. n <= Len(s)
      BY <1>1, <1>5
    <3> HIDE DEF n
    <3> QED BY <1>6, <3>1, <3>2
  <2> HIDE DEF n
  <2>4. n \in 0 .. Len(a) /\ \A i \in 1 .. n : a[i] \in Prints
    BY <2>2, <2>3, TextsFirst DEF s
  <2>5. SubSeq(a, 1, n) = Texts(SubSeq(s, 1, n)) /\ SubSeq(s, n + 1, Len(s)) = Stream(left)
    BY <2>4, StreamPrefix DEF s
  <2>6. SubSeq(s, 1, n) = q /\ SubSeq(s, n + 1, Len(s)) = rest
    <3>1. n \in 0 .. Len(s)
      BY <1>5, <2>3, MagicSize
    <3>2. /\ SubSeq(s, 1, n) \in Seq(Byte) /\ Len(SubSeq(s, 1, n)) = n
          /\ SubSeq(s, n + 1, Len(s)) \in Seq(Byte) /\ s = SubSeq(s, 1, n) \o SubSeq(s, n + 1, Len(s))
      BY <1>3, <3>1, PrefixAndRest, ZenonT(30)
    <3>3. Len(q) = n
      BY <1>3 DEF n
    <3> QED BY <1>3, <1>4, <3>2, <3>3, ConcatSplit, SMTT(30)
  <2> DEFINE d == TurnsOut(t, b)
             u == Advance(t, b)
  <2>7. d = Texts(q) /\ Len(d) = n
    <3>1. Text(t, b) = q
      BY <1>10 DEF Text, p, q
    <3>2. Len(Texts(q)) = Len(q)
      BY <1>3, TextsType
    <3> QED BY <1>3, <1>8, <3>1, <3>2 DEF TurnsOut, n
  <2>8. u = [t EXCEPT !.matched = 0]
    BY <1>10 DEF Advance
  <2>9. u.state = "magic" /\ u.matched = 0
    BY <2>8 DEF TokenizerType
  <2> HIDE DEF d, u, left
  <2>10. Pre(u) = <<>>
    <3>1. SubSeq(Magic, 1, 0) = <<>>
      BY SubSeqEmpty
    <3> QED BY <2>9, <3>1 DEF Pre, Potential
  <2>11. Pre(u) \o rest = Stream(left)
    BY <2>5, <2>6, <2>10, ConcatEmptySeq
  <2>12. Shape(u) /\ Begun(u, left)
    BY <2>9 DEF Shape, Begun
  <2> QED BY <2>4, <2>5, <2>6, <2>7, <2>11, <2>12 DEF Follows, left, d, u
<1>11. CASE Matches(t, b)
  <2> DEFINE u == Advance(t, b)
  <2>1. TurnsOut(t, b) = <<>>
    <3>1. Text(t, b) = <<>>
      BY <1>11 DEF Text
    <3>2. Texts(<<>>) = <<>>
      <4>1. <<>> \in Seq(Byte)
        BY EmptySeq
      <4>2. Texts(<<>>) \in Seq(Item) /\ Len(Texts(<<>>)) = 0
        BY <4>1, TextsType, EmptySeq
      <4> QED BY <4>2, EmptySeq
    <3> QED BY <1>8, <3>1, <3>2 DEF TurnsOut
  <2>2. q = SubSeq(Magic, 1, m + 1)
    <3>1. m + 1 \in 0 .. Len(Magic) /\ Magic \in Seq(Byte)
      BY <1>1, MagicSize
    <3> DEFINE v == SubSeq(Magic, 1, m + 1)
    <3>2. v \in Seq(Byte) /\ Len(v) = m + 1 /\ \A i \in 1 .. m + 1 : v[i] = Magic[i]
      BY <3>1, PrefixAndRest
    <3> HIDE DEF v
    <3>3. b = Magic[m + 1]
      BY <1>11 DEF Matches
    <3>4. \A i \in 1 .. m + 1 : q[i] = v[i]
      <4>1. \A i \in 1 .. m + 1 : i \in 1 .. m \/ i = m + 1
        BY <1>1
      <4>2. v[m + 1] = Magic[m + 1]
        <5>1. m + 1 \in 1 .. m + 1
          BY <1>1
        <5> QED BY <3>2, <5>1
      <4> QED BY <1>1, <1>3, <3>2, <3>3, <4>1, <4>2
    <3>5. q = v
      BY <1>3, <3>2, <3>4, SeqEqual
    <3> QED BY <3>5 DEF v
  <2>3. CASE m + 1 < Len(Magic)
    <3>1. u = [t EXCEPT !.matched = @ + 1]
      BY <1>11, <2>3 DEF Advance
    <3>2. u.state = "magic" /\ u.matched = m + 1
      BY <3>1 DEF TokenizerType
    <3> HIDE DEF u
    <3>3. Pre(u) = q
      BY <2>2, <3>2 DEF Pre, Potential
    <3>4. Shape(u) /\ Begun(u, a)
      BY <3>2 DEF Shape, Begun
    <3> QED BY <1>4, <2>1, <3>3, <3>4, Silence DEF u, s
  <2>4. CASE m + 1 = Len(Magic)
    <3>1. u = [state |-> "size", matched |-> 0, length |-> 0, body |-> <<>>]
      BY <1>11, <2>4 DEF Advance
    <3>2. u.state = "size" /\ u.body = <<>>
      BY <3>1
    <3> HIDE DEF u
    <3>3. Pre(u) = q /\ q = Magic
      <4>1. Magic \in Seq(Byte)
        BY MagicSize
      <4>2. SubSeq(Magic, 1, Len(Magic)) = Magic
        BY <4>1, SubSeqFull
      <4> QED BY <2>2, <2>4, <3>2, <4>2 DEF Pre
    <3>4. a # <<>> /\ a[1] \in Requests
      <4> SUFFICES ASSUME a # <<>> => a[1] \notin Requests
                   PROVE  FALSE
        OBVIOUS
      <4> DEFINE n == Len(Magic)
      <4>1. n \in 1 .. Len(Magic) /\ n <= Len(s) /\ \A i \in 1 .. n - 1 : s[i] = Magic[i]
        <5>0. Len(Magic) \in 1 .. Len(Magic)
          BY MagicSize
        <5>1. n \in 1 .. Len(Magic) /\ n - 1 = m
          <6> HIDE DEF m
          <6> QED BY <1>1, <2>4, <5>0
        <5>2. n <= Len(s)
          BY <1>1, <1>5, <2>4
        <5> HIDE DEF n
        <5> QED BY <1>6, <5>1, <5>2
      <4> HIDE DEF n
      <4>2. n \in 0 .. Len(a) /\ \A i \in 1 .. n : a[i] \in Prints
        BY <4>1, TextsFirst DEF s
      <4>3. SubSeq(a, 1, n) = Texts(SubSeq(s, 1, n))
        BY <4>2, StreamPrefix DEF s
      <4>4. SubSeq(s, 1, n) = q
        <5>1. n \in 0 .. Len(s)
          BY <1>1, <1>5, <4>1, MagicSize
        <5>2. /\ SubSeq(s, 1, n) \in Seq(Byte) /\ Len(SubSeq(s, 1, n)) = n
              /\ SubSeq(s, n + 1, Len(s)) \in Seq(Byte) /\ s = SubSeq(s, 1, n) \o SubSeq(s, n + 1, Len(s))
          BY <1>3, <5>1, PrefixAndRest, ZenonT(30)
        <5>3. Len(q) = n
          BY <1>3, <2>4 DEF n
        <5> QED BY <1>3, <1>4, <5>2, <5>3, ConcatSplit
      <4> QED BY <3>3, <4>2, <4>3, <4>4 DEF n
    <3>5. Shape(u) /\ Begun(u, a)
      BY <3>2, <3>4 DEF Shape, Begun
    <3> QED BY <1>4, <2>1, <3>3, <3>5, Silence DEF u, s
  <2> QED BY <1>1, <2>3, <2>4, MagicSize
<1> QED BY <1>10, <1>11

\* Within a packet: the length it announces is that of the request at hand, and its last
\* byte completes it.
LEMMA PacketStep ==
    ASSUME NEW t \in TokenizerType, NEW b \in Byte, NEW rest \in Seq(Byte), NEW a \in Seq(Said),
           Shape(t), t.state # "magic", Begun(t, a), Cat(Pre(t), Cat(<<b>>, rest)) = Stream(a)
    PROVE  Follows(a, TurnsOut(t, b), Advance(t, b), rest)
<1> DEFINE u == Advance(t, b)
           d == TurnsOut(t, b)
           p == Pre(t)
           s == Stream(a)
<1>0. /\ t.state \in {"size", "size2", "data"} /\ t.body \in Seq(Byte) /\ Len(t.body) \in Nat
      /\ t.length \in 0 .. (Radix * Radix) - 1 /\ Magic \in Seq(Byte)
  BY LenProperties, MagicSize DEF TokenizerType
<1>1. a # <<>> /\ a[1] \in Requests
  BY DEF Begun
<1>2. PICK c \in Seq(Byte) :
             /\ Len(c) \in 1 .. BlockLen + 2 /\ a[1] = Command(c)
             /\ Tail(a) \in Seq(Said) /\ Stream(Tail(a)) \in Seq(Byte)
             /\ <<Len(c) % Radix, Len(c) \div Radix>> \in Seq(Byte)
             /\ Stream(a) = Magic \o (<<Len(c) % Radix, Len(c) \div Radix>> \o (c \o Stream(Tail(a))))
  BY <1>1, StreamOfRequest
<1> DEFINE h == <<Len(c) % Radix, Len(c) \div Radix>>
           r == Stream(Tail(a))
<1>3. h \in Seq(Byte) /\ r \in Seq(Byte) /\ s = Cat(Magic, Cat(h, Cat(c, r))) /\ Len(h) = 2
  BY <1>2 DEF Cat
<1>4. Len(c) \in Nat /\ Len(c) < Radix * Radix /\ Len(c) > 0
  BY <1>2, Sizes, SMTT(30)
<1>5. p \in Seq(Byte)
  BY PreType
<1>6. s = Cat(Append(p, b), rest) /\ Append(p, b) \in Seq(Byte)
  <2> HIDE DEF p
  <2>1. Cat(p, Cat(<<b>>, rest)) = Cat(Append(p, b), rest) /\ Append(p, b) \in Seq(Byte)
    BY <1>5, AppendCat, AppendType
  <2> QED BY <2>1 DEF p
<1>7. /\ Cat(h, Cat(c, r)) \in Seq(Byte) /\ Cat(c, r) \in Seq(Byte)
  <2> HIDE DEF h, r
  <2> QED BY <1>3, CatAssociative
\* Nothing turns out before the packet is complete.
<1>8. ASSUME Token(t, b) = <<>>, Pre(u) = Append(p, b), Shape(u), u.state # "magic"
      PROVE  Follows(a, d, u, rest)
  <2>1. Text(t, b) = <<>>
    BY DEF Text
  <2>2. Begun(u, a)
    BY <1>1 DEF Begun
  <2>3. Pre(u) \o rest = s
    BY <1>6, <1>8 DEF Cat
  <2> HIDE DEF u, p, s
  <2>4. Follows(a, <<>>, u, rest) /\ Texts(<<>>) = <<>>
    BY <1>8, <2>2, <2>3, Silence DEF s
  <2>5. d = <<>>
    BY <1>8, <2>1, <2>4 DEF TurnsOut
  <2> QED BY <2>4, <2>5
<1>9. CASE t.state = "size"
  <2>1. u = [t EXCEPT !.state = "size2", !.length = b]
    BY <1>9 DEF Advance
  <2>2. u.state = "size2" /\ u.length = b /\ u.body = t.body /\ t.body = <<>>
    BY <1>9, <2>1 DEF TokenizerType, Shape
  <2>3. Append(Magic, b) = Magic \o <<b>>
    BY <1>0, AppendIsConcat
  <2>4. p = Magic
    BY <1>9 DEF Pre
  <2>5. Token(t, b) = <<>>
    BY <1>9 DEF Token
  <2> HIDE DEF u, p
  <2>6. Pre(u) = Append(p, b) /\ Shape(u) /\ u.state # "magic"
    BY <2>2, <2>3, <2>4 DEF Pre, Shape
  <2> QED BY <1>8, <2>5, <2>6 DEF u, p
<1>10. CASE t.state = "size2"
  <2> DEFINE lo == t.length
             g == <<lo, b>>
             n == (b * Radix) + lo
  <2>1. lo \in Byte /\ t.body = <<>> /\ p = Magic \o <<lo>>
    BY <1>10 DEF Shape, Pre
  <2>2. g \in Seq(Byte) /\ Len(g) = 2 /\ g[1] = lo /\ g[2] = b
    BY <2>1
  <2>3. Append(p, b) = Cat(Magic, g)
    <3>1. lo \in Byte /\ p = Cat(Magic, <<lo>>)
      BY <2>1 DEF Cat
    <3> HIDE DEF lo, p
    <3>2. Append(Cat(Magic, <<lo>>), b) = Cat(Magic, <<lo, b>>)
      BY <3>1, MagicSize, AppendSecond
    <3> QED BY <3>1, <3>2
  <2> HIDE DEF lo, g, n, h, r, s, p
  <2>4. Cat(Magic, Cat(g, rest)) = Cat(Magic, Cat(h, Cat(c, r))) /\ Cat(g, rest) \in Seq(Byte)
    <3>1. Cat(Cat(Magic, g), rest) = Cat(Magic, Cat(g, rest)) /\ Cat(g, rest) \in Seq(Byte)
      BY <1>0, <2>2, CatAssociative
    <3> QED BY <1>3, <1>6, <2>3, <3>1
  <2>5. Cat(g, rest) = Cat(h, Cat(c, r))
    BY <1>0, <1>7, <2>4, CatSplit
  <2>6. g = h
    BY <1>3, <1>7, <2>2, <2>5, CatSplit
  <2>7. lo = Len(c) % Radix /\ b = Len(c) \div Radix
    <3>1. h[1] = Len(c) % Radix /\ h[2] = Len(c) \div Radix
      BY DEF h
    <3> QED BY <2>2, <2>6, <3>1
  <2>8. n = Len(c)
    BY <1>4, <2>7, Digits DEF n
  <2>9. u = [t EXCEPT !.state = "data", !.length = n]
    BY <1>10 DEF Advance, n, lo
  <2>10. u.state = "data" /\ u.length = Len(c) /\ u.body = <<>>
    BY <2>1, <2>8, <2>9 DEF TokenizerType
  <2>11. Token(t, b) = <<>>
    BY <1>10 DEF Token
  <2> HIDE DEF u
  <2>12. Pre(u) = Append(p, b)
    <3>1. h \o <<>> = h
      BY <1>3, ConcatEmptySeq
    <3>2. Pre(u) = Magic \o (h \o <<>>)
      BY <2>10 DEF Pre, h
    <3> QED BY <2>3, <2>6, <3>1, <3>2 DEF Cat
  <2>13. Shape(u) /\ u.state # "magic"
    <3>1. Len(<<>>) = 0
      BY EmptySeq
    <3> QED BY <1>4, <2>10, <3>1 DEF Shape
  <2> QED BY <1>8, <2>11, <2>12, <2>13 DEF u, p
<1>11. CASE t.state = "data"
  <2> DEFINE g == <<t.length % Radix, t.length \div Radix>>
             k == Append(t.body, b)
  <2>1. /\ g \in Seq(Byte) /\ Len(g) = 2 /\ k \in Seq(Byte) /\ Len(k) = Len(t.body) + 1
        /\ Len(t.body) < t.length
    BY <1>0, <1>11, PreType, AppendProperties, SMTT(30) DEF Shape
  <2>2. p = Cat(Magic, Cat(g, t.body))
    BY <1>11 DEF Pre, Cat
  <2>3. Append(p, b) = Cat(Magic, Cat(g, k))
    <3> DEFINE y == t.body
    <3> HIDE DEF g, y
    <3>1. g \in Seq(Byte) /\ y \in Seq(Byte)
      BY <1>0, <2>1 DEF y
    <3>2. Append(Cat(Magic, Cat(g, y)), b) = Cat(Magic, Cat(g, Append(y, b)))
      BY <3>1, MagicSize, AppendThird, SMTT(30)
    <3> QED BY <2>2, <3>2 DEF y
  <2> HIDE DEF g, k, h, r, s, p
  <2>4. CASE Len(t.body) + 1 # t.length
    <3>1. t.length # 0
      BY <1>0, <2>1
    <3>2. u = [t EXCEPT !.body = k]
      BY <1>11, <2>4, <3>1 DEF Advance, k
    <3>3. u.state = "data" /\ u.length = t.length /\ u.body = k
      BY <1>11, <3>2 DEF TokenizerType
    <3> HIDE DEF u
    <3>4. Pre(u) = Append(p, b)
      BY <2>3, <3>3 DEF Pre, Cat, g
    <3>5. Shape(u) /\ u.state # "magic"
      <4>1. t.length \in Nat
        <5> DEFINE sq == Radix * Radix
        <5>1. sq \in Nat /\ t.length \in 0 .. sq - 1
          BY <1>0, Sizes
        <5> HIDE DEF sq
        <5> QED BY <5>1
      <4>2. Len(k) < t.length
        BY <1>0, <2>1, <2>4, <4>1
      <4> QED BY <3>3, <4>2 DEF Shape
    <3>6. Token(t, b) = <<>>
      BY <2>4 DEF Token
    <3> QED BY <1>8, <3>4, <3>5, <3>6 DEF u, p
  <2>5. CASE Len(t.body) + 1 = t.length
    <3>1. Cat(Magic, Cat(g, Cat(k, rest))) = Cat(Magic, Cat(h, Cat(c, r)))
      <4>1. /\ Cat(Cat(Magic, Cat(g, k)), rest) = Cat(Magic, Cat(Cat(g, k), rest))
            /\ Cat(Cat(g, k), rest) = Cat(g, Cat(k, rest))
        <5>1. Cat(g, k) \in Seq(Byte) /\ Cat(Cat(g, k), rest) = Cat(g, Cat(k, rest))
          BY <2>1, CatAssociative
        <5> DEFINE y == Cat(g, k)
        <5> HIDE DEF y
        <5>2. y \in Seq(Byte)
          BY <5>1 DEF y
        <5>3. Cat(Cat(Magic, y), rest) = Cat(Magic, Cat(y, rest))
          BY <1>0, <5>2, CatAssociative
        <5> QED BY <5>1, <5>3 DEF y
      <4> QED BY <1>3, <1>6, <2>3, <4>1
    <3>2. Cat(k, rest) \in Seq(Byte) /\ Cat(g, Cat(k, rest)) \in Seq(Byte)
      BY <2>1, CatAssociative
    <3>3. Cat(g, Cat(k, rest)) = Cat(h, Cat(c, r))
      BY <1>0, <1>7, <3>1, <3>2, CatSplit
    <3>4. g = h /\ Cat(k, rest) = Cat(c, r)
      BY <1>3, <1>7, <2>1, <3>2, <3>3, CatSplit
    <3>5. t.length = Len(c)
      <4>1. g[1] = t.length % Radix /\ g[2] = t.length \div Radix
        BY DEF g
      <4>2. h[1] = Len(c) % Radix /\ h[2] = Len(c) \div Radix
        BY DEF h
      <4>3. t.length \in Nat /\ t.length < Radix * Radix
        <5> DEFINE sq == Radix * Radix
        <5>1. sq \in Nat /\ t.length \in 0 .. sq - 1
          BY <1>0, Sizes
        <5> HIDE DEF sq
        <5>2. t.length \in Nat /\ t.length < sq
          BY <5>1
        <5> QED BY <5>2 DEF sq
      <4>4. ((t.length \div Radix) * Radix) + (t.length % Radix) = t.length
        BY <4>3, Digits
      <4>5. ((Len(c) \div Radix) * Radix) + (Len(c) % Radix) = Len(c)
        BY <1>4, Digits
      <4> QED BY <3>4, <4>1, <4>2, <4>4, <4>5
    <3>6. k = c /\ rest = r
      BY <1>3, <2>1, <2>5, <3>4, <3>5, CatSplit
    <3>7. Token(t, b) = c /\ c # <<>>
      <4>1. Token(t, b) = k
        BY <1>11, <2>5 DEF Token, k
      <4> QED BY <1>4, <3>6, <4>1, EmptySeq
    <3>8. d = <<Command(c)>>
      BY <3>7 DEF TurnsOut
    <3>9. u = NewTokenizer
      BY <1>11, <2>5 DEF Advance
    <3>10. u.state = "magic" /\ u.matched = 0
      BY <3>9 DEF NewTokenizer
    <3> HIDE DEF u, d
    <3>11. Pre(u) = <<>>
      <4>1. SubSeq(Magic, 1, 0) = <<>>
        BY SubSeqEmpty
      <4> QED BY <3>10, <4>1 DEF Pre, Potential
    <3>12. Len(d) = 1
      BY <3>8
    <3>13. /\ 1 \in 0 .. Len(a) /\ SubSeq(a, 1, 1) = <<Command(c)>>
           /\ SubSeq(a, 1 + 1, Len(a)) = Tail(a)
      <4>1. a[1] = Head(a) /\ Tail(a) = SubSeq(a, 2, Len(a)) /\ Len(a) \in Nat /\ Len(a) > 0
        BY <1>1, HeadAndTail, EmptySeq
      <4>2. 1 \in 0 .. Len(a)
        BY <4>1
      <4> DEFINE v == SubSeq(a, 1, 1)
      <4>3. v \in Seq(Said) /\ Len(v) = 1 /\ v[1] = a[1]
        BY <4>2, PrefixAndRest
      <4> HIDE DEF v
      <4>4. v = <<a[1]>>
        BY <4>3
      <4> QED BY <1>2, <4>1, <4>2, <4>4 DEF v
    <3>14. Pre(u) \o rest = Stream(Tail(a))
      BY <3>6, <3>11, ConcatEmptySeq DEF r
    <3>15. Shape(u) /\ Begun(u, Tail(a))
      BY <3>10 DEF Shape, Begun
    <3>16. Follows(a, d, u, rest)
      BY <3>8, <3>12, <3>13, <3>14, <3>15 DEF Follows
    <3> QED BY <3>16 DEF u, d
  <2> QED BY <2>4, <2>5
<1> QED BY <1>0, <1>9, <1>10, <1>11

-----------------------------------------------------------------------------
(* The line.                                                                *)

\* Of what was asked, what is not sent yet: when the computer prints, the last texts;
\* when it sends a packet, what is left of it.
Unprinted == IF mode \in {"reading", "writing"} THEN <<>> ELSE out
\* What is left of a packet that the computer sends.
Unasked == IF mode \in {"reading", "writing"} THEN out ELSE <<>>

\* What the tokenizer holds, what is on its way and what is left of a packet are the
\* stream of all that was asked and is not done, but for the texts not printed yet.
OnTheLine(a) ==
    /\ asked = a \o Texts(Unprinted)
    /\ Pre(tok) \o (up \o Unasked) = Stream(a) /\ Begun(tok, a)
\* The invariant of the line: some of what was asked is in the tokenizer, on the line and
\* in the packet that is being sent, byte for byte.
LineInv ==
    /\ asked \in Seq(Said) /\ Parted(asked) /\ Shape(tok)
    /\ mode \in {"command", "reading", "writing"} /\ asked # <<>> => Quiet(asked[Len(asked)])
    /\ \E a \in Seq(Said) : OnTheLine(a)

\* What the shell prints last before it calls the disk does not look like the beginning
\* of a packet (main.c prints a newline).
NotMagic(b) == \A k \in 1 .. Len(Magic) : b # Magic[k]
MagicApart == NotMagic(Newline) /\ Line # <<>> /\ NotMagic(Line[Len(Line)])

\* The console has not just printed the magic value.
NotSpelt == ~Spelt(asked)

\* A step that does not lead astray records what it prints or asks.
LEMMA Recorded ==
    ASSUME ~astray', NEW items, Record(items)
    PROVE  ~astray /\ asked' = asked \o items /\ NotSpelt'
BY DEF Record, Expect, NotSpelt, Spelt
LEMMA RecordedOne ==
    ASSUME ~astray', asked \in Seq(Said), NEW q \in Said, Record(<<q>>)
    PROVE  ~astray /\ asked' = Append(asked, q) /\ NotSpelt'
<1>1. Append(asked, q) = asked \o <<q>>
  BY AppendIsConcat
<1> QED BY <1>1, Recorded

\* Two texts after each other.
LEMMA TextsConcat ==
    ASSUME NEW s \in Seq(Byte), NEW t \in Seq(Byte)
    PROVE  Texts(s \o t) = Texts(s) \o Texts(t)
<1> DEFINE u == s \o t
           v == Texts(s) \o Texts(t)
<1>1. /\ u \in Seq(Byte) /\ Len(u) = Len(s) + Len(t)
      /\ \A i \in 1 .. Len(s) + Len(t) : u[i] = IF i <= Len(s) THEN s[i] ELSE t[i - Len(s)]
  BY ConcatProperties, Zenon
<1>2. /\ Len(s) \in Nat /\ Len(t) \in Nat
      /\ Texts(s) \in Seq(Item) /\ Len(Texts(s)) = Len(s)
      /\ Texts(t) \in Seq(Item) /\ Len(Texts(t)) = Len(t)
      /\ \A k \in 1 .. Len(s) : Texts(s)[k] = [kind |-> "text", bytes |-> <<s[k]>>]
      /\ \A k \in 1 .. Len(t) : Texts(t)[k] = [kind |-> "text", bytes |-> <<t[k]>>]
  BY TextsType, LenProperties
<1> HIDE DEF u
<1>3. /\ Texts(u) \in Seq(Item) /\ Len(Texts(u)) = Len(u)
      /\ \A k \in 1 .. Len(u) : Texts(u)[k] = [kind |-> "text", bytes |-> <<u[k]>>]
  BY <1>1, TextsType
<1> DEFINE p == Texts(s)
           q == Texts(t)
<1> HIDE DEF p, q
<1>4. p \in Seq(Item) /\ q \in Seq(Item)
  BY <1>2 DEF p, q
<1>5. /\ v \in Seq(Item) /\ Len(v) = Len(p) + Len(q)
      /\ \A i \in 1 .. Len(p) + Len(q) : v[i] = IF i <= Len(p) THEN p[i] ELSE q[i - Len(p)]
  <2>1. /\ p \o q \in Seq(Item) /\ Len(p \o q) = Len(p) + Len(q)
        /\ \A i \in 1 .. Len(p) + Len(q) : (p \o q)[i] = IF i <= Len(p) THEN p[i] ELSE q[i - Len(p)]
    BY <1>4, ConcatProperties, Zenon
  <2> QED BY <2>1 DEF p, q
<1> HIDE DEF v
<1>6. Len(v) = Len(s) + Len(t) /\ Len(p) = Len(s)
  BY <1>2, <1>5 DEF p, q
<1>7. ASSUME NEW i \in 1 .. Len(s) + Len(t)
      PROVE  Texts(u)[i] = v[i]
  <2>1. Texts(u)[i] = [kind |-> "text", bytes |-> <<u[i]>>]
    BY <1>1, <1>3
  <2>2. v[i] = IF i <= Len(s) THEN p[i] ELSE q[i - Len(s)]
    BY <1>5, <1>6
  <2>3. CASE i <= Len(s)
    <3>1. i \in 1 .. Len(s)
      BY <1>2, <2>3
    <3> QED BY <1>1, <1>2, <2>1, <2>2, <2>3, <3>1 DEF p
  <2>4. CASE ~(i <= Len(s))
    <3>1. i - Len(s) \in 1 .. Len(t)
      BY <1>2, <2>4
    <3> QED BY <1>1, <1>2, <2>1, <2>2, <2>4, <3>1 DEF q
  <2> QED BY <2>3, <2>4
<1>8. Texts(u) = v
  BY <1>1, <1>3, <1>5, <1>6, <1>7, SeqEqual
<1> QED BY <1>8 DEF u, v

\* Texts after what is parted leave it parted, and so does taking it apart.
LEMMA PartedTexts ==
    ASSUME NEW a \in Seq(Said), Parted(a), NEW t \in Seq(Byte)
    PROVE  /\ a \o Texts(t) \in Seq(Said) /\ Parted(a \o Texts(t))
           /\ t # <<>> /\ NotMagic(t[Len(t)])
                => a \o Texts(t) # <<>> /\ Quiet((a \o Texts(t))[Len(a \o Texts(t))])
<1> DEFINE q == Texts(t)
           s == a \o q
<1>1. /\ q \in Seq(Said) /\ Len(q) = Len(t) /\ Len(t) \in Nat /\ Len(a) \in Nat
      /\ \A k \in 1 .. Len(t) : q[k] = [kind |-> "text", bytes |-> <<t[k]>>]
  BY StreamTexts, TextsType, LenProperties
<1> HIDE DEF q
<1>2. /\ s \in Seq(Said) /\ Len(s) = Len(a) + Len(q)
      /\ \A i \in 1 .. Len(a) + Len(q) : s[i] = IF i <= Len(a) THEN a[i] ELSE q[i - Len(a)]
  <2>1. q \in Seq(Said)
    BY <1>1
  <2> QED BY <2>1, ConcatProperties, Zenon
<1> HIDE DEF s
<1>3. ASSUME NEW k \in 1 .. Len(t)
      PROVE  q[k] \notin Requests
  <2>0. q[k] = [kind |-> "text", bytes |-> <<t[k]>>]
    BY <1>1
  <2>1. q[k].kind = "text"
    BY <2>0
  <2>2. \A i \in Requests : i.kind = "command"
    BY RequestTypes
  <2> QED BY <2>1, <2>2
<1>4. ASSUME NEW i \in 2 .. Len(s), s[i] \in Requests
      PROVE  Quiet(s[i - 1])
  <2>1. CASE i <= Len(a)
    <3>1. i \in 2 .. Len(a) /\ s[i] = a[i] /\ s[i - 1] = a[i - 1]
      BY <1>1, <1>2, <2>1
    <3> QED BY <1>4, <3>1 DEF Parted
  <2>2. CASE ~(i <= Len(a))
    <3>1. i - Len(a) \in 1 .. Len(t) /\ s[i] = q[i - Len(a)]
      BY <1>1, <1>2, <2>2
    <3> QED BY <1>3, <1>4, <3>1
  <2> QED BY <2>1, <2>2
<1>5. ASSUME t # <<>>, NotMagic(t[Len(t)])
      PROVE  s # <<>> /\ Quiet(s[Len(s)])
  <2>1. Len(t) > 0
    BY <1>1, <1>5, EmptySeq
  <2>2. Len(t) \in 1 .. Len(t) /\ ~(Len(s) <= Len(a)) /\ Len(s) - Len(a) = Len(t) /\ Len(s) > 0
        /\ Len(s) \in 1 .. Len(a) + Len(q)
    BY <1>1, <1>2, <2>1
  <2>3. s[Len(s)] = [kind |-> "text", bytes |-> <<t[Len(t)]>>]
    BY <1>1, <1>2, <2>2
  <2> QED BY <1>2, <1>5, <2>2, <2>3, EmptySeq DEF Quiet, NotMagic
<1> QED BY <1>2, <1>4, <1>5 DEF Parted, s, q

\* Both parts of what is parted are.
LEMMA PartedParts ==
    ASSUME NEW a \in Seq(Said), Parted(a), NEW n \in 0 .. Len(a)
    PROVE  Parted(SubSeq(a, 1, n)) /\ Parted(SubSeq(a, n + 1, Len(a)))
<1> DEFINE p == SubSeq(a, 1, n)
           r == SubSeq(a, n + 1, Len(a))
<1>1. /\ Len(p) = n /\ Len(r) = Len(a) - n /\ Len(a) \in Nat
      /\ \A i \in 1 .. n : p[i] = a[i]
      /\ \A i \in 1 .. Len(a) - n : r[i] = a[n + i]
  BY PrefixAndRest, LenProperties
<1> HIDE DEF p, r
<1>2. ASSUME NEW i \in 2 .. Len(p), p[i] \in Requests
      PROVE  Quiet(p[i - 1])
  <2>1. i \in 2 .. Len(a) /\ i \in 1 .. n /\ i - 1 \in 1 .. n
    BY <1>1
  <2> QED BY <1>1, <1>2, <2>1 DEF Parted
<1>3. ASSUME NEW i \in 2 .. Len(r), r[i] \in Requests
      PROVE  Quiet(r[i - 1])
  <2>1. n + i \in 2 .. Len(a) /\ i \in 1 .. Len(a) - n /\ i - 1 \in 1 .. Len(a) - n
        /\ n + (i - 1) = (n + i) - 1
    BY <1>1
  <2> QED BY <1>1, <1>3, <2>1 DEF Parted
<1> QED BY <1>2, <1>3 DEF Parted, p, r

\* An empty text asks nothing and sends nothing.
LEMMA NoText == Texts(<<>>) = <<>> /\ Stream(<<>>) = <<>> /\ <<>> \in Seq(Said) /\ <<>> \in Seq(Byte)
<1>1. <<>> \in Seq(Byte) /\ <<>> \in Seq(Said)
  BY EmptySeq
<1>2. Texts(<<>>) \in Seq(Item) /\ Len(Texts(<<>>)) = 0
  BY <1>1, TextsType, EmptySeq
<1>3. Texts(<<>>) = <<>>
  BY <1>2, EmptySeq
<1> QED BY <1>1, <1>3, StreamTexts

\* When the computer has sent what it had to send, all that was asked is on the line.
LEMMA AllSent ==
    ASSUME LineInv, out = <<>>
    PROVE  Cat(Pre(tok), Cat(up, <<>>)) = Stream(asked) /\ Begun(tok, asked)
<1>1. PICK a \in Seq(Said) : OnTheLine(a)
  BY DEF LineInv
<1>2. Unprinted = <<>> /\ Unasked = <<>>
  BY DEF Unprinted, Unasked
<1>3. asked = a
  <2>1. asked = a \o <<>>
    BY <1>1, <1>2, NoText DEF OnTheLine
  <2> QED BY <2>1, ConcatEmptySeq
<1> QED BY <1>1, <1>2, <1>3 DEF OnTheLine, Cat

\* A step that prints: what it prints is asked, and is to be sent.
LEMMA SayLine ==
    ASSUME ~astray', LineInv, out = <<>>, NEW text \in Seq(Byte), Say(text, mode'),
           mode' \in {"shell", "command", "input", "entered"},
           mode' = "command" => text # <<>> /\ NotMagic(text[Len(text)])
    PROVE  LineInv'
<1>1. Cat(Pre(tok), Cat(up, <<>>)) = Stream(asked) /\ Begun(tok, asked)
  BY AllSent
<1>2. asked' = asked \o Texts(text) /\ out' = text /\ up' = up /\ tok' = tok
  BY Recorded DEF Say, server
<1>3. Unprinted' = text /\ Unasked' = <<>>
  BY <1>2 DEF Unprinted, Unasked
<1>4. asked \in Seq(Said) /\ Parted(asked) /\ Shape(tok)
  BY DEF LineInv
<1>5. /\ asked' \in Seq(Said) /\ Parted(asked')
      /\ mode' = "command" => Quiet(asked'[Len(asked')])
  BY <1>2, <1>4, PartedTexts
<1>6. \E a \in Seq(Said) : OnTheLine(a)'
  BY <1>1, <1>2, <1>3, <1>4 DEF OnTheLine, Cat
<1> QED BY <1>2, <1>4, <1>5, <1>6 DEF LineInv

\* The types of what the invariant of the line speaks of.
LEMMA LineTypesOf ==
    ASSUME TypeInv, LineInv
    PROVE  /\ Pre(tok) \in Seq(Byte) /\ up \in Seq(Byte) /\ out \in Seq(Byte)
           /\ Unprinted \in Seq(Byte) /\ Unasked \in Seq(Byte) /\ tok \in TokenizerType
           /\ asked \in Seq(Said) /\ Parted(asked) /\ Shape(tok)
<1>1. /\ up \in Seq(Byte) /\ out \in Seq(Byte) /\ tok \in TokenizerType
  BY DEF TypeInv, TypeOK, TokenizerType
<1>2. <<>> \in Seq(Byte)
  BY EmptySeq
<1>3. Unprinted \in Seq(Byte) /\ Unasked \in Seq(Byte)
  BY <1>1, <1>2 DEF Unprinted, Unasked
<1>4. asked \in Seq(Said) /\ Parted(asked) /\ Shape(tok)
  BY DEF LineInv
<1>5. Pre(tok) \in Seq(Byte)
  BY <1>1, <1>4, PreType
<1> QED BY <1>1, <1>3, <1>4, <1>5

\* Nothing, before or behind a sequence.
LEMMA CatEmpty ==
    ASSUME NEW X, NEW s \in Seq(X)
    PROVE  Cat(s, <<>>) = s /\ Cat(<<>>, s) = s
BY ConcatEmptySeq DEF Cat

\* A step that begins to send a request.
LEMMA RequestLine ==
    ASSUME TypeInv, LineInv, out = <<>>, mode = "command", NEW q \in Requests,
           asked' = Append(asked, q), out' = Packet(q.bytes), mode' \in {"reading", "writing"},
           tok' = tok, up' = up
    PROVE  LineInv'
<1> DEFINE p == Pre(tok)
           s == Stream(asked)
           k == Packet(q.bytes)
<1>1. Cat(p, Cat(up, <<>>)) = s /\ Begun(tok, asked)
  BY AllSent
<1>2. p \in Seq(Byte) /\ up \in Seq(Byte) /\ asked \in Seq(Said) /\ s \in Seq(Byte)
  BY LineTypesOf, EncodedType
<1>3. q \in Said /\ Bytes(q) = k /\ k \in Seq(Byte)
  BY BytesTypes DEF Said
<1>4. /\ Append(asked, q) \in Seq(Said) /\ Len(Append(asked, q)) = Len(asked) + 1
      /\ \A i \in 1 .. Len(asked) : Append(asked, q)[i] = asked[i]
      /\ Append(asked, q)[Len(asked) + 1] = q /\ Len(asked) \in Nat
  BY <1>2, <1>3, AppendProperties, LenProperties
<1> DEFINE a == Append(asked, q)
<1> HIDE DEF p, s, k
<1>5. Stream(a) = Cat(s, k)
  <2>1. <<q>> \in Seq(Said) /\ Stream(<<q>>) = k
    BY <1>3, StreamOne
  <2>2. a = asked \o <<q>>
    BY <1>2, <1>3, AppendIsConcat
  <2>3. Stream(asked \o <<q>>) = Stream(asked) \o Stream(<<q>>)
    BY <1>2, <2>1, StreamConcat
  <2> QED BY <2>1, <2>2, <2>3 DEF Cat, s
<1>6. Cat(p, Cat(up, k)) = Cat(s, k)
  <2>1. Cat(up, <<>>) = up
    BY <1>2, CatEmpty
  <2>2. Cat(Cat(p, up), k) = Cat(p, Cat(up, k))
    BY <1>2, <1>3, CatAssociative
  <2> QED BY <1>1, <2>1, <2>2
<1> HIDE DEF a
<1>7. Unprinted' = <<>> /\ Unasked' = k /\ asked' = a
  BY DEF Unprinted, Unasked, k, a
<1>8. Begun(tok, a)
  <2>1. asked # <<>> => 1 \in 1 .. Len(asked)
    BY <1>4, EmptySeq, <1>2
  <2>2. asked # <<>> => a[1] = asked[1] /\ a # <<>>
    BY <1>4, <2>1, <1>2, <1>3, AppendProperties DEF a
  <2> QED BY <1>1, <2>2 DEF Begun
<1>9. a = a \o Texts(<<>>) /\ a \in Seq(Said)
  <2>1. a \in Seq(Said)
    BY <1>4 DEF a
  <2> QED BY <2>1, NoText, ConcatEmptySeq
<1>10. Parted(a)
  <2> SUFFICES ASSUME NEW i \in 2 .. Len(a), a[i] \in Requests
               PROVE  Quiet(a[i - 1])
    BY DEF Parted
  <2>1. Parted(asked) /\ (asked # <<>> => Quiet(asked[Len(asked)]))
    BY DEF LineInv
  <2>2. CASE i <= Len(asked)
    <3>1. i \in 2 .. Len(asked) /\ a[i] = asked[i] /\ a[i - 1] = asked[i - 1]
      BY <1>4, <2>2 DEF a
    <3> QED BY <2>1, <3>1 DEF Parted
  <2>3. CASE ~(i <= Len(asked))
    <3>1. i - 1 = Len(asked) /\ Len(asked) \in 1 .. Len(asked) /\ a[i - 1] = asked[Len(asked)]
      BY <1>4, <2>3 DEF a
    <3>2. asked # <<>>
      BY <3>1, EmptySeq
    <3> QED BY <2>1, <3>1, <3>2
  <2> QED BY <2>2, <2>3
<1>11. Quiet(a[Len(a)])
  BY <1>4 DEF a, Quiet
<1>12. PICK x \in Seq(Said) : x = a
  BY <1>9
<1>13. OnTheLine(x)'
  <2>1. Pre(tok)' \o (up' \o Unasked') = Stream(x)
    BY <1>5, <1>6, <1>7, <1>12 DEF Cat, p
  <2>2. Begun(tok', x) /\ asked' = x \o Texts(Unprinted')
    BY <1>7, <1>8, <1>9, <1>12
  <2> QED BY <2>1, <2>2 DEF OnTheLine
<1>14. asked' \in Seq(Said) /\ Parted(asked') /\ Quiet(asked'[Len(asked')])
  BY <1>7, <1>9, <1>10, <1>11
<1>15. Shape(tok)'
  BY DEF LineInv
<1> QED BY <1>13, <1>14, <1>15 DEF LineInv

\* What begins with a request still does with more behind it.
LEMMA BegunMore ==
    ASSUME NEW t, NEW a \in Seq(Said), NEW b \in Seq(Said), Begun(t, a)
    PROVE  Cat(a, b) \in Seq(Said) /\ Begun(t, Cat(a, b))
<1> DEFINE c == a \o b
<1>1. /\ c \in Seq(Said) /\ Len(c) = Len(a) + Len(b)
      /\ \A i \in 1 .. Len(a) + Len(b) : c[i] = IF i <= Len(a) THEN a[i] ELSE b[i - Len(a)]
  BY ConcatProperties, Zenon
<1> HIDE DEF c
<1>2. Len(a) \in Nat /\ Len(b) \in Nat
  BY LenProperties
<1>3. ASSUME a # <<>> PROVE c # <<>> /\ c[1] = a[1]
  <2>1. Len(a) > 0
    BY <1>2, <1>3, EmptySeq
  <2>2. 1 \in 1 .. Len(a) + Len(b) /\ 1 <= Len(a) /\ Len(c) > 0
    BY <1>1, <1>2, <2>1
  <2> QED BY <1>1, <2>2, EmptySeq
<1>4. Begun(t, c)
  BY <1>3 DEF Begun
<1> QED BY <1>1, <1>4 DEF c, Cat

\* A byte that is sent moves from the one end of the line's part to the other.
LEMMA SendLine ==
    ASSUME TypeInv, LineInv, SendByte
    PROVE  LineInv'
<1> DEFINE p == Pre(tok)
           h == Head(out)
           r == Tail(out)
<1>1. PICK a \in Seq(Said) : OnTheLine(a)
  BY DEF LineInv
<1>2. /\ p \in Seq(Byte) /\ up \in Seq(Byte) /\ out \in Seq(Byte) /\ out # <<>>
      /\ asked \in Seq(Said) /\ Parted(asked) /\ Shape(tok)
  BY LineTypesOf DEF SendByte
<1>3. h \in Byte /\ r \in Seq(Byte) /\ out = Cat(<<h>>, r) /\ <<h>> \in Seq(Byte) /\ r = Tail(out)
  BY <1>2, HeadAndTail DEF Cat
<1>4. up' = Append(up, h) /\ out' = r /\ asked' = asked /\ tok' = tok
      /\ mode' = IF mode = "writing" /\ out' = <<>> THEN "command" ELSE mode
  BY DEF SendByte, server
<1>5. Append(up, h) \in Seq(Byte)
  BY <1>2, <1>3, AppendType
<1> HIDE DEF h, r
<1>6. CASE mode \in {"reading", "writing"}
  <2>1. Unprinted = <<>> /\ Unasked = out /\ Unprinted' = <<>> /\ Unasked' = r
    BY <1>4, <1>6 DEF Unprinted, Unasked
  <2>2. Cat(up, out) = Cat(Append(up, h), r)
    <3>1. up \in Seq(Byte) /\ h \in Byte /\ r \in Seq(Byte)
      BY <1>2, <1>3
    <3>2. Cat(up, Cat(<<h>>, r)) = Cat(Append(up, h), r)
      BY <3>1, AppendCat, ZenonT(30)
    <3> QED BY <1>3, <3>2
  <2>3. OnTheLine(a)'
    BY <1>1, <1>4, <2>1, <2>2 DEF OnTheLine, Cat
  <2>4. asked # <<>> => Quiet(asked[Len(asked)])
    BY <1>6 DEF LineInv
  <2> QED BY <1>2, <1>4, <2>3, <2>4 DEF LineInv
<1>7. CASE mode \notin {"reading", "writing"}
  <2>1. Unprinted = out /\ Unasked = <<>> /\ Unprinted' = r /\ Unasked' = <<>> /\ mode' = mode
    BY <1>4, <1>7 DEF Unprinted, Unasked
  <2> DEFINE q == Texts(<<h>>)
  <2>2. q \in Seq(Said) /\ Stream(q) = <<h>>
    BY <1>3, StreamTexts
  <2>3. Texts(out) = Cat(q, Texts(r)) /\ Texts(r) \in Seq(Said)
    BY <1>3, TextsConcat, StreamTexts DEF Cat
  <2> HIDE DEF q
  <2>4. PICK x \in Seq(Said) : x = Cat(a, q)
    BY <1>1, <2>2, CatAssociative
  <2>5. asked = Cat(x, Texts(r))
    <3>1. asked = Cat(a, Cat(q, Texts(r)))
      BY <1>1, <2>1, <2>3 DEF OnTheLine, Cat
    <3>2. Cat(Cat(a, q), Texts(r)) = Cat(a, Cat(q, Texts(r)))
      BY <1>1, <2>2, <2>3, CatAssociative
    <3> QED BY <2>4, <3>1, <3>2
  <2>6. Begun(tok, x)
    BY <1>1, <2>2, <2>4, BegunMore DEF OnTheLine
  <2>7. Stream(x) = Cat(Stream(a), <<h>>) /\ Stream(a) \in Seq(Byte)
    BY <1>1, <2>2, <2>4, StreamConcat, EncodedType, ZenonT(30) DEF Cat
  <2>8. Cat(p, Cat(Append(up, h), <<>>)) = Stream(x)
    <3>1. Cat(p, up) = Stream(a)
      <4>1. Cat(p, Cat(up, <<>>)) = Stream(a)
        BY <1>1, <2>1 DEF OnTheLine, Cat, p
      <4>2. Cat(up, <<>>) = up
        BY <1>2, CatEmpty
      <4> QED BY <4>1, <4>2
    <3> HIDE DEF p
    <3>2. Cat(Append(up, h), <<>>) = Append(up, h)
      BY <1>5, CatEmpty
    <3>3. Append(Cat(p, up), h) = Cat(p, Append(up, h))
      <4>1. up \in Seq(Byte) /\ h \in Byte /\ p \in Seq(Byte)
        BY <1>2, <1>3 DEF p
      <4> QED BY <4>1, AppendToCat
    <3>4. Append(Stream(a), h) = Cat(Stream(a), <<h>>)
      BY <1>3, <2>7, AppendIsCat
    <3> QED BY <2>7, <3>1, <3>2, <3>3, <3>4
  <2>9. OnTheLine(x)'
    BY <1>4, <2>1, <2>5, <2>6, <2>8 DEF OnTheLine, Cat
  <2>10. mode \in {"command", "reading", "writing"} /\ asked # <<>> => Quiet(asked[Len(asked)])
    BY DEF LineInv
  <2> QED BY <1>2, <1>4, <2>1, <2>9, <2>10 DEF LineInv
<1> QED BY <1>6, <1>7

\* A step that only takes a byte from the computer's receive buffer, or none.
LEMMA QuietLine ==
    ASSUME ~astray', TypeInv, LineInv,
           ReceiveByte \/ Open \/ OpenFails \/ HostReply \/ Type \/ Unplug \/ UNCHANGED vars
    PROVE  LineInv'
<1>1. tok' = tok /\ up' = up /\ asked' = asked
  <2>1. CASE Unplug
    BY <2>1, UnplugTypes DEF Unplug, server
  <2>2. CASE ~Unplug
    BY <2>2 DEF ReceiveByte, Open, OpenFails, HostReply, Type, vars, server, computer
  <2> QED BY <2>1, <2>2
<1>2. Unprinted' = Unprinted /\ Unasked' = Unasked
  <2>1. CASE ReceiveByte
    BY <2>1 DEF ReceiveByte, Unprinted, Unasked
  <2>2. CASE Open \/ OpenFails \/ HostReply \/ Type \/ Unplug \/ UNCHANGED vars
    BY <2>2 DEF Open, OpenFails, HostReply, Type, Unplug, vars, computer, Unprinted, Unasked
  <2> QED BY <2>1, <2>2
<1>3. mode' \in {"command", "reading", "writing"} => mode \in {"command", "reading", "writing"}
  BY DEF ReceiveByte, Open, OpenFails, HostReply, Type, Unplug, vars, computer
<1> QED BY <1>1, <1>2, <1>3 DEF LineInv, OnTheLine

\* A reset that cuts no packet takes back the texts that were not sent.
LEMMA ResetLine ==
    ASSUME ~astray', TypeInv, LineInv, Reset
    PROVE  /\ LineInv' /\ NotSpelt'
           /\ \E a \in Seq(Said) : \E w \in Seq(Byte) :
                asked = Cat(a, Texts(out)) /\ asked' = Cat(a, Texts(w))
<1>1. ~InPacket
  BY DEF Reset, Expect
<1>2. PICK a \in Seq(Said) : OnTheLine(a)
  BY DEF LineInv
<1>3. /\ up \in Seq(Byte) /\ out \in Seq(Byte) /\ Len(out) \in Nat
      /\ asked \in Seq(Said) /\ Parted(asked) /\ Shape(tok)
  BY LineTypesOf, LenProperties
<1>4. Unprinted = out /\ Unasked = <<>>
  BY <1>1 DEF InPacket, Unprinted, Unasked
<1> DEFINE q == Texts(out)
<1>5. q \in Seq(Said) /\ Len(q) = Len(out)
  BY <1>3, StreamTexts, TextsType
<1>6. asked = a \o q
  BY <1>2, <1>4 DEF OnTheLine
<1> HIDE DEF q
<1>7. Len(asked) = Len(a) + Len(q) /\ Len(a) \in Nat
  <2>1. Len(a \o q) = Len(a) + Len(q)
    BY <1>5, ConcatProperties, Zenon
  <2> QED BY <1>6, <2>1, LenProperties
<1>8. Len(asked) - Len(out) = Len(a) /\ Len(a) \in 0 .. Len(a) /\ Len(a) \in 0 .. Len(asked)
  BY <1>3, <1>4, <1>5, <1>7
<1>9. SubSeq(asked, 1, Len(a)) = a
  <2>1. SubSeq(asked, 1, Len(a)) = SubSeq(a, 1, Len(a))
    BY <1>5, <1>6, <1>8, RestOfConcat
  <2> QED BY <2>1, SubSeqFull
<1>10. Parted(a)
  BY <1>3, <1>8, <1>9, PartedParts
<1> DEFINE w == Motd \o Prompt
<1>11. w \in Seq(Byte)
  BY Sizes, ConcatProperties
<1> HIDE DEF w
<1>12. /\ mode' = "shell" /\ out' = w /\ asked' = a \o Texts(w) /\ up' = up /\ tok' = tok
  BY <1>8, <1>9 DEF Reset, Expect, server, w
<1>13. asked' \in Seq(Said) /\ Parted(asked')
  BY <1>10, <1>11, <1>12, PartedTexts
<1>14. Unprinted' = w /\ Unasked' = <<>>
  BY <1>12 DEF Unprinted, Unasked
<1>15. OnTheLine(a)'
  BY <1>2, <1>4, <1>12, <1>14 DEF OnTheLine
<1>16. asked = Cat(a, Texts(out)) /\ asked' = Cat(a, Texts(w))
  BY <1>6, <1>12 DEF Cat, q
<1>17. NotSpelt'
  BY DEF Reset, Expect, NotSpelt, Spelt
<1> QED BY <1>3, <1>11, <1>12, <1>13, <1>15, <1>16, <1>17 DEF LineInv

\* A byte that the host takes: what it makes of it was asked next, and the rest of what
\* was asked is what the line still holds.
LEMMA HostLine ==
    ASSUME TypeInv, LineInv, NotSpelt, HostByte
    PROVE  LineInv' /\ Len(Done) <= Len(asked) /\ SubSeq(asked, 1, Len(Done)) = Done
<1>1. PICK a \in Seq(Said) : OnTheLine(a)
  BY DEF LineInv
<1>2. /\ Pre(tok) \in Seq(Byte) /\ up \in Seq(Byte) /\ up # <<>> /\ asked \in Seq(Said)
      /\ Unprinted \in Seq(Byte) /\ Unasked \in Seq(Byte) /\ tok \in TokenizerType
      /\ Parted(asked) /\ Shape(tok)
  BY LineTypesOf DEF HostByte
<1> DEFINE p == Pre(tok)
           b == Head(up)
           u == Tail(up)
           d == TurnsOut(tok, b)
           q == Texts(Unprinted)
           t == Advance(tok, b)
<1>3. b \in Byte /\ u \in Seq(Byte) /\ up = Cat(<<b>>, u) /\ <<b>> \in Seq(Byte)
  BY <1>2, HeadAndTail DEF Cat
<1>4. up' = u /\ tok' = t /\ asked' = SubSeq(asked, Len(d) + 1, Len(asked)) /\ Done = d
      /\ mode' = mode /\ out' = out
  BY DEF HostByte, Done, TurnsOut, computer
<1>5. q \in Seq(Said)
  BY <1>2, StreamTexts
<1>6. asked = a \o q /\ Cat(p, Cat(up, Unasked)) = Stream(a) /\ Begun(tok, a)
  BY <1>1 DEF OnTheLine, Cat
<1> HIDE DEF b, u, d, t, q
<1>7. Len(asked) = Len(a) + Len(q) /\ Len(a) \in Nat /\ Len(q) \in Nat
  <2>1. Len(a \o q) = Len(a) + Len(q)
    BY <1>5, ConcatProperties, Zenon
  <2> QED BY <1>5, <1>6, <2>1, LenProperties
<1>8. \A n \in 0 .. Len(a) : SubSeq(asked, 1, n) = SubSeq(a, 1, n)
                             /\ SubSeq(asked, n + 1, Len(asked)) = SubSeq(a, n + 1, Len(a)) \o q
  BY <1>5, <1>6, RestOfConcat
<1>9. Parted(a)
  <2>1. Len(a) \in 0 .. Len(a) /\ Len(a) \in 0 .. Len(asked)
    BY <1>7
  <2>2. SubSeq(asked, 1, Len(a)) = a
    BY <1>8, <2>1, SubSeqFull
  <2> QED BY <1>2, <2>1, <2>2, PartedParts
<1>10. PICK rest \in Seq(Byte) : rest = Cat(u, Unasked)
  BY <1>2, <1>3, CatAssociative
<1>11. Cat(p, Cat(<<b>>, rest)) = Stream(a)
  <2>1. Cat(Cat(<<b>>, u), Unasked) = Cat(<<b>>, Cat(u, Unasked))
    <3>1. <<b>> \in Seq(Byte) /\ u \in Seq(Byte) /\ Unasked \in Seq(Byte)
      BY <1>2, <1>3
    <3> DEFINE v == <<b>>
               w == Unasked
    <3> HIDE DEF v, w
    <3>2. v \in Seq(Byte) /\ u \in Seq(Byte) /\ w \in Seq(Byte)
      BY <3>1 DEF v, w
    <3>3. Cat(Cat(v, u), w) = Cat(v, Cat(u, w))
      BY <3>2, CatAssociative
    <3> QED BY <3>3 DEF v, w
  <2>2. Cat(up, Unasked) = Cat(<<b>>, rest)
    BY <1>3, <1>10, <2>1
  <2>3. Cat(p, Cat(up, Unasked)) = Stream(a)
    BY <1>6
  <2> HIDE DEF p
  <2> QED BY <2>2, <2>3
<1>12. Follows(a, d, t, rest)
  <2>1. CASE tok.state = "magic"
    <3>1. Len(Magic) \in 0 .. Len(a) => SubSeq(a, 1, Len(Magic)) # Texts(Magic)
      <4> SUFFICES ASSUME Len(Magic) \in 0 .. Len(a)
                   PROVE  SubSeq(a, 1, Len(Magic)) # Texts(Magic)
        OBVIOUS
      <4>1. 0 \in 0 .. Len(asked) - Len(Magic)
        BY <1>7, MagicSize
      <4>2. SubSeq(asked, 0 + 1, 0 + Len(Magic)) # Texts(Magic)
        BY <4>1 DEF NotSpelt, Spelt
      <4>3. 0 + 1 = 1 /\ 0 + Len(Magic) = Len(Magic)
        BY MagicSize
      <4>4. SubSeq(asked, 1, Len(Magic)) = SubSeq(a, 1, Len(Magic))
        BY <1>8
      <4> QED BY <4>2, <4>3, <4>4
    <3>2. Pre(tok) \o (<<b>> \o rest) = Stream(a)
      BY <1>11 DEF Cat, p
    <3> QED BY <1>2, <1>3, <1>9, <2>1, <3>1, <3>2, MagicStep DEF d, t
  <2>2. CASE tok.state # "magic"
    <3>1. Cat(Pre(tok), Cat(<<b>>, rest)) = Stream(a)
      BY <1>11 DEF p
    <3> QED BY <1>2, <1>3, <1>6, <2>2, <3>1, PacketStep DEF d, t
  <2> QED BY <2>1, <2>2
<1>13. PICK left : left = SubSeq(a, Len(d) + 1, Len(a))
  OBVIOUS
<1>14. /\ Len(d) \in 0 .. Len(a) /\ SubSeq(a, 1, Len(d)) = d
       /\ Cat(Pre(t), rest) = Stream(left) /\ Shape(t) /\ Begun(t, left)
  BY <1>12, <1>13 DEF Follows, Cat
<1>15. left \in Seq(Said)
  BY <1>13, <1>14, PrefixAndRest
<1>16. Len(d) <= Len(asked) /\ SubSeq(asked, 1, Len(d)) = d /\ asked' = left \o q
       /\ Len(d) \in 0 .. Len(asked)
  <2> DEFINE k == Len(d)
  <2>1. k \in 0 .. Len(a) /\ SubSeq(a, 1, k) = d
    BY <1>14
  <2> HIDE DEF k
  <2>2. SubSeq(asked, 1, k) = SubSeq(a, 1, k) /\ SubSeq(asked, k + 1, Len(asked)) = SubSeq(a, k + 1, Len(a)) \o q
    BY <1>8, <2>1
  <2>3. k \in 0 .. Len(asked) /\ k <= Len(asked)
    BY <1>7, <2>1
  <2> QED BY <1>4, <1>13, <2>1, <2>2, <2>3 DEF k
<1>17. asked' \in Seq(Said) /\ Parted(asked')
  BY <1>2, <1>4, <1>16, PrefixAndRest, PartedParts, SMTT(30)
<1>18. asked' # <<>> => asked # <<>> /\ asked'[Len(asked')] = asked[Len(asked)]
  <2> DEFINE s == SubSeq(asked, Len(d) + 1, Len(asked))
             k == Len(d)
  <2>1. /\ s \in Seq(Said) /\ Len(s) = Len(asked) - k /\ asked' = s
        /\ \A i \in 1 .. Len(asked) - k : s[i] = asked[k + i]
    BY <1>2, <1>4, <1>16, PrefixAndRest, SMTT(30)
  <2> HIDE DEF s, k
  <2>2. k \in 0 .. Len(asked) /\ Len(asked) \in Nat
    BY <1>7, <1>16 DEF k
  <2> SUFFICES ASSUME s # <<>> PROVE asked # <<>> /\ s[Len(s)] = asked[Len(asked)]
    BY <2>1
  <2>3. Len(s) # 0
    BY <2>1, EmptySeq
  <2>4. Len(asked) - k \in 1 .. Len(asked) - k /\ k + (Len(asked) - k) = Len(asked) /\ Len(asked) # 0
    BY <2>1, <2>2, <2>3
  <2> QED BY <2>1, <2>4, EmptySeq
<1>19. mode' \in {"command", "reading", "writing"} /\ asked' # <<>> => Quiet(asked'[Len(asked')])
  BY <1>4, <1>18 DEF LineInv
<1>20. Unprinted' = Unprinted /\ Unasked' = Unasked
  BY <1>4 DEF Unprinted, Unasked
<1>21. OnTheLine(left)'
  BY <1>4, <1>10, <1>14, <1>16, <1>20 DEF OnTheLine, Cat, q
<1> QED BY <1>4, <1>14, <1>15, <1>16, <1>17, <1>19, <1>21 DEF LineInv

\* When the computer starts, all it has asked is to be printed.
LEMMA InitLine == Init => LineInv
<1> SUFFICES ASSUME Init PROVE LineInv
  OBVIOUS
<1> DEFINE w == Motd \o Prompt
<1>1. w \in Seq(Byte)
  BY Sizes, ConcatProperties
<1> HIDE DEF w
<1>2. mode = "shell" /\ out = w /\ asked = Texts(w) /\ up = <<>> /\ tok = NewTokenizer
  BY DEF Init, w
<1>3. Unprinted = w /\ Unasked = <<>>
  BY <1>2 DEF Unprinted, Unasked
<1>4. asked \in Seq(Said)
  BY <1>1, <1>2, StreamTexts
<1>5. Parted(asked)
  <2>1. Parted(<<>>)
    BY EmptySeq DEF Parted
  <2>2. Parted(<<>> \o Texts(w))
    BY <1>1, <2>1, NoText, PartedTexts
  <2>3. <<>> \o asked = asked
    BY <1>4, ConcatEmptySeq
  <2> QED BY <1>2, <2>2, <2>3
<1>6. tok.state = "magic" /\ Pre(tok) = <<>> /\ Shape(tok)
  <2>1. tok.state = "magic" /\ tok.matched = 0
    BY <1>2 DEF NewTokenizer
  <2>2. SubSeq(Magic, 1, 0) = <<>>
    BY SubSeqEmpty
  <2> QED BY <2>1, <2>2 DEF Pre, Potential, Shape
<1>7. Cat(<<>>, Cat(<<>>, <<>>)) = Stream(<<>>) /\ asked = Cat(<<>>, asked)
  <2>1. Cat(<<>>, <<>>) = <<>>
    BY NoText, CatEmpty
  <2>2. Cat(<<>>, asked) = asked
    BY <1>4, CatEmpty
  <2> QED BY <2>1, <2>2, NoText
<1>8. OnTheLine(<<>>)
  BY <1>2, <1>3, <1>6, <1>7 DEF OnTheLine, Cat, Begun
<1> QED BY <1>2, <1>4, <1>5, <1>6, <1>8, NoText DEF LineInv

\* A step of the computer, packets and console alike.
LEMMA ComputerLine ==
    ASSUME MagicApart, ~astray', TypeInv, LineInv, NotSpelt, Computer
    PROVE  LineInv' /\ NotSpelt'
<1>0. out \in Seq(Byte) /\ Newline \in Byte /\ Enter \in Byte /\ Line \in Seq(Byte) /\ Prompt \in Seq(Byte)
  BY Sizes DEF TypeInv, TypeOK
<1>1. CASE SendByte
  BY <1>1, SendLine DEF SendByte, NotSpelt
<1>a. ASSUME NEW text, NEW next, Say(text, next) PROVE NotSpelt'
  BY <1>a, Recorded DEF Say
<1>2. CASE ReadKey
  <2>1. Head(down) \in Byte
    BY <1>2, DownTail DEF ReadKey
  <2>2. CASE Head(down) = Enter
    <3> DEFINE w == <<Enter, Newline>>
    <3>1. w \in Seq(Byte) /\ w # <<>> /\ w[Len(w)] = Newline
      BY <1>0
    <3> HIDE DEF w
    <3>2. out = <<>> /\ Say(w, "command") /\ mode' = "command"
      BY <1>2, <2>2 DEF ReadKey, Say, w
    <3> QED BY <3>1, <3>2, <1>a, SayLine DEF MagicApart
  <2>3. CASE Head(down) # Enter
    <3> DEFINE w == <<Head(down)>>
    <3>1. w \in Seq(Byte)
      BY <2>1
    <3> HIDE DEF w
    <3>2. out = <<>> /\ Say(w, "shell") /\ mode' = "shell"
      BY <1>2, <2>3 DEF ReadKey, Say, w
    <3> QED BY <3>1, <3>2, <1>a, SayLine
  <2> QED BY <2>2, <2>3
<1>3. CASE StartInput
  <2> DEFINE w == <<Newline>>
  <2>1. w \in Seq(Byte)
    BY <1>0
  <2> HIDE DEF w
  <2>2. out = <<>> /\ Say(w, "input") /\ mode' = "input"
    BY <1>3 DEF StartInput, Say, w
  <2> QED BY <2>1, <2>2, <1>a, SayLine
<1>4. CASE InputKey
  <2> DEFINE w == <<Head(down)>>
  <2>1. w \in Seq(Byte)
    BY <1>4, DownTail DEF InputKey
  <2> HIDE DEF w
  <2>2. out = <<>> /\ Say(w, mode') /\ mode' \in {"input", "entered"}
    BY <1>4 DEF InputKey, Say, w
  <2> QED BY <2>1, <2>2, <1>a, SayLine
<1>5. CASE EndInput
  <2>1. out = <<>> /\ Say(Line, "command") /\ mode' = "command"
    BY <1>5 DEF EndInput, Say
  <2> QED BY <1>0, <2>1, <1>a, SayLine DEF MagicApart
<1>6. CASE Return
  <2>1. out = <<>> /\ Say(Prompt, "shell") /\ mode' = "shell"
    BY <1>6 DEF Return, Say
  <2> QED BY <1>0, <2>1, <1>a, SayLine
<1>7. CASE ReceiveByte
  BY <1>7, QuietLine DEF ReceiveByte, NotSpelt
<1>8. CASE \E s \in Sectors : DiskRead(s)
  <2>1. PICK s \in Sectors : DiskRead(s)
    BY <1>8
  <2>2. PICK q : q = Command(<<R, s>>)
    OBVIOUS
  <2>3. q \in Requests /\ q.bytes = <<R, s>>
    <3>1. Command(<<R, s>>) \in Requests
      BY DEF Requests
    <3>2. q.bytes = <<R, s>>
      BY <2>2 DEF Command
    <3> QED BY <2>2, <3>1, <3>2
  <2>4. /\ out = <<>> /\ mode = "command" /\ Record(<<q>>) /\ out' = Packet(q.bytes)
        /\ mode' \in {"reading", "writing"} /\ tok' = tok /\ up' = up
    BY <2>1, <2>2, <2>3 DEF DiskRead, server
  <2>5. asked' = Append(asked, q) /\ NotSpelt'
    BY <2>3, <2>4, LineTypesOf, RecordedOne DEF Said
  <2> QED BY <2>3, <2>4, <2>5, RequestLine
<1>9. CASE \E s \in Sectors : \E d \in Data : DiskWrite(s, d)
  <2>1. PICK s \in Sectors : \E d \in Data : DiskWrite(s, d)
    BY <1>9
  <2>2. PICK d \in Data : DiskWrite(s, d)
    BY <2>1
  <2>3. PICK c : c = <<W, s>> \o d
    OBVIOUS
  <2>4. PICK q : q = Command(c)
    OBVIOUS
  <2>5. q \in Requests /\ q.bytes = c
    <3>1. Command(<<W, s>> \o d) \in Requests
      BY DEF Requests
    <3>2. q.bytes = c
      BY <2>4 DEF Command
    <3> QED BY <2>3, <2>4, <3>1, <3>2
  <2>6. /\ out = <<>> /\ mode = "command" /\ Record(<<q>>) /\ out' = Packet(c)
        /\ mode' \in {"reading", "writing"} /\ tok' = tok /\ up' = up
    BY <2>2, <2>3, <2>4 DEF DiskWrite, server
  <2>7. asked' = Append(asked, q) /\ NotSpelt'
    BY <2>5, <2>6, LineTypesOf, RecordedOne DEF Said
  <2> QED BY <2>5, <2>6, <2>7, RequestLine
<1> QED BY <1>1, <1>2, <1>3, <1>4, <1>5, <1>6, <1>7, <1>8, <1>9 DEF Computer

\* What is left of texts that do not spell the magic value does not spell it either.
LEMMA SpeltLess ==
    ASSUME NEW a \in Seq(Said), NEW n \in 0 .. Len(a), ~Spelt(a)
    PROVE  ~Spelt(SubSeq(a, n + 1, Len(a)))
<1> DEFINE c == SubSeq(a, n + 1, Len(a))
           L == Len(Magic)
<1>1. /\ c \in Seq(Said) /\ Len(c) = Len(a) - n /\ \A i \in 1 .. Len(a) - n : c[i] = a[n + i]
      /\ Len(a) \in Nat /\ L \in Nat /\ L > 0
  BY PrefixAndRest, LenProperties, MagicSize
<1> HIDE DEF c, L
<1> SUFFICES ASSUME NEW i \in 0 .. Len(c) - L, SubSeq(c, i + 1, i + L) = Texts(Magic)
             PROVE  FALSE
  BY DEF Spelt, c, L
<1>2. n + i \in 0 .. Len(a) - L
  BY <1>1
<1>3. /\ SubSeq(c, i + 1, i + L) \in Seq(Said) /\ Len(SubSeq(c, i + 1, i + L)) = L
      /\ \A k \in 1 .. L : SubSeq(c, i + 1, i + L)[k] = c[i + k]
  <2>1. \A k \in i + 1 .. i + L : c[k] \in Said
    BY <1>1, LenProperties
  <2> QED BY <1>1, <2>1, SubSeqProperties
<1>4. /\ SubSeq(a, (n + i) + 1, (n + i) + L) \in Seq(Said)
      /\ Len(SubSeq(a, (n + i) + 1, (n + i) + L)) = L
      /\ \A k \in 1 .. L : SubSeq(a, (n + i) + 1, (n + i) + L)[k] = a[(n + i) + k]
  <2>1. \A k \in (n + i) + 1 .. (n + i) + L : a[k] \in Said
    BY <1>1, <1>2, LenProperties, SMTT(30)
  <2> QED BY <1>1, <1>2, <2>1, SubSeqProperties
<1>5. ASSUME NEW k \in 1 .. L PROVE c[i + k] = a[(n + i) + k]
  <2>1. i + k \in 1 .. Len(a) - n /\ n + (i + k) = (n + i) + k
    BY <1>1
  <2> QED BY <1>1, <2>1, Zenon
<1>6. SubSeq(a, (n + i) + 1, (n + i) + L) = SubSeq(c, i + 1, i + L)
  BY <1>3, <1>4, <1>5, SeqEqual
<1>7. SubSeq(a, (n + i) + 1, (n + i) + L) = Texts(Magic)
  BY <1>6
<1> QED BY <1>2, <1>7 DEF Spelt, L

\* Every step after which the line is not astray, and was not before.
LEMMA StepLine ==
    ASSUME MagicApart, ~astray', TypeInv, LineInv, NotSpelt, [Next]_vars
    PROVE  LineInv' /\ NotSpelt'
<1>1. CASE HostByte
  <2>1. LineInv' /\ Len(Done) <= Len(asked) /\ asked' = SubSeq(asked, Len(Done) + 1, Len(asked))
    BY <1>1, HostLine DEF HostByte
  <2>2. asked \in Seq(Said) /\ Len(asked) \in Nat
    BY LineTypesOf, LenProperties
  <2>3. Len(Done) \in Nat
    BY <1>1, DoneType
  <2>4. Len(Done) \in 0 .. Len(asked)
    BY <2>1, <2>2, <2>3
  <2>5. NotSpelt'
    <3> DEFINE n == Len(Done)
    <3>1. n \in 0 .. Len(asked) /\ asked' = SubSeq(asked, n + 1, Len(asked))
      BY <2>1, <2>4
    <3> HIDE DEF n
    <3>2. ~Spelt(SubSeq(asked, n + 1, Len(asked)))
      BY <2>2, <3>1, SpeltLess DEF NotSpelt
    <3> QED BY <3>1, <3>2 DEF NotSpelt, Spelt
  <2> QED BY <2>1, <2>5
<1>2. CASE Open \/ OpenFails \/ HostReply \/ Type \/ Unplug \/ UNCHANGED vars
  <2>1. asked' = asked
    BY <1>2, UnplugTypes DEF Open, OpenFails, HostReply, Type, vars
  <2>2. NotSpelt'
    BY <2>1 DEF NotSpelt, Spelt
  <2> QED BY <1>2, <2>2, QuietLine
<1> QED BY <1>1, <1>2, ComputerLine, ResetLine DEF Next

\* When the line comes to rest, it is as if the computer had not printed anything yet.
LEMMA RestLine ==
    ASSUME tok' = NewTokenizer, up' = <<>>, out' = <<>>, asked' = <<>>
    PROVE  LineInv' /\ NotSpelt'
<1>1. asked' \in Seq(Said) /\ Parted(asked')
  BY EmptySeq, NoText DEF Parted
<1>2. tok'.state = "magic" /\ Pre(tok') = <<>> /\ Shape(tok')
  <2>1. tok'.state = "magic" /\ tok'.matched = 0
    BY DEF NewTokenizer
  <2>2. SubSeq(Magic, 1, 0) = <<>>
    BY SubSeqEmpty
  <2> QED BY <2>1, <2>2 DEF Pre, Potential, Shape
<1>3. Unprinted' = <<>> /\ Unasked' = <<>>
  BY DEF Unprinted, Unasked
<1>4. Cat(<<>>, Cat(<<>>, <<>>)) = Stream(<<>>) /\ Cat(<<>>, Texts(<<>>)) = <<>>
  <2>1. Cat(<<>>, <<>>) = <<>>
    BY NoText, CatEmpty
  <2> QED BY <2>1, NoText
<1>5. OnTheLine(<<>>)'
  BY <1>2, <1>3, <1>4 DEF OnTheLine, Cat, Begun
<1>6. NotSpelt'
  <2>1. Len(asked') = 0
    BY EmptySeq
  <2> QED BY <2>1, MagicSize DEF NotSpelt, Spelt
<1> QED BY <1>1, <1>2, <1>5, <1>6, NoText DEF LineInv

\* The invariant of the line holds whenever it is not astray.
LinkInv ==
    /\ astray => asked = <<>>
    /\ ~astray => LineInv /\ NotSpelt

\* Every step keeps it, and what the host does is what was asked first.
LEMMA StepLink ==
    ASSUME MagicApart, TypeInv, LinkInv, [Next]_vars
    PROVE  /\ LinkInv'
           /\ [HostByte /\ ~astray => Len(Done) <= Len(asked) /\ SubSeq(asked, 1, Len(Done)) = Done]_vars
<1>1. HostByte /\ ~astray => Len(Done) <= Len(asked) /\ SubSeq(asked, 1, Len(Done)) = Done
  BY HostLine DEF LinkInv
<1>2. HostByte /\ astray => asked' = <<>>
  <2> SUFFICES ASSUME HostByte, astray PROVE asked' = <<>>
    OBVIOUS
  <2>1. asked = <<>> /\ Len(asked) = 0 /\ asked' = SubSeq(asked, Len(Done) + 1, Len(asked))
    BY EmptySeq DEF LinkInv, HostByte
  <2>2. Len(Done) \in Nat
    BY DoneType
  <2> DEFINE k == Len(Done)
  <2> HIDE DEF k
  <2>3. k \in Nat /\ asked' = SubSeq(<<>>, k + 1, 0)
    BY <2>1, <2>2 DEF k
  <2> QED BY <2>3, SubSeqEmpty
<1>3. ASSUME astray' PROVE asked' = <<>>
  <2>1. CASE HostByte
    BY <1>2, <1>3, <2>1 DEF HostByte
  <2>2. CASE Unplug
    BY <1>3, <2>2 DEF Unplug
  <2>3. CASE Open \/ OpenFails \/ HostReply \/ Type \/ SendByte \/ ReceiveByte \/ UNCHANGED vars
    BY <1>3, <2>3 DEF Open, OpenFails, HostReply, Type, SendByte, ReceiveByte, vars, LinkInv
  <2>4. CASE Reset
    BY <1>3, <2>4 DEF Reset, Expect
  <2>5. CASE ReadKey \/ StartInput \/ InputKey \/ EndInput \/ Return
    BY <1>3, <2>5 DEF ReadKey, StartInput, InputKey, EndInput, Return, Say, Record, Expect
  <2>6. CASE \E s \in Sectors : DiskRead(s) \/ \E d \in Data : DiskWrite(s, d)
    BY <1>3, <2>6 DEF DiskRead, DiskWrite, Record, Expect
  <2> QED BY <2>1, <2>2, <2>3, <2>4, <2>5, <2>6 DEF Next, Computer
<1>4. ASSUME astray, ~astray' PROVE HostByte
  <2>1. ~Unplug
    BY <1>4 DEF Unplug
  <2>2. ~(Open \/ OpenFails \/ HostReply \/ Type \/ SendByte \/ ReceiveByte \/ UNCHANGED vars)
    BY <1>4 DEF Open, OpenFails, HostReply, Type, SendByte, ReceiveByte, vars
  <2>3. ~Reset
    BY <1>4 DEF Reset, Expect
  <2>4. ~(ReadKey \/ StartInput \/ InputKey \/ EndInput \/ Return)
    BY <1>4 DEF ReadKey, StartInput, InputKey, EndInput, Return, Say, Record, Expect
  <2>5. ~(\E s \in Sectors : DiskRead(s) \/ \E d \in Data : DiskWrite(s, d))
    BY <1>4 DEF DiskRead, DiskWrite, Record, Expect
  <2> QED BY <2>1, <2>2, <2>3, <2>4, <2>5 DEF Next, Computer
<1>5. ASSUME ~astray' PROVE LineInv' /\ NotSpelt'
  <2>1. CASE astray
    <3>1. HostByte /\ asked' = <<>>
      BY <1>2, <1>4, <1>5, <2>1
    <3>2. tok' = NewTokenizer /\ up' = <<>> /\ out' = <<>>
      BY <1>5, <2>1, <3>1 DEF HostByte, computer
    <3> QED BY <3>1, <3>2, RestLine
  <2>2. CASE ~astray
    BY <1>5, <2>2, StepLine DEF LinkInv
  <2> QED BY <2>1, <2>2
<1> QED BY <1>1, <1>3, <1>5 DEF LinkInv

\* At the start.
LEMMA InitLink == Init => LinkInv
<1> SUFFICES ASSUME Init PROVE LinkInv
  OBVIOUS
<1>1. ~astray /\ NotSpelt
  BY MotdAssumption DEF Init, NotSpelt
<1> QED BY <1>1, InitLine DEF LinkInv

\* The host shows and executes what the computer printed and asked, in that order and
\* nothing else, whatever the keys and the user who types ahead do; and when the cable takes
\* bytes of the computer's with it, a reset cuts a packet or the console prints the magic
\* value itself, it does so again from the moment when the line has come to rest.
\* MagicApart is what main.c sees to: what it prints last before a call of the disk is
\* no byte of the magic value.
THEOREM HostDoes ==
    ASSUME MagicApart
    PROVE  Spec => HostDoesWhatWasAsked
<1>1. Init => TypeInv /\ LinkInv
  BY InitTypes, InitLink
<1>2. TypeInv /\ LinkInv /\ [Next]_vars => (TypeInv /\ LinkInv)'
  BY StepTypes, StepLink
<1>3. TypeInv /\ LinkInv /\ [Next]_vars
        => [HostByte /\ ~astray => Len(Done) <= Len(asked) /\ SubSeq(asked, 1, Len(Done)) = Done]_vars
  BY StepLink
<1> QED BY <1>1, <1>2, <1>3, PTL DEF Spec, HostDoesWhatWasAsked

-----------------------------------------------------------------------------
(* The file on the host.                                                    *)

\* Blocks, the requests for them, and the writes to one.
Block == [1 .. BlockLen -> Byte]
Read(s) == Command(<<R, s>>)
Write(s, d) == Command(<<W, s>> \o d)
Reads == {Read(s) : s \in Sectors}
WritesTo(s) == {Write(s, d) : d \in Block}

\* What a request of each kind consists of.
LEMMA WriteIs ==
    ASSUME NEW s, NEW d
    PROVE  Write(s, d).bytes = <<W, s>> \o d /\ Write(s, d) = Command(<<W, s>> \o d)
BY DEF Write, Command

\* The body of a write: the letter, the sector, the block.
LEMMA WriteParts ==
    ASSUME NEW s \in Sectors, NEW d \in Block
    PROVE  /\ Write(s, d) = Command(Write(s, d).bytes) /\ Write(s, d).kind = "command"
           /\ Write(s, d).bytes \in Seq(Byte) /\ Len(Write(s, d).bytes) = BlockLen + 2
           /\ Write(s, d).bytes[1] = W /\ Write(s, d).bytes[2] = s
           /\ \A k \in 1 .. BlockLen : Write(s, d).bytes[k + 2] = d[k]
<1> DEFINE h == <<W, s>>
           c == h \o d
<1>1. h \in Seq(Byte) /\ Len(h) = 2 /\ h[1] = W /\ h[2] = s
  BY Sizes, LinkAssumption
<1>2. d \in Seq(Byte) /\ Len(d) = BlockLen /\ BlockLen \in Nat
  BY Sizes DEF Block
<1> HIDE DEF h
<1>3. /\ c \in Seq(Byte) /\ Len(c) = Len(h) + Len(d)
      /\ \A i \in 1 .. Len(h) + Len(d) : c[i] = IF i <= Len(h) THEN h[i] ELSE d[i - Len(h)]
  BY <1>1, <1>2, ConcatProperties, Zenon
<1> HIDE DEF c
<1>4. Len(c) = BlockLen + 2 /\ c[1] = W /\ c[2] = s
  BY <1>1, <1>2, <1>3
<1>5. ASSUME NEW k \in 1 .. BlockLen PROVE c[k + 2] = d[k]
  <2>1. k + 2 \in 1 .. Len(h) + Len(d) /\ ~(k + 2 <= Len(h)) /\ (k + 2) - Len(h) = k
    BY <1>1, <1>2
  <2> QED BY <1>3, <2>1
<1>6. Write(s, d) = Command(c)
  BY DEF Write, c, h
<1>7. Command(c).bytes = c /\ Command(c).kind = "command"
  BY DEF Command
<1>8. Write(s, d).bytes = c
  BY <1>6, <1>7
<1> QED BY <1>3, <1>4, <1>5, <1>6, <1>7, <1>8

\* The body of a read: the letter and the sector.
LEMMA ReadParts ==
    ASSUME NEW s \in Sectors
    PROVE  /\ Read(s).bytes = <<R, s>> /\ Read(s).kind = "command" /\ Len(<<R, s>>) = 2
           /\ Read(s) = Command(<<R, s>>)
BY DEF Read, Command

\* Every request is one of the two, and none is console text.
LEMMA Kinds ==
    /\ \A i \in Requests : \/ \E s \in Sectors : i = Read(s)
                           \/ \E s \in Sectors, d \in Data : i = Write(s, d)
    /\ \A i \in Prints : i \notin Reads /\ \A s \in Sectors : i \notin WritesTo(s)
    /\ \A i \in Reads : \A s \in Sectors : i \notin WritesTo(s)
    /\ \A s \in Sectors : Read(s) \in Reads
    /\ Data \subseteq Block
    /\ \A s \in Sectors, q \in Sectors, d \in Block : s # q => Write(s, d) \notin WritesTo(q)
    /\ \A s \in Sectors, d \in Block, e \in Block :
          /\ Write(s, d) \in WritesTo(s) /\ Write(s, d) \notin Reads
          /\ Write(s, d) = Write(s, e) => d = e
<1>1. \A i \in Requests : \/ \E s \in Sectors : i = Read(s)
                          \/ \E s \in Sectors, d \in Data : i = Write(s, d)
  BY DEF Requests, Read, Write
<1>2. Data \subseteq Block
  BY LinkAssumption DEF Block
<1>3. ASSUME NEW i \in Prints
      PROVE  i \notin Reads /\ \A s \in Sectors : i \notin WritesTo(s)
  <2>1. i.kind = "text"
    BY DEF Prints
  <2>2. \A s \in Sectors : \A d \in Block : Write(s, d).kind = "command"
    BY DEF Write, Command
  <2>3. \A s \in Sectors : Read(s).kind = "command"
    BY ReadParts
  <2> QED BY <2>1, <2>2, <2>3 DEF Reads, WritesTo
<1>4. ASSUME NEW s \in Sectors, NEW q \in Sectors, NEW d \in Block
      PROVE  Read(s) # Write(q, d)
  <2>1. Len(Write(q, d).bytes) = BlockLen + 2
    BY WriteParts
  <2>2. Len(<<R, s>>) = 2 /\ BlockLen + 2 # 2
    BY Sizes
  <2> QED BY <2>1, <2>2, ReadParts
<1>5. ASSUME NEW s \in Sectors, NEW q \in Sectors, NEW d \in Block, NEW e \in Block, Write(s, d) = Write(q, e)
      PROVE  s = q /\ d = e
  <2>1. s = q
    BY <1>5, WriteParts
  <2>2. ASSUME NEW k \in 1 .. BlockLen PROVE d[k] = e[k]
    BY <1>5, WriteParts
  <2>3. d = [k \in 1 .. BlockLen |-> d[k]] /\ e = [k \in 1 .. BlockLen |-> e[k]]
    BY DEF Block
  <2> QED BY <2>1, <2>2, <2>3
<1>6. \A i \in Reads : \A s \in Sectors : i \notin WritesTo(s)
  BY <1>4 DEF Reads, WritesTo
<1>7. \A s \in Sectors : Read(s) \in Reads
  BY DEF Reads
<1>8. \A s \in Sectors, q \in Sectors, d \in Block : s # q => Write(s, d) \notin WritesTo(q)
  BY <1>5 DEF WritesTo
<1>9. \A s \in Sectors, d \in Block, e \in Block :
        Write(s, d) \in WritesTo(s) /\ Write(s, d) \notin Reads /\ (Write(s, d) = Write(s, e) => d = e)
  BY <1>4, <1>5 DEF WritesTo, Reads
<1> QED BY <1>1, <1>2, <1>3, <1>6, <1>7, <1>8, <1>9

\* A write changes its own block to what was written, and no other.
LEMMA StoredWritten ==
    ASSUME NEW f \in [Addresses -> Byte], NEW s \in Sectors, NEW q \in Sectors, NEW d \in Block
    PROVE  Stored(Written(f, <<W, s>> \o d), q) = IF q = s THEN d ELSE Stored(f, q)
<1>0. PICK t : t = Write(s, d).bytes
  OBVIOUS
<1>1. /\ t \in Seq(Byte) /\ Len(t) = BlockLen + 2 /\ t[2] = s
      /\ \A k \in 1 .. BlockLen : t[k + 2] = d[k]
  BY <1>0, WriteParts
<1> DEFINE c == SubSeq(t, 3, Len(t))
           g == Written(f, t)
           start == s * BlockLen
           base == q * BlockLen
<1>2. s \in Nat /\ q \in Nat /\ s \in Byte /\ q \in Byte
  BY Sizes, LinkAssumption
<1>3. BlockLen \in Nat /\ BlockLen > 0 /\ start \in Nat /\ base \in Nat
  BY <1>2, Sizes
<1>4. Len(c) = BlockLen /\ \A k \in 1 .. BlockLen : c[k] = d[k]
  <2>1. 2 \in 0 .. Len(t) /\ Len(t) - 2 = BlockLen
    BY <1>1, <1>3
  <2> DEFINE v == SubSeq(t, 2 + 1, Len(t))
  <2>2. Len(v) = Len(t) - 2 /\ \A k \in 1 .. Len(t) - 2 : v[k] = t[2 + k]
    BY <1>1, <2>1, PrefixAndRest
  <2>3. v = c
    OBVIOUS
  <2> HIDE DEF v, c
  <2>4. \A k \in 1 .. BlockLen : 2 + k = k + 2
    BY <1>3
  <2> QED BY <1>1, <2>1, <2>2, <2>3, <2>4
<1>5. g = [n \in Addresses |-> IF n >= start /\ n < start + Len(c) THEN c[(n - start) + 1] ELSE f[n]]
  BY <1>1 DEF Written
<1>6. q # s => base + BlockLen <= start \/ start + BlockLen <= base
  <2>1. CASE q < s
    <3>1. start = base + BlockLen + ((s - q) - 1) * BlockLen /\ ((s - q) - 1) * BlockLen \in Nat
      BY <1>2, <1>3, <2>1
    <3> DEFINE m == ((s - q) - 1) * BlockLen
    <3>2. m \in Nat /\ start = base + BlockLen + m
      BY <3>1
    <3> HIDE DEF m, start, base
    <3> QED BY <1>3, <3>2
  <2>2. CASE s < q
    <3>1. base = start + BlockLen + ((q - s) - 1) * BlockLen /\ ((q - s) - 1) * BlockLen \in Nat
      BY <1>2, <1>3, <2>2
    <3> DEFINE m == ((q - s) - 1) * BlockLen
    <3>2. m \in Nat /\ base = start + BlockLen + m
      BY <3>1
    <3> HIDE DEF m, start, base
    <3> QED BY <1>3, <3>2
  <2> QED BY <1>2, <2>1, <2>2
<1>7. ASSUME NEW k \in 1 .. BlockLen
      PROVE  g[base + (k - 1)] = IF q = s THEN d[k] ELSE f[base + (k - 1)]
  <2> DEFINE n == base + (k - 1)
  <2>1. n \in Addresses
    BY <1>2, BlockInside
  <2>2. g[n] = IF n >= start /\ n < start + Len(c) THEN c[(n - start) + 1] ELSE f[n]
    BY <1>5, <2>1
  <2>3. CASE q = s
    <3>1. n = start + (k - 1)
      BY <2>3
    <3> HIDE DEF start, base, g, c, n
    <3>2. n >= start /\ n < start + Len(c) /\ (n - start) + 1 = k
      BY <1>3, <1>4, <3>1
    <3> QED BY <1>4, <2>2, <2>3, <3>2 DEF n
  <2>4. CASE q # s
    <3> HIDE DEF start, base, g, c
    <3>1. ~(n >= start /\ n < start + Len(c))
      BY <1>3, <1>4, <1>6, <2>4
    <3> QED BY <2>2, <2>4, <3>1
  <2> QED BY <2>3, <2>4
<1>8. Stored(g, q) = [k \in 1 .. BlockLen |-> g[base + (k - 1)]]
      /\ Stored(f, q) = [k \in 1 .. BlockLen |-> f[base + (k - 1)]]
  BY DEF Stored
<1> HIDE DEF g, base, start, c
<1>9. Stored(g, q) = IF q = s THEN d ELSE Stored(f, q)
  <2>1. d = [k \in 1 .. BlockLen |-> d[k]]
    BY DEF Block
  <2> QED BY <1>7, <1>8, <2>1
<1> QED BY <1>0, <1>9, WriteIs DEF g

\* With the writes to block s that are still asked done, the block holds v.
UpToDate(a, s, stored, v) ==
    \/ stored = v /\ \A i \in 1 .. Len(a) : a[i] \notin WritesTo(s)
    \/ \E i \in 1 .. Len(a) :
         a[i] = Write(s, v) /\ \A j \in i + 1 .. Len(a) : a[j] \notin WritesTo(s)

\* Behind the writes to a block, anything else may be asked, and taken back.
LEMMA UpToDateMore ==
    ASSUME NEW a \in Seq(Said), NEW b \in Seq(Said), NEW s \in Sectors, NEW x, NEW v \in Block,
           \A i \in 1 .. Len(b) : b[i] \notin WritesTo(s)
    PROVE  UpToDate(Cat(a, b), s, x, v) <=> UpToDate(a, s, x, v)
<1> DEFINE c == a \o b
<1>1. /\ Len(c) = Len(a) + Len(b)
      /\ \A i \in 1 .. Len(a) + Len(b) : c[i] = IF i <= Len(a) THEN a[i] ELSE b[i - Len(a)]
  BY ConcatProperties, Zenon
<1> HIDE DEF c
<1>2. Len(a) \in Nat /\ Len(b) \in Nat
  BY LenProperties
<1>3. \A i \in 1 .. Len(a) : i \in 1 .. Len(c) /\ c[i] = a[i]
  BY <1>1, <1>2
<1>4. ASSUME NEW i \in 1 .. Len(c), ~(i <= Len(a)) PROVE c[i] \notin WritesTo(s)
  <2>1. i - Len(a) \in 1 .. Len(b) /\ c[i] = b[i - Len(a)]
    BY <1>1, <1>2, <1>4
  <2> QED BY <2>1
<1>5. ASSUME UpToDate(a, s, x, v) PROVE UpToDate(c, s, x, v)
  <2>1. CASE x = v /\ \A i \in 1 .. Len(a) : a[i] \notin WritesTo(s)
    <3>1. ASSUME NEW i \in 1 .. Len(c) PROVE c[i] \notin WritesTo(s)
      <4>1. i <= Len(a) => i \in 1 .. Len(a)
        BY <1>1, <1>2
      <4> QED BY <1>3, <1>4, <2>1, <4>1
    <3> QED BY <2>1, <3>1 DEF UpToDate
  <2>2. ASSUME NEW i \in 1 .. Len(a), a[i] = Write(s, v), \A j \in i + 1 .. Len(a) : a[j] \notin WritesTo(s)
        PROVE  UpToDate(c, s, x, v)
    <3>1. ASSUME NEW j \in i + 1 .. Len(c) PROVE c[j] \notin WritesTo(s)
      <4>1. j \in 1 .. Len(c) /\ (j <= Len(a) => j \in i + 1 .. Len(a) /\ j \in 1 .. Len(a))
        BY <1>1, <1>2
      <4> QED BY <1>3, <1>4, <2>2, <4>1
    <3> QED BY <1>3, <2>2, <3>1 DEF UpToDate
  <2> QED BY <1>5, <2>1, <2>2 DEF UpToDate
<1>6. ASSUME UpToDate(c, s, x, v) PROVE UpToDate(a, s, x, v)
  <2>1. CASE x = v /\ \A i \in 1 .. Len(c) : c[i] \notin WritesTo(s)
    BY <1>3, <2>1 DEF UpToDate
  <2>2. ASSUME NEW i \in 1 .. Len(c), c[i] = Write(s, v), \A j \in i + 1 .. Len(c) : c[j] \notin WritesTo(s)
        PROVE  UpToDate(a, s, x, v)
    <3>1. i <= Len(a)
      BY <1>4, <2>2, Kinds
    <3>2. i \in 1 .. Len(a) /\ a[i] = Write(s, v)
      BY <1>2, <1>3, <2>2, <3>1
    <3>3. ASSUME NEW j \in i + 1 .. Len(a) PROVE a[j] \notin WritesTo(s)
      <4>1. j \in i + 1 .. Len(c) /\ j \in 1 .. Len(a)
        BY <1>1, <1>2, <3>2
      <4> QED BY <1>3, <2>2, <4>1
    <3> QED BY <3>2, <3>3 DEF UpToDate
  <2> QED BY <1>6, <2>1, <2>2 DEF UpToDate
<1> QED BY <1>5, <1>6 DEF Cat, c

\* A write asked last is what the block will hold.
LEMMA UpToDateWrite ==
    ASSUME NEW a \in Seq(Said), NEW s \in Sectors, NEW x, NEW d \in Block, Write(s, d) \in Said
    PROVE  UpToDate(Append(a, Write(s, d)), s, x, d)
<1> DEFINE w == Write(s, d)
           c == Append(a, w)
<1>1. w \in Said
  OBVIOUS
<1> HIDE DEF w
<1>2. Len(c) = Len(a) + 1 /\ c[Len(a) + 1] = w /\ Len(a) \in Nat
  BY <1>1, AppendProperties, LenProperties
<1> HIDE DEF c
<1>3. Len(a) + 1 \in 1 .. Len(c) /\ (Len(a) + 1) + 1 .. Len(c) = {}
  BY <1>2
<1> QED BY <1>2, <1>3 DEF UpToDate, c, w

\* What is done first, and writes nothing to the block, leaves it as it was.
LEMMA UpToDateLess ==
    ASSUME NEW a \in Seq(Said), NEW n \in 0 .. Len(a), NEW s \in Sectors, NEW x, NEW v \in Block,
           \A i \in 1 .. n : a[i] \notin WritesTo(s), UpToDate(a, s, x, v)
    PROVE  UpToDate(SubSeq(a, n + 1, Len(a)), s, x, v)
<1> DEFINE c == SubSeq(a, n + 1, Len(a))
<1>1. Len(c) = Len(a) - n /\ (\A i \in 1 .. Len(a) - n : c[i] = a[n + i]) /\ Len(a) \in Nat
  BY PrefixAndRest, LenProperties
<1> HIDE DEF c
<1>2. CASE x = v /\ \A i \in 1 .. Len(a) : a[i] \notin WritesTo(s)
  <2>1. \A i \in 1 .. Len(c) : n + i \in 1 .. Len(a) /\ c[i] = a[n + i]
    BY <1>1
  <2> QED BY <1>2, <2>1 DEF UpToDate, c
<1>3. ASSUME NEW i \in 1 .. Len(a), a[i] = Write(s, v), \A j \in i + 1 .. Len(a) : a[j] \notin WritesTo(s)
      PROVE  UpToDate(c, s, x, v)
  <2>1. i \notin 1 .. n
    BY <1>3, Kinds
  <2>2. i - n \in 1 .. Len(c) /\ n + (i - n) = i
    BY <1>1, <2>1
  <2>3. c[i - n] = Write(s, v)
    BY <1>1, <1>3, <2>2
  <2>4. ASSUME NEW j \in (i - n) + 1 .. Len(c) PROVE c[j] \notin WritesTo(s)
    <3>1. n + j \in i + 1 .. Len(a) /\ j \in 1 .. Len(a) - n
      BY <1>1, <2>2
    <3> QED BY <1>1, <1>3, <3>1
  <2> QED BY <2>2, <2>3, <2>4 DEF UpToDate
<1> QED BY <1>2, <1>3 DEF UpToDate, c

\* What is done first and writes to the block leaves there what it writes.
LEMMA UpToDateDone ==
    ASSUME NEW a \in Seq(Said), a # <<>>, NEW s \in Sectors, NEW x, NEW v \in Block, NEW d \in Block,
           a[1] = Write(s, d), UpToDate(a, s, x, v)
    PROVE  UpToDate(SubSeq(a, 2, Len(a)), s, d, v)
<1> DEFINE c == SubSeq(a, 1 + 1, Len(a))
<1>0. Len(a) \in Nat /\ Len(a) # 0 /\ 1 \in 0 .. Len(a) /\ 1 + 1 = 2 /\ 1 \in 1 .. Len(a)
  BY LenProperties, EmptySeq
<1>1. Len(c) = Len(a) - 1 /\ \A i \in 1 .. Len(a) - 1 : c[i] = a[1 + i]
  BY <1>0, PrefixAndRest, ZenonT(30)
<1> HIDE DEF c
<1>2. PICK i \in 1 .. Len(a) : a[i] = Write(s, v) /\ \A j \in i + 1 .. Len(a) : a[j] \notin WritesTo(s)
  BY <1>0, Kinds DEF UpToDate
<1>3. ASSUME NEW j \in i .. Len(c) PROVE c[j] \notin WritesTo(s)
  <2>1. 1 + j \in i + 1 .. Len(a) /\ j \in 1 .. Len(a) - 1
    BY <1>0, <1>1
  <2> QED BY <1>1, <1>2, <2>1
<1>4. CASE i = 1
  <2>1. d = v
    BY <1>2, <1>4, Kinds
  <2> QED BY <1>0, <1>3, <1>4, <2>1 DEF UpToDate, c
<1>5. CASE i # 1
  <2>1. i - 1 \in 1 .. Len(c) /\ 1 + (i - 1) = i /\ (i - 1) + 1 = i /\ i - 1 \in 1 .. Len(a) - 1
    BY <1>0, <1>1, <1>5
  <2>2. c[i - 1] = Write(s, v)
    BY <1>1, <1>2, <2>1
  <2>3. \A j \in (i - 1) + 1 .. Len(c) : c[j] \notin WritesTo(s)
    BY <1>3, <2>1
  <2>4. UpToDate(c, s, d, v)
    BY <2>1, <2>2, <2>3 DEF UpToDate
  <2> QED BY <1>0, <2>4 DEF c
<1> QED BY <1>4, <1>5

\* What a byte makes the host do: it shows texts that were printed, answers a request to
\* read with the block, or does a write: the first things asked and not done yet.
LEMMA HostDone ==
    ASSUME TypeInv, LineInv, NotSpelt, HostByte
    PROVE  \/ /\ \E n \in 0 .. Len(asked) : /\ \A i \in 1 .. n : asked[i] \in Prints
                                            /\ asked' = SubSeq(asked, n + 1, Len(asked))
              /\ UNCHANGED <<reply, disk, host>>
           \/ /\ asked # <<>> /\ asked' = SubSeq(asked, 2, Len(asked)) /\ UNCHANGED host
              /\ \/ \E s \in Sectors : asked[1] = Read(s) /\ reply' = Stored(disk, s) /\ UNCHANGED disk
                 \/ \E s \in Sectors : \E d \in Data : /\ asked[1] = Write(s, d) /\ UNCHANGED reply
                                                       /\ disk' = Written(disk, Write(s, d).bytes)
<1> DEFINE b == Head(up)
           t == Token(tok, b)
           n == Len(Done)
<1>1. n <= Len(asked) /\ SubSeq(asked, 1, n) = Done
  BY HostLine
<1>2. /\ asked \in Seq(Said) /\ tok \in TokenizerType /\ up \in Seq(Byte) /\ up # <<>>
      /\ Len(asked) \in Nat /\ (tok.state = "size2" => tok.length \in Byte)
  BY LineTypesOf, LenProperties DEF HostByte, Shape
<1>3. b \in Byte
  BY <1>2, HeadAndTail
<1>4. Text(tok, b) \in Seq(Byte) /\ t \in Seq(Byte)
  BY <1>2, <1>3, TokenizerTypes
<1>5. asked' = SubSeq(asked, n + 1, Len(asked))
  BY DEF HostByte
<1>6. IF t = <<>> THEN UNCHANGED <<reply, disk, host>> ELSE Handle(t)
  BY DEF HostByte
<1>7. Done = IF t = <<>> THEN Texts(Text(tok, b)) ELSE <<Command(t)>>
  BY DEF Done
<1> HIDE DEF b, t, n
<1>8. CASE t = <<>>
  <2>1. Done \in Seq(Prints)
    BY <1>4, <1>7, <1>8, StreamTexts
  <2>2. n \in Nat /\ \A i \in 1 .. n : Done[i] \in Prints
    BY <2>1, LenProperties DEF n
  <2>3. n \in 0 .. Len(asked)
    BY <1>1, <1>2, <2>2
  <2>4. \A i \in 1 .. n : asked[i] = Done[i]
    BY <1>1, <1>2, <2>3, PrefixAndRest
  <2> QED BY <1>5, <1>6, <1>8, <2>2, <2>3, <2>4
<1>9. CASE t # <<>>
  <2>1. Done = <<Command(t)>> /\ n = 1
    BY <1>7, <1>9 DEF n
  <2>2. 1 \in 0 .. Len(asked) /\ asked # <<>>
    BY <1>1, <1>2, <2>1, EmptySeq
  <2>3. asked[1] = Command(t) /\ asked[1] \in Said
    <3>1. asked[1] = SubSeq(asked, 1, 1)[1]
      BY <1>2, <2>2, PrefixAndRest
    <3>2. 1 \in 1 .. Len(asked)
      BY <1>2, <2>2
    <3>3. asked[1] \in Said
      BY <1>2, <3>2, ElementOfSeq
    <3>4. SubSeq(asked, 1, 1) = <<Command(t)>>
      BY <1>1, <2>1
    <3> DEFINE v == SubSeq(asked, 1, 1)
               c == Command(t)
    <3> HIDE DEF v, c
    <3>5. v = <<c>> /\ asked[1] = v[1]
      BY <3>1, <3>4 DEF v, c
    <3>6. v[1] = c
      BY <3>5
    <3> QED BY <3>3, <3>5, <3>6 DEF c
  <2>4. asked[1].kind = "command" /\ asked[1].bytes = t
    BY <2>3 DEF Command
  <2>5. asked[1] \in Requests
    BY <2>3, <2>4 DEF Said, Prints
  <2>6. asked' = SubSeq(asked, 2, Len(asked))
    BY <1>5, <2>1
  <2>7. Handle(t)
    BY <1>6, <1>9
  <2>8. ASSUME NEW s \in Sectors, asked[1] = Read(s)
        PROVE  reply' = Stored(disk, s) /\ UNCHANGED <<disk, host>>
    <3>1. t = <<R, s>>
      BY <2>4, <2>8, ReadParts
    <3>2. t[1] = R /\ t[2] = s /\ Len(t) = 2
      BY <3>1
    <3> QED BY <2>7, <3>2, Sizes DEF Handle
  <2>9. ASSUME NEW s \in Sectors, NEW d \in Data, asked[1] = Write(s, d)
        PROVE  disk' = Written(disk, Write(s, d).bytes) /\ UNCHANGED <<reply, host>>
    <3>1. t = Write(s, d).bytes /\ d \in Block
      BY <2>4, <2>9, Kinds
    <3>2. t[1] = W /\ Len(t) = BlockLen + 2
      BY <3>1, WriteParts
    <3>3. Len(t) > 1
      BY <3>2, Sizes
    <3> QED BY <2>7, <3>1, <3>2, <3>3, Sizes DEF Handle
  <2>10. \/ \E s \in Sectors : asked[1] = Read(s)
         \/ \E s \in Sectors, d \in Data : asked[1] = Write(s, d)
    BY <2>5, Kinds
  <2> QED BY <2>2, <2>6, <2>8, <2>9, <2>10
<1> QED BY <1>8, <1>9

\* The host's file holds what the computer last wrote, but for the writes still asked.
DataInv == \A s \in Sectors : UpToDate(asked, s, Stored(disk, s), last[s])

\* At first the computer has written nothing, and the file holds what it held.
LEMMA InitData == Init => DataInv
<1> SUFFICES ASSUME Init, NEW s \in Sectors PROVE UpToDate(asked, s, Stored(disk, s), last[s])
  BY DEF DataInv
<1> DEFINE w == Motd \o Prompt
<1>1. w \in Seq(Byte)
  BY Sizes, ConcatProperties
<1> HIDE DEF w
<1>2. asked = Texts(w) /\ last[s] = Stored(disk, s)
  BY DEF Init, w
<1>3. Texts(w) \in Seq(Prints)
  BY <1>1, StreamTexts
<1>4. \A i \in 1 .. Len(asked) : asked[i] \in Prints
  BY <1>2, <1>3, LenProperties
<1> QED BY <1>2, <1>4, Kinds DEF UpToDate

\* A byte that the host reads: what it does to the file was asked first.
LEMMA HostData ==
    ASSUME TypeInv, LineInv, NotSpelt, HostByte, DataInv
    PROVE  DataInv'
<1> SUFFICES ASSUME NEW s \in Sectors PROVE UpToDate(asked, s, Stored(disk, s), last[s])'
  BY DEF DataInv
<1>1. asked \in Seq(Said) /\ last' = last /\ last[s] \in Block /\ disk \in [Addresses -> Byte]
      /\ Len(asked) \in Nat
  BY LineTypesOf, LenProperties DEF HostByte, computer, TypeInv, TypeOK, Block
<1>2. UpToDate(asked, s, Stored(disk, s), last[s])
  BY DEF DataInv
<1>3. ASSUME NEW n \in 0 .. Len(asked), \A i \in 1 .. n : asked[i] \notin WritesTo(s),
             asked' = SubSeq(asked, n + 1, Len(asked)), Stored(disk', s) = Stored(disk, s)
      PROVE  UpToDate(asked, s, Stored(disk, s), last[s])'
  <2>1. UpToDate(SubSeq(asked, n + 1, Len(asked)), s, Stored(disk, s), last[s])
    BY <1>1, <1>2, <1>3, UpToDateLess
  <2> QED BY <1>1, <1>3, <2>1
<1>4. ASSUME NEW n \in 0 .. Len(asked), \A i \in 1 .. n : asked[i] \in Prints,
             asked' = SubSeq(asked, n + 1, Len(asked)), UNCHANGED disk
      PROVE  UpToDate(asked, s, Stored(disk, s), last[s])'
  BY <1>3, <1>4, Kinds
<1>5. ASSUME asked # <<>>, asked' = SubSeq(asked, 2, Len(asked))
      PROVE  /\ 1 \in 0 .. Len(asked) /\ asked' = SubSeq(asked, 1 + 1, Len(asked))
             /\ \A i \in 1 .. 1 : i = 1
  BY <1>1, <1>5, EmptySeq
<1>6. ASSUME asked # <<>>, asked' = SubSeq(asked, 2, Len(asked)), UNCHANGED disk,
             NEW q \in Sectors, asked[1] = Read(q)
      PROVE  UpToDate(asked, s, Stored(disk, s), last[s])'
  <2>1. asked[1] \notin WritesTo(s)
    BY <1>6, Kinds
  <2> QED BY <1>3, <1>5, <1>6, <2>1
<1>7. ASSUME asked # <<>>, asked' = SubSeq(asked, 2, Len(asked)),
             NEW q \in Sectors, NEW d \in Data, asked[1] = Write(q, d),
             disk' = Written(disk, Write(q, d).bytes)
      PROVE  UpToDate(asked, s, Stored(disk, s), last[s])'
  <2>1. d \in Block
    BY Kinds
  <2>2. Stored(disk', s) = IF s = q THEN d ELSE Stored(disk, s)
    <3>1. Stored(Written(disk, <<W, q>> \o d), s) = IF s = q THEN d ELSE Stored(disk, s)
      BY <1>1, <2>1, StoredWritten
    <3>2. Write(q, d).bytes = <<W, q>> \o d
      BY WriteIs
    <3> QED BY <1>7, <3>1, <3>2
  <2>3. CASE s = q
    <3>1. UpToDate(SubSeq(asked, 2, Len(asked)), s, d, last[s])
      BY <1>1, <1>2, <1>7, <2>1, <2>3, UpToDateDone
    <3> QED BY <1>1, <1>7, <2>2, <2>3, <3>1
  <2>4. CASE s # q
    <3>1. asked[1] \notin WritesTo(s)
      BY <1>7, <2>1, <2>4, Kinds
    <3> QED BY <1>3, <1>5, <1>7, <2>2, <2>4, <3>1
  <2> QED BY <2>3, <2>4
<1> QED BY <1>4, <1>6, <1>7, HostDone

\* Printing changes nothing of it.
LEMMA TextsData ==
    ASSUME TypeInv, DataInv, NEW a \in Seq(Said), NEW t \in Seq(Byte), NEW u \in Seq(Byte),
           asked = Cat(a, Texts(t)), asked' = Cat(a, Texts(u)), UNCHANGED <<disk, last>>
    PROVE  DataInv'
<1> SUFFICES ASSUME NEW s \in Sectors PROVE UpToDate(asked, s, Stored(disk, s), last[s])'
  BY DEF DataInv
<1>1. last[s] \in Block
  BY DEF TypeInv, TypeOK, Block
<1>2. \A v \in Seq(Byte) : Texts(v) \in Seq(Said) /\ \A i \in 1 .. Len(Texts(v)) : Texts(v)[i] \notin WritesTo(s)
  <2> SUFFICES ASSUME NEW v \in Seq(Byte)
               PROVE  Texts(v) \in Seq(Said) /\ \A i \in 1 .. Len(Texts(v)) : Texts(v)[i] \notin WritesTo(s)
    OBVIOUS
  <2>1. Texts(v) \in Seq(Prints) /\ Texts(v) \in Seq(Said)
    BY StreamTexts
  <2>2. \A i \in 1 .. Len(Texts(v)) : Texts(v)[i] \in Prints
    BY <2>1, LenProperties
  <2> QED BY <2>1, <2>2, Kinds
<1>3. UpToDate(asked, s, Stored(disk, s), last[s])
  BY DEF DataInv
<1>4. UpToDate(a, s, Stored(disk, s), last[s])
  BY <1>1, <1>2, <1>3, UpToDateMore
<1>5. UpToDate(Cat(a, Texts(u)), s, Stored(disk, s), last[s])
  BY <1>1, <1>2, <1>4, UpToDateMore
<1> QED BY <1>5

\* A text that is printed.
LEMMA SayData ==
    ASSUME ~astray', TypeInv, LineInv, DataInv, NEW text \in Seq(Byte), NEW next, Say(text, next)
    PROVE  DataInv'
<1>1. asked' = Cat(asked, Texts(text)) /\ UNCHANGED <<disk, last>>
  BY Recorded DEF Say, server, Cat
<1>2. asked \in Seq(Said)
  BY LineTypesOf
<1>3. asked = Cat(asked, Texts(<<>>)) /\ <<>> \in Seq(Byte)
  BY <1>2, NoText, CatEmpty
<1> QED BY <1>1, <1>2, <1>3, TextsData

\* The computer's steps: a write that it asks is what it last wrote.
LEMMA ComputerData ==
    ASSUME ~astray', TypeInv, LineInv, DataInv, Computer
    PROVE  DataInv'
<1>0. /\ Newline \in Byte /\ Enter \in Byte /\ Line \in Seq(Byte) /\ Prompt \in Seq(Byte)
      /\ asked \in Seq(Said) /\ Len(asked) \in Nat /\ last \in [Sectors -> Block]
  BY Sizes, LineTypesOf, LenProperties DEF TypeInv, TypeOK, Block
<1>1. CASE SendByte \/ ReceiveByte
  BY <1>1 DEF SendByte, ReceiveByte, server, DataInv
<1>2. CASE ReadKey
  <2>1. Head(down) \in Byte
    BY <1>2, DownTail DEF ReadKey
  <2>2. <<Enter, Newline>> \in Seq(Byte) /\ <<Head(down)>> \in Seq(Byte)
    BY <1>0, <2>1
  <2> QED BY <1>2, <2>2, SayData DEF ReadKey
<1>3. CASE StartInput
  <2>1. <<Newline>> \in Seq(Byte)
    BY <1>0
  <2> QED BY <1>3, <2>1, SayData DEF StartInput
<1>4. CASE InputKey
  <2>1. <<Head(down)>> \in Seq(Byte)
    BY <1>4, DownTail DEF InputKey
  <2> QED BY <1>4, <2>1, SayData DEF InputKey
<1>5. CASE EndInput
  BY <1>0, <1>5, SayData DEF EndInput
<1>6. CASE Return
  BY <1>0, <1>6, SayData DEF Return
<1>7. ASSUME NEW s \in Sectors, NEW q \in Said, q \notin WritesTo(s),
             asked' = Append(asked, q), disk' = disk, last'[s] = last[s]
      PROVE  UpToDate(asked, s, Stored(disk, s), last[s])'
  <2>1. last[s] \in Block /\ UpToDate(asked, s, Stored(disk, s), last[s])
    BY <1>0 DEF DataInv
  <2> DEFINE z == <<q>>
  <2>2. z \in Seq(Said) /\ \A i \in 1 .. Len(z) : z[i] = q
    OBVIOUS
  <2>3. Append(asked, q) = Cat(asked, z)
    BY <1>0, AppendIsCat
  <2> HIDE DEF z
  <2>4. UpToDate(Cat(asked, z), s, Stored(disk, s), last[s])
    BY <1>0, <1>7, <2>1, <2>2, UpToDateMore
  <2> QED BY <1>7, <2>3, <2>4
<1>8. CASE \E s \in Sectors : DiskRead(s)
  <2>1. PICK s \in Sectors : DiskRead(s)
    BY <1>8
  <2>2. Record(<<Read(s)>>) /\ disk' = disk /\ last' = last
    BY <2>1 DEF DiskRead, Read, server
  <2>3. Read(s) \in Said
    BY DEF Read, Requests, Said
  <2>5. asked' = Append(asked, Read(s))
    BY <1>0, <2>2, <2>3, RecordedOne
  <2>4. \A q \in Sectors : Read(s) \notin WritesTo(q)
    BY Kinds
  <2> QED BY <1>7, <2>2, <2>3, <2>4, <2>5 DEF DataInv
<1>9. CASE \E s \in Sectors : \E d \in Data : DiskWrite(s, d)
  <2>1. PICK s \in Sectors : \E d \in Data : DiskWrite(s, d)
    BY <1>9
  <2>2. PICK d \in Data : DiskWrite(s, d)
    BY <2>1
  <2>4. Write(s, d) \in Said
    BY DEF Write, Requests, Said
  <2>3. asked' = Append(asked, Write(s, d)) /\ disk' = disk /\ last' = [last EXCEPT ![s] = d]
    <3>1. Record(<<Write(s, d)>>) /\ disk' = disk /\ last' = [last EXCEPT ![s] = d]
      BY <2>2 DEF DiskWrite, Write, server
    <3> QED BY <1>0, <2>4, <3>1, RecordedOne
  <2>5. d \in Block
    BY Kinds
  <2>6. UpToDate(asked, s, Stored(disk, s), last[s])'
    <3>1. last'[s] = d
      BY <1>0, <2>3
    <3> QED BY <1>0, <2>3, <2>4, <2>5, <3>1, UpToDateWrite
  <2>7. ASSUME NEW q \in Sectors, q # s PROVE UpToDate(asked, q, Stored(disk, q), last[q])'
    <3>1. last'[q] = last[q]
      BY <1>0, <2>3, <2>7
    <3>2. Write(s, d) \notin WritesTo(q)
      BY <2>5, <2>7, Kinds
    <3> QED BY <1>7, <2>3, <2>4, <3>1, <3>2
  <2> QED BY <2>6, <2>7 DEF DataInv
<1> QED BY <1>1, <1>2, <1>3, <1>4, <1>5, <1>6, <1>8, <1>9 DEF Computer

\* Every step.
LEMMA StepData ==
    ASSUME ~astray', TypeInv, LineInv, NotSpelt, DataInv, [Next]_vars
    PROVE  DataInv'
<1>1. CASE Reset
  <2>1. PICK a \in Seq(Said) : \E w \in Seq(Byte) : asked = Cat(a, Texts(out)) /\ asked' = Cat(a, Texts(w))
    BY <1>1, ResetLine
  <2>2. out \in Seq(Byte) /\ UNCHANGED <<disk, last>>
    BY <1>1, LineTypesOf DEF Reset, server
  <2> QED BY <2>1, <2>2, TextsData
<1>2. CASE Open \/ OpenFails \/ HostReply \/ Type \/ UNCHANGED vars
  BY <1>2 DEF Open, OpenFails, HostReply, Type, vars, server, computer, DataInv
<1>3. CASE Unplug
  <2>1. asked' = asked /\ UNCHANGED <<disk, last>>
    BY <1>3, UnplugTypes DEF Unplug, server, computer
  <2> QED BY <2>1 DEF DataInv
<1> QED BY <1>1, <1>2, <1>3, ComputerData, HostData DEF Next

\* The file on the host holds what the computer last wrote to each block, but for the
\* writes still on the line, and a later write to a block never comes before an earlier
\* one, although nobody answers a write (disk.c), the user types ahead and the computer is
\* reset: as long as no reset cuts a packet, no cable takes bytes of the computer's with it
\* and the console does not print the magic value, all of which lead the line astray.
THEOREM FileIsUpToDate ==
    ASSUME MagicApart
    PROVE  Spec /\ []~astray => []DataInv
<1>1. Init => TypeInv /\ LinkInv /\ DataInv
  BY InitTypes, InitLink, InitData
<1>2. TypeInv /\ LinkInv /\ DataInv /\ ~astray /\ (~astray)' /\ [Next]_vars
        => (TypeInv /\ LinkInv /\ DataInv)'
  BY StepTypes, StepLink, StepData DEF LinkInv
<1> QED BY <1>1, <1>2, PTL DEF Spec

-----------------------------------------------------------------------------
(* What disk_read returns to a user who waits.                              *)

\* No read is among what was asked.
NoReads(a) == \A i \in 1 .. Len(a) : a[i] \notin Reads

\* A read that is under way is either still on its way to the host, behind all that was
\* asked before, or the last thing the host has done: then what has come, what is on its
\* way and what comes after that, if the cable has not been pulled, are the block.
Awaited ==
    /\ asked # <<>> /\ asked[Len(asked)] = Read(sector)
    /\ \A i \in 1 .. Len(asked) - 1 : asked[i] \notin Reads
    /\ got = <<>> /\ down = <<>> /\ reply = <<>>
\* The block that was asked for is in three parts: what the computer has, what is on its
\* way, and what follows, e.
Comes(e) ==
    /\ Cat(got, Cat(down, e)) = last[sector] /\ Len(reply) <= Len(e)
    /\ port = "open" /\ reply # <<>> => e = reply
\* The host has done the read.
Answered == asked = <<>> /\ \E e \in Seq(Byte) : Comes(e)

\* Keys come only when the shell takes them, one at a time.
AKey == mode \in {"shell", "input"} /\ \E k \in Keys : down = <<k>>
\* The invariant of reads.
ReadInv ==
    /\ mode = "reading" => Awaited \/ Answered
    /\ mode # "reading" => reply = <<>> /\ NoReads(asked) /\ (down = <<>> \/ AKey)

\* What was asked in two parts without a read has none.
LEMMA NoReadsMore ==
    ASSUME NEW a \in Seq(Said), NEW b \in Seq(Said), NoReads(a), NoReads(b)
    PROVE  NoReads(Cat(a, b))
<1> DEFINE c == a \o b
<1>1. /\ Len(c) = Len(a) + Len(b)
      /\ \A i \in 1 .. Len(a) + Len(b) : c[i] = IF i <= Len(a) THEN a[i] ELSE b[i - Len(a)]
  BY ConcatProperties, Zenon
<1> HIDE DEF c
<1>2. Len(a) \in Nat /\ Len(b) \in Nat
  BY LenProperties
<1>3. ASSUME NEW i \in 1 .. Len(c) PROVE c[i] \notin Reads
  <2>1. i \in 1 .. Len(a) \/ (~(i <= Len(a)) /\ i - Len(a) \in 1 .. Len(b))
    BY <1>1, <1>2
  <2>2. i \in 1 .. Len(a) => i <= Len(a)
    BY <1>2
  <2> QED BY <1>1, <2>1, <2>2 DEF NoReads
<1> QED BY <1>3 DEF NoReads, Cat, c

\* Texts are no reads.
LEMMA NoReadsTexts ==
    ASSUME NEW a \in Seq(Said), NoReads(a), NEW t \in Seq(Byte)
    PROVE  NoReads(a \o Texts(t))
<1>1. Texts(t) \in Seq(Prints) /\ Texts(t) \in Seq(Said)
  BY StreamTexts
<1>2. NoReads(Texts(t))
  BY <1>1, LenProperties, Kinds DEF NoReads
<1> QED BY <1>1, <1>2, NoReadsMore DEF Cat

\* The tail of one key.
LEMMA OneKey ==
    ASSUME TypeInv, ReadInv, mode # "reading", down # <<>>
    PROVE  Tail(down) = <<>> /\ Head(down) \in Keys
<1>1. PICK k \in Keys : down = <<k>>
  BY DEF ReadInv, AKey
<1>2. Len(down) = 1 /\ Head(down) = k
  BY <1>1
<1>3. Tail(down) \in Seq(Byte) /\ Len(Tail(down)) = 0
  <2>1. down \in Seq(Byte)
    BY DEF TypeInv, TypeOK
  <2>2. Tail(down) \in Seq(Byte) /\ Len(Tail(down)) = Len(down) - 1
    BY <2>1, HeadTailProperties
  <2> QED BY <1>2, <2>2
<1> QED BY <1>2, <1>3, EmptySeq

\* A text that is printed, when no read is under way.
LEMMA SayRead ==
    ASSUME ~astray', TypeInv, LineInv, ReadInv, mode # "reading", NEW text \in Seq(Byte), Say(text, mode'),
           mode' # "reading", down' = <<>>
    PROVE  ReadInv'
<1>1. asked' = asked \o Texts(text) /\ reply' = reply
  BY Recorded DEF Say, server
<1>2. NoReads(asked) /\ reply = <<>> /\ asked \in Seq(Said)
  BY LineTypesOf DEF ReadInv
<1>3. NoReads(asked')
  BY <1>1, <1>2, NoReadsTexts
<1> QED BY <1>1, <1>2, <1>3 DEF ReadInv

\* What a byte that the computer takes of the answer does: the last one completes the block.
LEMMA ReceiveRead ==
    ASSUME TypeInv, LineInv, ReadInv, ReceiveByte
    PROVE  ReadInv' /\ (mode' = "command" => got' = last[sector])
<1>1. Answered /\ mode = "reading" /\ asked' = asked /\ down # <<>> /\ down' = Tail(down)
      /\ got' = Append(got, Head(down)) /\ UNCHANGED <<sector, last, reply, port>>
  BY DEF ReceiveByte, ReadInv, Awaited, server, cable
<1>2. PICK e \in Seq(Byte) : Comes(e)
  BY <1>1 DEF Answered
<1> DEFINE h == Head(down)
           r == Tail(down)
           g == Append(got, h)
<1>3. /\ got \in Seq(Byte) /\ down \in Seq(Byte) /\ h \in Byte /\ r \in Seq(Byte)
      /\ down = Cat(<<h>>, r) /\ reply \in Seq(Byte)
  BY <1>1, HeadAndTail DEF TypeInv, TypeOK, Cat
<1>4. last[sector] \in Seq(Byte) /\ Len(last[sector]) = BlockLen /\ BlockLen \in Nat
  <2>1. last[sector] \in [1 .. BlockLen -> Byte]
    BY DEF TypeInv, TypeOK
  <2> QED BY <2>1, Sizes
<1> HIDE DEF h, r, g
<1>5. g \in Seq(Byte)
  BY <1>3, AppendType DEF g
<1>6. Cat(g, Cat(r, e)) = last[sector]
  <2>1. Cat(Cat(<<h>>, r), e) = Cat(<<h>>, Cat(r, e)) /\ Cat(r, e) \in Seq(Byte)
    <3> DEFINE v == <<h>>
    <3>1. v \in Seq(Byte)
      BY <1>3
    <3> HIDE DEF v
    <3>2. Cat(Cat(v, r), e) = Cat(v, Cat(r, e)) /\ Cat(r, e) \in Seq(Byte)
      BY <1>3, <3>1, CatAssociative
    <3> QED BY <3>2 DEF v
  <2> DEFINE w == Cat(r, e)
  <2> HIDE DEF w
  <2>2. w \in Seq(Byte)
    BY <2>1 DEF w
  <2>3. Cat(got, Cat(<<h>>, w)) = Cat(Append(got, h), w)
    BY <1>3, <2>2, AppendCat
  <2>4. Cat(got, Cat(down, e)) = last[sector]
    BY <1>2 DEF Comes
  <2>5. Cat(down, e) = Cat(<<h>>, w)
    BY <1>3, <2>1 DEF w
  <2> QED BY <2>3, <2>4, <2>5 DEF g, w
<1>7. CASE Len(g) # BlockLen
  <2>1. mode' = "reading" /\ mode' # "command"
    BY <1>1, <1>7 DEF ReceiveByte, g, h
  <2>2. Comes(e)'
    BY <1>1, <1>2, <1>6 DEF Comes, g, h, r
  <2> QED BY <1>1, <2>1, <2>2 DEF ReadInv, Answered
<1>8. CASE Len(g) = BlockLen
  <2> DEFINE w == Cat(r, e)
  <2>1. w \in Seq(Byte) /\ Len(w) = Len(r) + Len(e)
    <3>1. r \o e \in Seq(Byte) /\ Len(r \o e) = Len(r) + Len(e)
      BY <1>3, ConcatProperties, Zenon
    <3> QED BY <3>1 DEF Cat
  <2> HIDE DEF w
  <2>2. Len(last[sector]) = Len(g) + Len(w)
    <3>1. Len(g \o w) = Len(g) + Len(w)
      BY <1>5, <2>1, ConcatProperties, Zenon
    <3> QED BY <1>6, <3>1 DEF Cat, w
  <2>3. Len(r) \in Nat /\ Len(e) \in Nat /\ Len(w) \in Nat /\ Len(reply) \in Nat
    BY <1>3, <2>1, LenProperties
  <2>4. Len(w) = 0 /\ Len(r) = 0 /\ Len(e) = 0 /\ Len(reply) <= Len(e)
    <3>1. Len(reply) <= Len(e)
      BY <1>2 DEF Comes
    <3> QED BY <1>4, <1>8, <2>1, <2>2, <2>3, <3>1
  <2>5. w = <<>> /\ r = <<>> /\ reply = <<>>
    BY <1>3, <2>1, <2>3, <2>4, EmptySeq
  <2>6. g = last[sector]
    BY <1>5, <1>6, <2>5, CatEmpty DEF w
  <2>7. mode' = "command" /\ got' = g /\ down' = <<>> /\ reply' = <<>>
    BY <1>1, <1>8, <2>5 DEF ReceiveByte, g, h, r
  <2>8. NoReads(asked')
    <3>1. asked' = <<>>
      BY <1>1 DEF Answered
    <3> QED BY <3>1, EmptySeq DEF NoReads
  <2> QED BY <2>6, <2>7, <2>8 DEF ReadInv
<1> QED BY <1>7, <1>8

\* The computer's steps: a read begins, goes on, or ends with the block.
LEMMA ComputerRead ==
    ASSUME ~astray', TypeInv, LineInv, ReadInv, Computer
    PROVE  ReadInv' /\ (mode = "reading" /\ mode' = "command" => got' = last[sector])
<1>0. /\ Newline \in Byte /\ Enter \in Byte /\ Line \in Seq(Byte) /\ Prompt \in Seq(Byte)
      /\ asked \in Seq(Said) /\ Len(asked) \in Nat
  BY Sizes, LineTypesOf, LenProperties
<1>1. CASE SendByte
  <2>1. UNCHANGED <<got, sector, last, down, reply, port, asked>>
    BY <1>1 DEF SendByte, server, cable
  <2>2. \/ mode' = mode
        \/ mode = "writing" /\ mode' = "command"
    BY <1>1 DEF SendByte
  <2> QED BY <2>1, <2>2 DEF ReadInv, Awaited, Answered, Comes, AKey
<1>2. CASE ReadKey
  <2>1. mode = "shell" /\ down # <<>> /\ down' = Tail(down)
    BY <1>2 DEF ReadKey
  <2>2. down' = <<>> /\ Head(down) \in Byte
    BY <2>1, OneKey, DownTail
  <2>3. <<Enter, Newline>> \in Seq(Byte) /\ <<Head(down)>> \in Seq(Byte)
    BY <1>0, <2>2
  <2>4. Say(<<Enter, Newline>>, mode') \/ Say(<<Head(down)>>, mode')
    BY <1>2, SayText DEF ReadKey, Say
  <2>5. mode' # "reading"
    BY <1>2 DEF ReadKey, Say
  <2> QED BY <2>1, <2>2, <2>3, <2>4, <2>5, SayRead
<1>3. CASE StartInput
  <2>1. mode = "command" /\ down' = down /\ Say(<<Newline>>, mode') /\ mode' # "reading"
    BY <1>3 DEF StartInput, Say
  <2>2. <<Newline>> \in Seq(Byte) /\ down' = <<>>
    BY <1>0, <2>1 DEF ReadInv, AKey
  <2> QED BY <2>1, <2>2, SayRead
<1>4. CASE InputKey
  <2>1. mode = "input" /\ down # <<>> /\ down' = Tail(down) /\ Say(<<Head(down)>>, mode') /\ mode' # "reading"
    BY <1>4 DEF InputKey, Say
  <2>2. down' = <<>> /\ <<Head(down)>> \in Seq(Byte)
    BY <2>1, OneKey, DownTail
  <2> QED BY <2>1, <2>2, SayRead
<1>5. CASE EndInput
  <2>1. mode = "entered" /\ down' = down /\ Say(Line, mode') /\ mode' # "reading"
    BY <1>5 DEF EndInput, Say
  <2>2. down' = <<>>
    BY <2>1 DEF ReadInv, AKey
  <2> QED BY <1>0, <2>1, <2>2, SayRead
<1>6. CASE Return
  <2>1. mode \in {"command", "entered"} /\ down' = down /\ Say(Prompt, mode') /\ mode' # "reading"
    BY <1>6 DEF Return, Say
  <2>2. down' = <<>>
    BY <2>1 DEF ReadInv, AKey
  <2> QED BY <1>0, <2>1, <2>2, SayRead
<1>7. CASE ReceiveByte
  BY <1>7, ReceiveRead
<1>8. CASE \E s \in Sectors : DiskRead(s)
  <2>1. PICK s \in Sectors : DiskRead(s)
    BY <1>8
  <2>2. /\ mode = "command" /\ mode' = "reading" /\ sector' = s /\ got' = <<>>
        /\ Record(<<Read(s)>>) /\ UNCHANGED <<reply, down>>
    BY <2>1 DEF DiskRead, Read, server
  <2>3. down = <<>> /\ reply = <<>> /\ NoReads(asked)
    BY <2>2 DEF ReadInv, AKey
  <2>4. Read(s) \in Said
    BY DEF Read, Requests, Said
  <2> DEFINE q == Read(s)
             a == Append(asked, q)
  <2> HIDE DEF q
  <2>5. /\ Len(a) = Len(asked) + 1 /\ a[Len(asked) + 1] = q /\ a \in Seq(Said)
        /\ \A i \in 1 .. Len(asked) : a[i] = asked[i]
    BY <1>0, <2>4, AppendProperties DEF q
  <2> HIDE DEF a
  <2>6. a # <<>> /\ a[Len(a)] = q /\ \A i \in 1 .. Len(a) - 1 : a[i] \notin Reads
    <3>1. Len(a) # 0 /\ Len(a) - 1 = Len(asked)
      BY <1>0, <2>5
    <3> QED BY <2>3, <2>5, <3>1, EmptySeq DEF NoReads
  <2>7. asked' = a /\ Read(sector') = q
    <3>1. asked' = Append(asked, Read(s))
      BY <1>0, <2>2, <2>4, RecordedOne
    <3> QED BY <2>2, <3>1 DEF a, q
  <2>8. (Read(sector))' = q
    BY <2>7 DEF Read, Command
  <2>9. Awaited'
    BY <2>2, <2>3, <2>6, <2>7, <2>8 DEF Awaited
  <2> QED BY <2>2, <2>9 DEF ReadInv
<1>9. CASE \E s \in Sectors : \E d \in Data : DiskWrite(s, d)
  <2>1. PICK s \in Sectors : \E d \in Data : DiskWrite(s, d)
    BY <1>9
  <2>2. PICK d \in Data : DiskWrite(s, d)
    BY <2>1
  <2>3. /\ Record(<<Write(s, d)>>) /\ mode = "command" /\ mode' = "writing"
        /\ UNCHANGED <<reply, down>>
    BY <2>2 DEF DiskWrite, Write, server
  <2>4. down = <<>> /\ reply = <<>> /\ NoReads(asked)
    BY <2>3 DEF ReadInv, AKey
  <2> DEFINE q == Write(s, d)
             z == <<q>>
  <2>5. q \in Said /\ q \notin Reads
    BY Kinds DEF Write, Requests, Said
  <2> HIDE DEF q
  <2>6. z \in Seq(Said) /\ NoReads(z)
    BY <2>5 DEF NoReads
  <2>7. Append(asked, q) = Cat(asked, z)
    BY <1>0, <2>5, AppendIsCat
  <2> HIDE DEF z
  <2>8. NoReads(Cat(asked, z))
    BY <1>0, <2>4, <2>6, NoReadsMore
  <2>9. NoReads(asked')
    <3>1. q \in Said /\ Record(<<q>>)
      BY <2>3, <2>5 DEF q
    <3>2. asked' = Append(asked, q)
      BY <1>0, <3>1, RecordedOne
    <3> QED BY <2>7, <2>8, <3>2
  <2> QED BY <2>3, <2>4, <2>9 DEF ReadInv
<1>10. mode = "reading" /\ mode' = "command" => ReceiveByte
  BY DEF Computer, SendByte, ReadKey, StartInput, InputKey, EndInput, Return, DiskRead, DiskWrite
<1>11. ReceiveByte => (mode = "reading" /\ mode' = "command" => got' = last[sector])
  BY ReceiveRead
<1> QED BY <1>1, <1>2, <1>3, <1>4, <1>5, <1>6, <1>7, <1>8, <1>9, <1>10, <1>11 DEF Computer

\* The host answers a read with what was last written to the block.
LEMMA HostRead ==
    ASSUME TypeInv, LineInv, NotSpelt, DataInv, ReadInv, HostByte
    PROVE  ReadInv'
<1>0. /\ UNCHANGED <<mode, got, sector, last, down, port>> /\ reply = <<>>
      /\ asked \in Seq(Said) /\ Len(asked) \in Nat /\ sector \in Sectors
  BY LineTypesOf, LenProperties DEF HostByte, computer, TypeInv, TypeOK
<1>1. ASSUME NEW n \in 0 .. Len(asked), NoReads(asked) \/ n < Len(asked),
             \A i \in 1 .. n : asked[i] \notin Reads,
             asked' = SubSeq(asked, n + 1, Len(asked)), reply' = reply
      PROVE  ReadInv'
  <2> DEFINE a == SubSeq(asked, n + 1, Len(asked))
  <2>1. a \in Seq(Said) /\ Len(a) = Len(asked) - n /\ \A i \in 1 .. Len(asked) - n : a[i] = asked[n + i]
    BY <1>0, PrefixAndRest
  <2> HIDE DEF a
  <2>2. asked' = a
    BY <1>1 DEF a
  <2>3. CASE mode # "reading"
    <3>1. NoReads(asked)
      BY <2>3 DEF ReadInv
    <3>2. \A i \in 1 .. Len(a) : n + i \in 1 .. Len(asked) /\ i \in 1 .. Len(asked) - n
      BY <1>0, <2>1
    <3>3. NoReads(a)
      BY <2>1, <3>1, <3>2 DEF NoReads
    <3> QED BY <1>0, <1>1, <2>2, <2>3, <3>3 DEF ReadInv, AKey
  <2>4. CASE mode = "reading" /\ Answered
    <3>1. asked = <<>> /\ Len(asked) = 0
      BY <2>4, EmptySeq DEF Answered
    <3>2. a = <<>>
      BY <1>0, <2>1, <3>1, EmptySeq
    <3> QED BY <1>0, <1>1, <2>2, <2>4, <3>1, <3>2 DEF ReadInv, Answered, Comes
  <2>5. CASE mode = "reading" /\ Awaited
    <3>1. Len(asked) # 0 /\ asked[Len(asked)] \in Reads
      BY <1>0, <2>5, EmptySeq, Kinds DEF Awaited
    <3>2. n < Len(asked)
      BY <1>0, <1>1, <3>1 DEF NoReads
    <3>3. /\ Len(a) # 0 /\ Len(asked) - n \in 1 .. Len(asked) - n /\ n + (Len(asked) - n) = Len(asked)
          /\ \A i \in 1 .. Len(a) - 1 : n + i \in 1 .. Len(asked) - 1 /\ i \in 1 .. Len(asked) - n
      BY <1>0, <2>1, <3>2
    <3>4. a # <<>> /\ a[Len(a)] = asked[Len(asked)] /\ \A i \in 1 .. Len(a) - 1 : a[i] \notin Reads
      BY <2>1, <2>5, <3>3, EmptySeq DEF Awaited
    <3>5. (Read(sector))' = Read(sector)
      BY <1>0 DEF Read, Command
    <3>6. Awaited'
      BY <1>0, <1>1, <2>2, <2>5, <3>4, <3>5 DEF Awaited
    <3> QED BY <1>0, <2>5, <3>6 DEF ReadInv
  <2> QED BY <2>3, <2>4, <2>5 DEF ReadInv
<1>2. ASSUME NEW n \in 0 .. Len(asked), \A i \in 1 .. n : asked[i] \in Prints,
             asked' = SubSeq(asked, n + 1, Len(asked)), reply' = reply
      PROVE  ReadInv'
  <2>1. \A i \in 1 .. n : asked[i] \notin Reads
    BY <1>2, Kinds
  <2>2. NoReads(asked) \/ n < Len(asked)
    BY <1>0, <2>1 DEF NoReads
  <2> QED BY <1>1, <1>2, <2>1, <2>2
<1>3. ASSUME asked # <<>>, asked' = SubSeq(asked, 2, Len(asked)), reply' = reply,
             asked[1] \notin Reads
      PROVE  ReadInv'
  <2>1. 1 \in 0 .. Len(asked) /\ 1 + 1 = 2 /\ \A i \in 1 .. 1 : i = 1
    BY <1>0, <1>3, EmptySeq
  <2>2. NoReads(asked) \/ 1 < Len(asked)
    BY <1>0, <1>3, <2>1 DEF NoReads
  <2> QED BY <1>1, <1>3, <2>1, <2>2
<1>4. ASSUME asked # <<>>, asked' = SubSeq(asked, 2, Len(asked)), NEW s \in Sectors,
             asked[1] = Read(s), reply' = Stored(disk, s), UNCHANGED disk
      PROVE  ReadInv'
  <2>1. Len(asked) # 0 /\ 1 \in 1 .. Len(asked) /\ asked[1] \in Reads
    BY <1>0, <1>4, EmptySeq, Kinds
  <2>2. mode = "reading" /\ Awaited
    BY <1>4, <2>1 DEF ReadInv, NoReads, Answered
  <2>3. Len(asked) = 1
    <3>1. 1 \notin 1 .. Len(asked) - 1
      BY <2>1, <2>2 DEF Awaited
    <3> QED BY <1>0, <2>1, <3>1
  <2>4. s = sector
    <3>1. Read(s) = Read(sector)
      BY <1>4, <2>2, <2>3 DEF Awaited
    <3>2. <<R, s>> = <<R, sector>>
      BY <1>0, <3>1, ReadParts
    <3> QED BY <3>2
  <2>5. Stored(disk, s) = last[sector]
    <3>1. asked[1] \notin WritesTo(s)
      BY <2>1, Kinds
    <3>2. \A i \in 1 .. Len(asked) : i = 1
      BY <2>3
    <3>3. UpToDate(asked, s, Stored(disk, s), last[s]) /\ last[s] \in Block
      BY DEF DataInv, TypeInv, TypeOK, Block
    <3>4. Write(s, last[s]) \in WritesTo(s)
      BY <3>3, Kinds
    <3> QED BY <2>4, <3>1, <3>2, <3>3, <3>4 DEF UpToDate
  <2>6. Stored(disk, s) \in Seq(Byte)
    BY StoredType, LinkAssumption DEF TypeInv, TypeOK
  <2>7. asked' = <<>>
    <3> DEFINE a == SubSeq(asked, 1 + 1, Len(asked))
    <3>1. 1 \in 0 .. Len(asked) /\ 1 + 1 = 2
      BY <2>3
    <3>2. a \in Seq(Said) /\ Len(a) = Len(asked) - 1
      BY <1>0, <3>1, PrefixAndRest, ZenonT(30)
    <3> HIDE DEF a
    <3>3. a = <<>>
      BY <2>3, <3>2, EmptySeq
    <3> QED BY <1>4, <3>1, <3>3 DEF a
  <2>0. PICK e : e = Stored(disk, s)
    OBVIOUS
  <2>8. Cat(<<>>, Cat(<<>>, e)) = e /\ e \in Seq(Byte) /\ Len(e) \in Nat
    BY <2>0, <2>6, CatEmpty, LenProperties
  <2>9. /\ got' = <<>> /\ down' = <<>> /\ reply' = e /\ last'[sector'] = e /\ mode' = mode
    BY <1>0, <1>4, <2>0, <2>2, <2>5 DEF Awaited
  <2>10. Comes(e)'
    BY <2>8, <2>9 DEF Comes
  <2> QED BY <2>2, <2>7, <2>8, <2>9, <2>10 DEF ReadInv, Answered
<1>5. ASSUME NEW s \in Sectors, NEW d \in Data, asked[1] = Write(s, d)
      PROVE  asked[1] \notin Reads
  BY <1>5, Kinds
<1> QED BY <1>2, <1>3, <1>4, <1>5, HostDone

\* A byte of the answer goes on its way.
LEMMA ReplyRead == TypeInv /\ ReadInv /\ HostReply => ReadInv'
<1> SUFFICES ASSUME TypeInv, ReadInv, HostReply PROVE ReadInv'
  OBVIOUS
<1>1. reply # <<>> /\ UNCHANGED <<mode, got, sector, last, port, asked>>
  BY DEF HostReply, computer, cable
<1>2. mode = "reading" /\ Answered
  BY <1>1 DEF ReadInv, Awaited
<1>3. CASE port = "closed" /\ UNCHANGED <<down, reply>>
  BY <1>1, <1>2, <1>3 DEF ReadInv, Answered, Comes
<1>4. CASE port = "open" /\ down' = Append(down, Head(reply)) /\ reply' = Tail(reply)
  <2>1. PICK e \in Seq(Byte) : Comes(e)
    BY <1>2 DEF Answered
  <2>2. e = reply
    BY <1>1, <1>4, <2>1 DEF Comes
  <2>3. PICK r : r = Tail(reply)
    OBVIOUS
  <2>4. PICK h : h = Head(reply)
    OBVIOUS
  <2>5. /\ got \in Seq(Byte) /\ down \in Seq(Byte) /\ reply \in Seq(Byte) /\ r \in Seq(Byte)
        /\ h \in Byte /\ reply = Cat(<<h>>, r)
    BY <1>1, <2>3, <2>4, HeadAndTail DEF TypeInv, TypeOK, Cat
  <2>6. Cat(down, Cat(<<h>>, r)) = Cat(Append(down, h), r)
    BY <2>5, AppendCat
  <2>7. Cat(got, Cat(Append(down, h), r)) = last[sector]
    BY <2>1, <2>2, <2>5, <2>6 DEF Comes
  <2>8. Len(r) \in Nat /\ reply' = r /\ down' = Append(down, h)
    BY <1>4, <2>3, <2>4, <2>5, LenProperties
  <2>9. Comes(r)'
    BY <1>1, <2>7, <2>8 DEF Comes
  <2> QED BY <1>1, <1>2, <2>5, <2>9 DEF ReadInv, Answered
<1> QED BY <1>3, <1>4 DEF HostReply

\* With the cable, the end of what is on its way goes: the block stays the same, only less
\* of it comes. (Here nothing goes that the computer sent.)
LEMMA UnplugRead ==
    ASSUME ~astray', TypeInv, ReadInv, Unplug
    PROVE  ReadInv'
<1>1. /\ UNCHANGED <<mode, got, sector, last, reply, asked>> /\ port' = "closed"
      /\ got \in Seq(Byte) /\ down \in Seq(Byte) /\ Len(down) \in Nat
  BY LenProperties, UnplugTypes DEF Unplug, computer, server, TypeInv, TypeOK
<1>2. PICK n \in 0 .. Len(down) : down' = SubSeq(down, 1, n)
  BY DEF Unplug
<1>3. PICK p : p = SubSeq(down, 1, n)
  OBVIOUS
<1>4. PICK r : r = SubSeq(down, n + 1, Len(down))
  OBVIOUS
<1>5. /\ p \in Seq(Byte) /\ r \in Seq(Byte) /\ down = Cat(p, r) /\ Len(p) = n
      /\ \A i \in 1 .. n : p[i] = down[i]
  BY <1>1, <1>3, <1>4, PrefixAndRest, ZenonT(30) DEF Cat
<1>6. down = <<>> => p = <<>>
  <2>1. down = <<>> => Len(p) = 0
    BY <1>2, <1>5, EmptySeq
  <2> QED BY <1>5, <2>1, EmptySeq
<1>7. CASE mode # "reading"
  <2>1. ASSUME NEW k, down = <<k>> PROVE p = <<>> \/ p = <<k>>
    <3>1. Len(down) = 1 /\ down[1] = k
      BY <2>1
    <3>2. CASE n = 0
      BY <1>5, <3>2, EmptySeq
    <3>3. CASE n = 1
      <4>1. Len(p) = 1 /\ p[1] = k
        BY <1>5, <3>1, <3>3
      <4> QED BY <1>5, <4>1
    <3> QED BY <3>1, <3>2, <3>3
  <2>2. p = <<>> \/ (mode \in {"shell", "input"} /\ \E k \in Keys : p = <<k>>)
    <3>1. CASE down = <<>>
      BY <1>6, <3>1
    <3>2. CASE AKey
      <4>1. PICK k \in Keys : down = <<k>>
        BY <3>2 DEF AKey
      <4>2. p = <<>> \/ p = <<k>>
        BY <2>1, <4>1
      <4> QED BY <3>2, <4>2 DEF AKey
    <3> QED BY <1>7, <3>1, <3>2 DEF ReadInv
  <2> QED BY <1>1, <1>2, <1>3, <1>7, <2>2 DEF ReadInv, AKey
<1>8. CASE mode = "reading" /\ Awaited
  <2>1. (Read(sector))' = Read(sector)
    BY <1>1 DEF Read, Command
  <2>2. Awaited'
    BY <1>1, <1>2, <1>3, <1>6, <1>8, <2>1 DEF Awaited
  <2> QED BY <1>1, <1>8, <2>2 DEF ReadInv
<1>9. CASE mode = "reading" /\ Answered
  <2>1. PICK e \in Seq(Byte) : Comes(e)
    BY <1>9 DEF Answered
  <2>2. Cat(Cat(p, r), e) = Cat(p, Cat(r, e))
    BY <1>5, CatAssociative
  <2>3. PICK f : f = Cat(r, e)
    OBVIOUS
  <2>4. f \in Seq(Byte) /\ Len(f) = Len(r) + Len(e)
    <3>1. r \o e \in Seq(Byte) /\ Len(r \o e) = Len(r) + Len(e)
      BY <1>5, ConcatProperties, Zenon
    <3> QED BY <2>3, <3>1 DEF Cat
  <2>5. Len(reply) <= Len(f)
    <3>1. Len(reply) <= Len(e) /\ Len(reply) \in Nat /\ Len(r) \in Nat /\ Len(e) \in Nat
      BY <1>5, <2>1, LenProperties DEF Comes, TypeInv, TypeOK
    <3> QED BY <2>4, <3>1
  <2>6. Cat(got, Cat(p, f)) = last[sector]
    BY <1>5, <2>1, <2>2, <2>3 DEF Comes
  <2>7. Comes(f)'
    BY <1>1, <1>2, <1>3, <2>5, <2>6 DEF Comes
  <2> QED BY <1>1, <1>9, <2>4, <2>7 DEF ReadInv, Answered
<1> QED BY <1>7, <1>8, <1>9 DEF ReadInv

\* At first nothing is read.
LEMMA InitRead == Init => ReadInv
<1> SUFFICES ASSUME Init PROVE ReadInv
  OBVIOUS
<1> DEFINE w == Motd \o Prompt
<1>1. w \in Seq(Byte)
  BY Sizes, ConcatProperties
<1> HIDE DEF w
<1>2. mode = "shell" /\ asked = Texts(w) /\ reply = <<>> /\ down = <<>>
  BY DEF Init, w
<1>3. Texts(w) \in Seq(Prints)
  BY <1>1, StreamTexts
<1>4. NoReads(asked)
  BY <1>2, <1>3, LenProperties, Kinds DEF NoReads
<1> QED BY <1>2, <1>4 DEF ReadInv

\* Every step, and a read that ends has brought what was last written.
LEMMA StepRead ==
    ASSUME Ahead = 0, Resets = 0, ~astray', TypeInv, LineInv, NotSpelt, DataInv, ReadInv, [Next]_vars
    PROVE  ReadInv' /\ (mode = "reading" /\ mode' = "command" => got' = last[sector])
<1>1. ~Reset
  BY DEF Reset, TypeInv, TypeOK
<1>2. CASE Type
  <2>1. UNCHANGED <<mode, got, sector, last, reply, port, asked>>
    BY <1>2 DEF Type, computer, cable
  <2>2. Patient
    <3>1. Len(down) \in Nat
      BY LenProperties DEF TypeInv, TypeOK
    <3>2. ~(Len(down) < Ahead)
      BY <3>1
    <3> QED BY <1>2, <3>2 DEF Type
  <2>3. down' = down \/ \E k \in Keys : down' = Append(down, k)
    BY <1>2 DEF Type
  <2>4. ASSUME NEW k \in Keys PROVE Append(<<>>, k) = <<k>>
    OBVIOUS
  <2> QED BY <2>1, <2>2, <2>3, <2>4 DEF Patient, ReadInv, AKey
<1>3. CASE Open \/ OpenFails
  <2>1. UNCHANGED <<mode, got, sector, last, reply, down, asked>> /\ reply = <<>>
    BY <1>3 DEF Open, OpenFails, computer, server
  <2> QED BY <2>1 DEF ReadInv, Awaited, Answered, Comes, AKey
<1>4. CASE UNCHANGED vars
  BY <1>4 DEF vars, computer, server, cable, ReadInv, Awaited, Answered, Comes, AKey
<1>5. Open \/ OpenFails \/ HostByte \/ HostReply \/ Type \/ Unplug \/ UNCHANGED vars => mode' = mode
  BY DEF Open, OpenFails, HostByte, HostReply, Type, Unplug, vars, computer
<1> QED BY <1>1, <1>2, <1>3, <1>4, <1>5, ComputerRead, HostRead, ReplyRead, UnplugRead DEF Next

\* A user who types only when the shell waits for a key, a computer that is not reset: a
\* disk_read that ends returns what was last written to the block, for every magic value,
\* every text and every size of the buffers, as long as the console does not print the
\* magic value and no byte that the computer sent goes with the cable. (What the host sent
\* may go: the read does not end then. With keys typed ahead it does not hold: they are
\* taken for bytes of the block; nor when a write is lost.)
THEOREM ReadsReturn ==
    ASSUME MagicApart, Ahead = 0, Resets = 0
    PROVE  Spec /\ []~astray => ReadsReturnTheLastWrite
<1> DEFINE Inv == TypeInv /\ LinkInv /\ DataInv /\ ReadInv
<1>1. Init => Inv
  BY InitTypes, InitLink, InitData, InitRead
<1>2. Inv /\ ~astray /\ (~astray)' /\ [Next]_vars => Inv'
  BY StepTypes, StepLink, StepData, StepRead DEF LinkInv
<1>3. Inv /\ ~astray /\ (~astray)' /\ [Next]_vars
        => [mode = "reading" /\ mode' = "command" => got' = last[sector]]_vars
  BY StepRead DEF LinkInv
<1> HIDE DEF Inv
<1> QED BY <1>1, <1>2, <1>3, PTL DEF Spec, ReadsReturnTheLastWrite

-----------------------------------------------------------------------------
(* When the console never spells the magic value.                           *)

\* The bytes that the computer may print. It prints the keys that it reads, and no byte
\* of a block, as long as the user waits.
Spoken ==
    Keys \cup {Enter, Newline} \cup {Line[i] : i \in 1 .. Len(Line)}
    \cup {Prompt[i] : i \in 1 .. Len(Prompt)} \cup {Motd[i] : i \in 1 .. Len(Motd)}
\* Some byte of the magic value is none of them.
Unspoken == \E k \in 1 .. Len(Magic) : Magic[k] \notin Spoken

\* What is asked then: texts of spoken bytes, and requests.
SpokenItems == {[kind |-> "text", bytes |-> <<b>>] : b \in Spoken} \cup Requests

\* All that is printed but echoed blocks is spoken.
LEMMA SpokenBytes ==
    /\ Keys \subseteq Spoken /\ Enter \in Spoken /\ Newline \in Spoken
    /\ Line \in Seq(Spoken) /\ Prompt \in Seq(Spoken) /\ Motd \in Seq(Spoken)
<1>1. ASSUME NEW t \in Seq(Byte), {t[i] : i \in 1 .. Len(t)} \subseteq Spoken PROVE t \in Seq(Spoken)
  <2>1. Len(t) \in Nat /\ t = [i \in 1 .. Len(t) |-> t[i]]
    BY LenProperties
  <2> QED BY <1>1, <2>1
<1> QED BY <1>1, Sizes DEF Spoken

\* A spoken text is asked as spoken bytes.
LEMMA SpokenTexts ==
    ASSUME NEW t \in Seq(Spoken)
    PROVE  Texts(t) \in Seq(SpokenItems)
<1>1. Len(t) \in Nat /\ DOMAIN t = 1 .. Len(t) /\ \A k \in 1 .. Len(t) : t[k] \in Spoken
  BY LenProperties
<1>2. \A k \in 1 .. Len(t) : [kind |-> "text", bytes |-> <<t[k]>>] \in SpokenItems
  BY <1>1 DEF SpokenItems
<1> QED BY <1>1, <1>2 DEF Texts

\* Spoken bytes do not spell the magic value.
LEMMA SpokenNotSpelt ==
    ASSUME Unspoken, NEW a \in Seq(SpokenItems)
    PROVE  ~Spelt(a)
<1> SUFFICES ASSUME NEW i \in 0 .. Len(a) - Len(Magic),
                    SubSeq(a, i + 1, i + Len(Magic)) = Texts(Magic)
             PROVE  FALSE
  BY DEF Spelt
<1>1. PICK k \in 1 .. Len(Magic) : Magic[k] \notin Spoken
  BY DEF Unspoken
<1>2. Len(a) \in Nat /\ Len(Magic) \in Nat
  BY MagicSize, LenProperties
<1>3. Texts(Magic)[k] = [kind |-> "text", bytes |-> <<Magic[k]>>]
  BY MagicSize, TextsType
<1>4. i + k \in 1 .. Len(a)
  BY <1>2
<1>5. a[i + k] = [kind |-> "text", bytes |-> <<Magic[k]>>]
  <2> DEFINE m == i + 1
             n == i + Len(Magic)
  <2>1. m \in Int /\ n \in Int /\ \A j \in m .. n : a[j] \in SpokenItems
    <3>1. \A j \in m .. n : j \in 1 .. Len(a)
      BY <1>2
    <3> QED BY <1>2, <3>1, LenProperties
  <2>2. k \in 1 .. (n - m) + 1 /\ (m + k) - 1 = i + k
    BY <1>2
  <2> HIDE DEF m, n
  <2>3. \A j \in 1 .. (n - m) + 1 : SubSeq(a, m, n)[j] = a[(m + j) - 1]
    BY <2>1, SubSeqProperties
  <2>4. SubSeq(a, m, n)[k] = a[i + k]
    BY <2>2, <2>3
  <2> QED BY <1>3, <2>4 DEF m, n
<1>6. a[i + k] \in SpokenItems
  BY <1>4, ElementOfSeq
<1>7. a[i + k] \notin Requests
  BY <1>5, RequestTypes
<1>8. PICK b \in Spoken : a[i + k] = [kind |-> "text", bytes |-> <<b>>]
  BY <1>6, <1>7 DEF SpokenItems
<1>9. <<b>> = <<Magic[k]>>
  BY <1>5, <1>8
<1> QED BY <1>1, <1>9

\* To record spoken items does not lead astray.
LEMMA RecordSpoken ==
    ASSUME Unspoken, ~astray, asked \in Seq(SpokenItems), NEW items \in Seq(SpokenItems), Record(items)
    PROVE  ~astray' /\ asked' \in Seq(SpokenItems)
<1>1. asked \o items \in Seq(SpokenItems)
  BY ConcatProperties
<1>2. ~Spelt(asked \o items)
  BY <1>1, SpokenNotSpelt
<1> QED BY <1>1, <1>2 DEF Record, Expect

\* To print a spoken text keeps what is asked spoken.
LEMMA SaySpoken ==
    ASSUME Unspoken, ~astray, asked \in Seq(SpokenItems),
           NEW text \in Seq(Spoken), NEW next, Say(text, next)
    PROVE  ~astray' /\ asked' \in Seq(SpokenItems)
<1>1. Texts(text) \in Seq(SpokenItems)
  BY SpokenTexts
<1> QED BY <1>1, RecordSpoken DEF Say

\* A user who waits has no block echoed: every step asks spoken bytes or a request.
LEMMA StepSpoken ==
    ASSUME Resets = 0, Unplugs = 0, Unspoken, ~astray, TypeInv, LineInv, NotSpelt, ReadInv,
           asked \in Seq(SpokenItems), [Next]_vars
    PROVE  ~astray' /\ asked' \in Seq(SpokenItems)
<1>1. ~Reset /\ ~Unplug
  BY DEF Reset, Unplug, TypeInv, TypeOK
<1>2. CASE ReadKey
  <2>1. Head(down) \in Keys
    BY <1>2, OneKey DEF ReadKey
  <2>2. <<Enter, Newline>> \in Seq(Spoken) /\ <<Head(down)>> \in Seq(Spoken)
    BY <2>1, SpokenBytes
  <2> QED BY <1>2, <2>2, SaySpoken DEF ReadKey
<1>3. CASE StartInput
  <2>1. <<Newline>> \in Seq(Spoken)
    BY SpokenBytes
  <2> QED BY <1>3, <2>1, SaySpoken DEF StartInput
<1>4. CASE InputKey
  <2>1. Head(down) \in Keys
    BY <1>4, OneKey DEF InputKey
  <2>2. <<Head(down)>> \in Seq(Spoken)
    BY <2>1, SpokenBytes
  <2> QED BY <1>4, <2>2, SaySpoken DEF InputKey
<1>5. CASE EndInput
  BY <1>5, SpokenBytes, SaySpoken DEF EndInput
<1>6. CASE Return
  BY <1>6, SpokenBytes, SaySpoken DEF Return
<1>7. ASSUME NEW q \in Requests, Record(<<q>>) PROVE ~astray' /\ asked' \in Seq(SpokenItems)
  <2>1. q \in SpokenItems
    BY DEF SpokenItems
  <2>2. <<q>> \in Seq(SpokenItems)
    BY <2>1
  <2> QED BY <1>7, <2>2, RecordSpoken
<1>8. CASE \E s \in Sectors : DiskRead(s)
  <2>1. PICK s \in Sectors : DiskRead(s)
    BY <1>8
  <2>2. PICK q : q = Command(<<R, s>>)
    OBVIOUS
  <2>3. q \in Requests /\ Record(<<q>>)
    BY <2>1, <2>2, SMTT(30) DEF Requests, DiskRead
  <2> QED BY <1>7, <2>3
<1>9. CASE \E s \in Sectors : \E d \in Data : DiskWrite(s, d)
  <2>1. PICK s \in Sectors : \E d \in Data : DiskWrite(s, d)
    BY <1>9
  <2>2. PICK d \in Data : DiskWrite(s, d)
    BY <2>1
  <2>3. PICK q : q = Command(<<W, s>> \o d)
    OBVIOUS
  <2>4. q \in Requests /\ Record(<<q>>)
    BY <2>2, <2>3 DEF Requests, DiskWrite
  <2> QED BY <1>7, <2>4
<1>10. CASE HostByte
  <2>1. Len(Done) \in Nat /\ Len(asked) \in Nat /\ asked' = SubSeq(asked, Len(Done) + 1, Len(asked))
    BY <1>10, DoneType, LenProperties DEF HostByte
  <2>2. \A j \in Len(Done) + 1 .. Len(asked) : asked[j] \in SpokenItems
    BY <2>1, LenProperties
  <2>3. asked' \in Seq(SpokenItems)
    BY <2>1, <2>2, SubSeqProperties
  <2> QED BY <1>10, <2>3 DEF HostByte
<1>11. CASE SendByte \/ ReceiveByte \/ Open \/ OpenFails \/ HostReply \/ Type \/ UNCHANGED vars
  BY <1>11 DEF SendByte, ReceiveByte, Open, OpenFails, HostReply, Type, vars
<1> QED BY <1>1, <1>2, <1>3, <1>4, <1>5, <1>6, <1>8, <1>9, <1>10, <1>11 DEF Next, Computer

\* A user who waits, a cable that stays, and a byte of the magic value that is neither a key
\* nor in a text of the shell: the console never spells the magic value and the line is
\* never astray, and so the host does all that was asked and a read returns the last write,
\* of every behaviour.
THEOREM PatientUser ==
    ASSUME MagicApart, Unspoken, Ahead = 0, Resets = 0, Unplugs = 0
    PROVE  Spec => []~astray /\ HostDoesWhatWasAsked /\ ReadsReturnTheLastWrite
<1> DEFINE Inv == TypeInv /\ LinkInv /\ DataInv /\ ReadInv /\ ~astray /\ asked \in Seq(SpokenItems)
<1>1. Init => Inv
  <2>1. Init => asked \in Seq(SpokenItems)
    <3>1. Motd \o Prompt \in Seq(Spoken)
      BY SpokenBytes, ConcatProperties
    <3> QED BY <3>1, SpokenTexts DEF Init
  <2> QED BY <2>1, InitTypes, InitLink, InitData, InitRead DEF Init
<1>2. Inv /\ [Next]_vars => Inv'
  <2> SUFFICES ASSUME Inv, [Next]_vars PROVE Inv'
    OBVIOUS
  <2>1. ~astray' /\ (asked \in Seq(SpokenItems))'
    BY StepSpoken DEF LinkInv
  <2> QED BY <2>1, StepTypes, StepLink, StepData, StepRead DEF LinkInv
<1>3. Inv => ~astray
  OBVIOUS
<1> HIDE DEF Inv
<1>4. Spec => []~astray
  BY <1>1, <1>2, <1>3, PTL DEF Spec
<1> QED BY <1>4, HostDoes, ReadsReturn, PTL

-----------------------------------------------------------------------------
(* Only a line that is astray brings a command that was not asked.          *)

\* A packet that the tokenizer completes is the request that was asked first.
LEMMA AskedCommand ==
    ASSUME TypeInv, LineInv, NotSpelt, HostByte, Token(tok, Head(up)) # <<>>
    PROVE  asked # <<>> /\ Head(asked) = Command(Token(tok, Head(up)))
<1>1. PICK c : c = Command(Token(tok, Head(up)))
  OBVIOUS
<1>2. Done = <<c>> /\ Len(Done) = 1
  BY <1>1 DEF Done
<1>3. 1 <= Len(asked) /\ SubSeq(asked, 1, 1) = <<c>>
  BY <1>2, HostLine
<1>4. asked \in Seq(Said) /\ Len(asked) \in Nat
  BY LineTypesOf, LenProperties
<1>5. asked # <<>> /\ 1 \in 0 .. Len(asked)
  BY <1>3, <1>4, EmptySeq
<1>6. PICK v : v = SubSeq(asked, 1, 1)
  OBVIOUS
<1>7. asked[1] = v[1]
  BY <1>4, <1>5, <1>6, PrefixAndRest
<1>8. v = <<c>>
  BY <1>3, <1>6
<1>9. Head(asked) = asked[1] /\ v[1] = c
  BY <1>4, <1>5, <1>8, HeadAndTail
<1> QED BY <1>1, <1>5, <1>7, <1>9

\* What the host executes is what the computer asked for (disk.c:50, :74), as long as the
\* line is not astray: what the run disk_link_reset finds needs a packet that is cut, by a
\* reset or the cable, or a console that prints the magic value.
THEOREM CommandsAreAsked ==
    ASSUME MagicApart
    PROVE  Spec /\ []~astray => CommandsWereAsked
<1>1. Init => TypeInv /\ LinkInv
  BY InitTypes, InitLink
<1>2. TypeInv /\ LinkInv /\ [Next]_vars => (TypeInv /\ LinkInv)'
  BY StepTypes, StepLink
<1>3. TypeInv /\ LinkInv /\ ~astray
        => [HostByte /\ Token(tok, Head(up)) # <<>> =>
              IF astray THEN Token(tok, Head(up)) \in Commands
              ELSE asked # <<>> /\ Head(asked) = Command(Token(tok, Head(up)))]_vars
  BY AskedCommand DEF LinkInv
<1> QED BY <1>1, <1>2, <1>3, PTL DEF Spec, CommandsWereAsked
=============================================================================
