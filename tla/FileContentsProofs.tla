-------------------------- MODULE FileContentsProofs --------------------------
(***************************************************************************)
(* The inductive invariant of FileContents and the theorems it gives, for  *)
(* every block size, every length of the input and whatever is typed.      *)
(***************************************************************************)
EXTENDS FileContents, SequenceTheorems, WellFoundedInduction, TLAPS

LEMMA Sizes ==
    /\ InputLen \in Nat /\ InputLen > 3 /\ InputLen - 3 <= BlockSize
    /\ BlockSize \in Nat /\ BlockSize > 0 /\ Pointers \in Nat /\ Pointers > 0
    /\ Pointers * BlockSize \in Nat
    /\ SizeMod \in Nat /\ SizeMod > (Pointers * BlockSize) + 3
    /\ NUL \in Byte
<1>1. BlockSize \in Nat /\ BlockSize > 0 /\ Pointers \in Nat /\ Pointers > 0
  BY ContentsAssumption
<1>2. Pointers * BlockSize \in Nat
  BY <1>1
<1> QED BY <1>1, <1>2, ContentsAssumption

LEMMA Literals ==
    /\ E \in Byte /\ O \in Byte /\ F \in Byte
    /\ E # NUL /\ O # NUL /\ F # NUL
BY ContentsAssumption

\* The minimum of a set of naturals is a member that no member is below.
LEMMA Minimum ==
    ASSUME NEW S, S \subseteq Nat, S # {}
    PROVE  Min(S) \in S /\ \A m \in S : Min(S) <= m
<1>1. \E n \in S : \A m \in S : ~ (<<m, n>> \in OpToRel(<, Nat))
  BY NatLessThanWellFounded, WFMin
<1>2. PICK n \in S : \A m \in S : ~ (<<m, n>> \in OpToRel(<, Nat))
  BY <1>1
<1>3. ASSUME NEW m \in S PROVE n <= m
  <2>1. m \in Nat /\ n \in Nat
    OBVIOUS
  <2>2. ~ (m < n)
    BY <1>2, <2>1 DEF OpToRel
  <2> QED BY <2>1, <2>2
<1> QED BY <1>3 DEF Min

\* A length that has wrapped below zero is refused.
LEMMA WrappedIsTooBig ==
    ASSUME NEW len \in Nat, len > Pointers * BlockSize
    PROVE  TooBig(len)
<1> DEFINE B == BlockSize
           d == (len - B) \div B
           r == (len - B) % B
<1>1. B \in Nat /\ B > 0 /\ Pointers \in Nat /\ Pointers - 1 \in Nat
  BY Sizes
<1>2. Pointers * B = B + (Pointers - 1) * B /\ (Pointers - 1) * B \in Nat
  BY <1>1
<1>3. len - B \in Nat /\ len - B > (Pointers - 1) * B /\ len > B
  BY <1>1, <1>2
<1>4. d \in Nat /\ r \in Nat /\ r < B /\ len - B = d * B + r
  BY <1>1, <1>3
<1>5. d + 2 > Pointers
  <2>1. SUFFICES ASSUME d + 1 <= Pointers - 1 PROVE FALSE
    BY <1>1, <1>4
  <2>2. (Pointers - 1) - (d + 1) \in Nat
    BY <2>1, <1>1, <1>4
  <2> DEFINE e == (Pointers - 1) - (d + 1)
  <2>3. Pointers - 1 = d + 1 + e /\ e \in Nat
    BY <2>2, <1>1, <1>4
  <2>4. (Pointers - 1) * B = d * B + B + e * B /\ d * B \in Nat /\ e * B \in Nat
    BY <2>3, <1>1, <1>4
  <2> QED BY <2>4, <1>1, <1>3, <1>4
<1> QED BY <1>3, <1>5 DEF TooBig

-----------------------------------------------------------------------------
(* What is typed.                                                           *)

\* Where the input stops.
Stop(keys) == Min(Ends(keys) \cup {InputLen})

LEMMA StopFacts ==
    ASSUME NEW keys \in Inputs
    PROVE  Stop(keys) \in 4 .. InputLen
<1>1. Ends(keys) \cup {InputLen} \subseteq 4 .. InputLen
  BY Sizes DEF Ends
<1>2. Stop(keys) \in Ends(keys) \cup {InputLen}
  BY <1>1, Sizes, Minimum DEF Stop
<1> QED BY <1>1, <1>2

\* A part of what was typed.
LEMMA PartOfKeys ==
    ASSUME NEW keys \in Inputs, NEW n \in 0 .. InputLen
    PROVE  /\ SubSeq(keys, 1, n) \in Seq(Byte) /\ Len(SubSeq(keys, 1, n)) = n
           /\ DOMAIN SubSeq(keys, 1, n) = 1 .. n
           /\ \A k \in 1 .. n : SubSeq(keys, 1, n)[k] = keys[k]
<1>1. keys \in [1 .. InputLen -> Byte] /\ InputLen \in Nat /\ n \in Int /\ n >= 0
  BY InputAssumption, Sizes
<1>2. \A k \in 1 .. n : keys[k] \in Byte
  BY <1>1
<1>3. /\ SubSeq(keys, 1, n) \in Seq(Byte)
      /\ Len(SubSeq(keys, 1, n)) = IF 1 <= n THEN n - 1 + 1 ELSE 0
      /\ \A k \in 1 .. n - 1 + 1 : SubSeq(keys, 1, n)[k] = keys[1 + k - 1]
  BY <1>1, <1>2, SubSeqProperties
<1>4. Len(SubSeq(keys, 1, n)) = n
  BY <1>1, <1>3
<1>5. \A k \in 1 .. n : SubSeq(keys, 1, n)[k] = keys[k]
  BY <1>1, <1>3
<1> QED BY <1>3, <1>4, <1>5, LenProperties

\* The same of any text.
LEMMA PartOfText ==
    ASSUME NEW t \in Seq(Byte), NEW n \in 0 .. Len(t)
    PROVE  /\ SubSeq(t, 1, n) \in Seq(Byte) /\ Len(SubSeq(t, 1, n)) = n
           /\ DOMAIN SubSeq(t, 1, n) = 1 .. n
           /\ \A k \in 1 .. n : SubSeq(t, 1, n)[k] = t[k]
<1>1. Len(t) \in Nat /\ n \in Int /\ n >= 0 /\ DOMAIN t = 1 .. Len(t)
  BY LenProperties
<1>2. \A k \in 1 .. n : t[k] \in Byte
  <2>1. \A k \in 1 .. n : k \in 1 .. Len(t)
    BY <1>1
  <2> QED BY <2>1, ElementOfSeq
<1>3. /\ SubSeq(t, 1, n) \in Seq(Byte)
      /\ Len(SubSeq(t, 1, n)) = IF 1 <= n THEN n - 1 + 1 ELSE 0
      /\ \A k \in 1 .. n - 1 + 1 : SubSeq(t, 1, n)[k] = t[1 + k - 1]
  BY <1>1, <1>2, SubSeqProperties
<1>4. Len(SubSeq(t, 1, n)) = n
  BY <1>1, <1>3
<1>5. \A k \in 1 .. n : SubSeq(t, 1, n)[k] = t[k]
  BY <1>1, <1>3
<1> QED BY <1>3, <1>4, <1>5, LenProperties

\* strlen stops at the first NUL, or at the end.
LEMMA StrlenFacts ==
    ASSUME NEW t \in Seq(Byte)
    PROVE  /\ Strlen(t) \in 0 .. Len(t)
           /\ \A k \in 1 .. Strlen(t) : t[k] # NUL
           /\ Strlen(t) < Len(t) => t[Strlen(t) + 1] = NUL
<1> DEFINE Nuls == {k - 1 : k \in {j \in DOMAIN t : t[j] = NUL}}
           m == Min(Nuls \cup {Len(t)})
<1>1. Len(t) \in Nat /\ DOMAIN t = 1 .. Len(t)
  BY LenProperties
<1>2. Nuls \subseteq 0 .. Len(t) - 1
  BY <1>1
<1>3. m \in Nuls \cup {Len(t)} /\ \A n \in Nuls \cup {Len(t)} : m <= n
  <2>1. Nuls \cup {Len(t)} \subseteq Nat /\ Nuls \cup {Len(t)} # {}
    BY <1>1, <1>2
  <2> HIDE DEF Nuls
  <2> QED BY <2>1, Minimum
<1>4. m \in 0 .. Len(t)
  BY <1>1, <1>2, <1>3
<1>5. ASSUME NEW k \in 1 .. m, t[k] = NUL PROVE FALSE
  <2>1. k \in 1 .. Len(t) /\ k \in Nat
    BY <1>1, <1>4
  <2>2. k - 1 \in Nuls
    BY <2>1, <1>1, <1>5
  <2>3. m <= k - 1
    BY <2>2, <1>3
  <2> HIDE DEF m
  <2> QED BY <2>1, <2>3, <1>4
<1>6. ASSUME m < Len(t) PROVE t[m + 1] = NUL
  <2>1. m \in Nuls
    BY <1>3, <1>6, <1>1
  <2>2. PICK j \in 1 .. Len(t) : t[j] = NUL /\ m = j - 1
    BY <2>1, <1>1
  <2> HIDE DEF m
  <2>3. m + 1 = j
    BY <2>2, <1>1
  <2> QED BY <2>2, <2>3
<1>7. Strlen(t) = m
  BY DEF Strlen
<1> HIDE DEF m
<1> QED BY <1>4, <1>5, <1>6, <1>7

\* It is the only such place.
LEMMA StrlenIs ==
    ASSUME NEW t \in Seq(Byte), NEW n \in 0 .. Len(t), \A k \in 1 .. n : t[k] # NUL,
           n < Len(t) => t[n + 1] = NUL
    PROVE  Strlen(t) = n
<1> DEFINE m == Strlen(t)
<1>1. /\ m \in 0 .. Len(t) /\ \A k \in 1 .. m : t[k] # NUL
      /\ m < Len(t) => t[m + 1] = NUL
  BY StrlenFacts
<1>2. Len(t) \in Nat /\ n \in Nat /\ m \in Nat
  BY <1>1, LenProperties
<1> HIDE DEF m
<1>3. ~(m < n)
  <2>1. SUFFICES ASSUME m < n PROVE FALSE
    OBVIOUS
  <2>2. m + 1 \in 1 .. n /\ m < Len(t)
    BY <2>1, <1>1, <1>2
  <2> QED BY <2>2, <1>1
<1>4. ~(n < m)
  <2>1. SUFFICES ASSUME n < m PROVE FALSE
    OBVIOUS
  <2>2. n + 1 \in 1 .. m /\ n < Len(t)
    BY <2>1, <1>1, <1>2
  <2> QED BY <2>2, <1>1
<1>5. m = n
  BY <1>2, <1>3, <1>4
<1> QED BY <1>5 DEF m

\* What is kept of a text is how the text begins.
LEMMA KeptFacts ==
    ASSUME NEW t \in Seq(Byte)
    PROVE  /\ Kept(t) \in Seq(Byte) /\ Len(Kept(t)) \in Nat /\ Len(Kept(t)) <= Len(t)
           /\ DOMAIN Kept(t) = 1 .. Len(Kept(t))
           /\ \A k \in 1 .. Len(Kept(t)) : k \in DOMAIN t /\ Kept(t)[k] = t[k]
<1>1. Len(t) \in Nat /\ DOMAIN t = 1 .. Len(t)
  BY LenProperties
<1>2. CASE Complete(t)
  BY <1>1, <1>2 DEF Kept
<1>3. CASE ~Complete(t) /\ Strlen(t) - 3 \in 0 .. Len(t)
  <2>1. Kept(t) = SubSeq(t, 1, Strlen(t) - 3)
    BY <1>3 DEF Kept
  <2> QED BY <1>1, <1>3, <2>1, PartOfText
<1>4. CASE ~Complete(t) /\ Strlen(t) - 3 < 0
  <2>1. Kept(t) = SubSeq(t, 1, Strlen(t) - 3)
    BY <1>4 DEF Kept
  <2>2. Strlen(t) - 3 \in Int
    BY StrlenFacts, <1>1
  <2>3. SubSeq(t, 1, Strlen(t) - 3) = <<>>
    BY <1>4, <2>2, SubSeqEmpty
  <2>4. <<>> \in Seq(Byte) /\ Len(<<>>) = 0 /\ DOMAIN <<>> = {} /\ 1 .. 0 = {}
    BY EmptySeq
  <2>5. Kept(t) = <<>>
    BY <2>1, <2>3
  <2>6. Kept(t) \in Seq(Byte) /\ Len(Kept(t)) = 0 /\ DOMAIN Kept(t) = 1 .. Len(Kept(t))
    BY <2>4, <2>5
  <2> QED BY <1>1, <2>6
<1> QED BY <1>1, <1>2, <1>3, <1>4, StrlenFacts

\* Of what is typed, the computer takes the text and the terminator, if there is one.
LEMMA MeantFacts ==
    ASSUME NEW keys \in Inputs
    PROVE  /\ Meant(keys) \in Seq(Byte) /\ Len(Meant(keys)) <= Stop(keys)
           /\ \A k \in 1 .. Len(Meant(keys)) : Meant(keys)[k] = keys[k]
           /\ \/ Len(Meant(keys)) = Stop(keys) /\ Stop(keys) = InputLen
              \/ /\ Len(Meant(keys)) = Stop(keys) - 3
                 /\ \A k \in Stop(keys) - 2 .. Stop(keys) : keys[k] # NUL
<1> DEFINE e == Stop(keys)
<1>1. e \in 4 .. InputLen /\ InputLen \in Nat /\ InputLen \in 0 .. InputLen
  BY StopFacts, Sizes
<1>2. CASE Ends(keys) = {}
  <2>1. e = InputLen /\ Meant(keys) = keys
    <3>1. Min({InputLen}) = InputLen
      BY Minimum, Sizes
    <3> QED BY <3>1, <1>2 DEF Stop, Meant
  <2>2. keys \in Seq(Byte) /\ Len(keys) = InputLen
    <3>1. keys \in [1 .. InputLen -> Byte]
      BY InputAssumption
    <3> QED BY <3>1, <1>1, SeqDef
  <2> QED BY <2>1, <2>2, <1>1
<1>3. CASE Ends(keys) # {}
  <2>1. Ends(keys) \subseteq 4 .. InputLen /\ Ends(keys) \subseteq Nat
    BY Sizes DEF Ends
  <2>2. Min(Ends(keys)) \in Ends(keys) /\ \A k \in Ends(keys) : Min(Ends(keys)) <= k
    BY <1>3, <2>1, Minimum
  <2>3. e = Min(Ends(keys))
    <3>1. Ends(keys) \cup {InputLen} \subseteq Nat /\ Ends(keys) \cup {InputLen} # {}
      BY <2>1, Sizes
    <3>2. e \in Ends(keys) \cup {InputLen} /\ \A k \in Ends(keys) \cup {InputLen} : e <= k
      BY <3>1, Minimum DEF Stop
    <3>3. Min(Ends(keys)) \in 4 .. InputLen
      BY <2>1, <2>2
    <3>4. e <= Min(Ends(keys)) /\ Min(Ends(keys)) <= e
      BY <3>2, <3>3, <2>2, Sizes
    <3> HIDE DEF e
    <3> QED BY <3>3, <3>4, <1>1
  <2>4. e \in Ends(keys)
    BY <2>2, <2>3
  <2> HIDE DEF e
  <2>5. SubSeq(keys, e - 2, e) = <<E, O, F>>
    BY <2>4 DEF Ends
  <2>6. \A k \in 1 .. 3 : SubSeq(keys, e - 2, e)[k] = keys[(e - 2) + k - 1]
    <3>1. keys \in [1 .. InputLen -> Byte]
      BY InputAssumption
    <3>2. e - 2 \in Int /\ e \in Int /\ \A k \in e - 2 .. e : keys[k] \in Byte
      BY <3>1, <1>1
    <3>3. \A k \in 1 .. e - (e - 2) + 1 : SubSeq(keys, e - 2, e)[k] = keys[(e - 2) + k - 1]
      BY <3>2, SubSeqProperties
    <3>4. e - (e - 2) + 1 = 3
      BY <1>1
    <3> QED BY <3>3, <3>4
  <2>7. keys[e - 2] = E /\ keys[e - 1] = O /\ keys[e] = F
    <3>1. (e - 2) + 1 - 1 = e - 2 /\ (e - 2) + 2 - 1 = e - 1 /\ (e - 2) + 3 - 1 = e
      BY <1>1
    <3>2. <<E, O, F>>[1] = E /\ <<E, O, F>>[2] = O /\ <<E, O, F>>[3] = F
      OBVIOUS
    <3>3. 1 \in 1 .. 3 /\ 2 \in 1 .. 3 /\ 3 \in 1 .. 3
      OBVIOUS
    <3> QED BY <2>5, <2>6, <3>1, <3>2, <3>3
  <2>8. \A k \in e - 2 .. e : keys[k] # NUL
    <3>1. \A k \in e - 2 .. e : k \in {e - 2, e - 1, e}
      BY <1>1
    <3> QED BY <3>1, <2>7, Literals
  <2>9. Meant(keys) = SubSeq(keys, 1, e - 3) /\ e - 3 \in 0 .. InputLen
    BY <1>1, <1>3, <2>3 DEF Meant
  <2>10. /\ Meant(keys) \in Seq(Byte) /\ Len(Meant(keys)) = e - 3
         /\ \A k \in 1 .. e - 3 : Meant(keys)[k] = keys[k]
    BY <2>9, PartOfKeys
  <2> QED BY <2>8, <2>10, <1>1 DEF e
<1> QED BY <1>2, <1>3

\* strlen(data) in terms of the text that is meant.
LEMMA StrlenOfTaken ==
    ASSUME NEW keys \in Inputs
    PROVE  /\ Strlen(Taken(keys)) \in 0 .. InputLen
           /\ IF Complete(Meant(keys))
              THEN Strlen(Taken(keys)) = Len(Meant(keys)) + 3
              ELSE Strlen(Taken(keys)) = Strlen(Meant(keys))
<1> DEFINE e == Stop(keys)
           s == Taken(keys)
           m == Meant(keys)
           n == Strlen(m)
<1>1. e \in 4 .. InputLen /\ InputLen \in Nat /\ e \in 0 .. InputLen
  BY StopFacts, Sizes
<1>2. s = SubSeq(keys, 1, e)
  BY DEF Taken, Stop
<1>3. s \in Seq(Byte) /\ Len(s) = e /\ \A k \in 1 .. e : s[k] = keys[k]
  BY <1>1, <1>2, PartOfKeys
<1>4. /\ m \in Seq(Byte) /\ Len(m) \in Nat /\ Len(m) <= e /\ DOMAIN m = 1 .. Len(m)
      /\ \A k \in 1 .. Len(m) : m[k] = keys[k]
      /\ \/ Len(m) = e /\ e = InputLen
         \/ Len(m) = e - 3 /\ \A k \in e - 2 .. e : keys[k] # NUL
  BY MeantFacts, LenProperties
<1>5. /\ n \in 0 .. Len(m) /\ \A k \in 1 .. n : m[k] # NUL
      /\ n < Len(m) => m[n + 1] = NUL
  BY <1>4, StrlenFacts
<1>6. Len(m) \in Nat /\ e \in Nat /\ n \in Nat /\ n <= Len(m) /\ Len(m) <= e /\ e <= InputLen
  BY <1>1, <1>4, <1>5
<1> HIDE DEF e, s, m, n
<1>7. Strlen(s) \in 0 .. InputLen
  <2>1. Strlen(s) \in 0 .. Len(s)
    BY <1>3, StrlenFacts
  <2> QED BY <2>1, <1>1, <1>3
<1>8. \A k \in 1 .. Len(m) : s[k] = m[k]
  <2>1. \A k \in 1 .. Len(m) : k \in 1 .. e
    BY <1>6
  <2> QED BY <2>1, <1>3, <1>4
<1>9. CASE Complete(m)
  <2>1. Len(m) = e - 3 /\ \A k \in e - 2 .. e : keys[k] # NUL
    <3>1. Len(m) <= InputLen - 3
      BY <1>9 DEF Complete
    <3>2. ~ (Len(m) = e /\ e = InputLen)
      BY <3>1, <1>1
    <3> QED BY <3>2, <1>4
  <2>2. ASSUME NEW k \in 1 .. e PROVE s[k] # NUL
    <3>1. CASE k \in 1 .. Len(m)
      BY <3>1, <1>4, <1>8, <1>9 DEF Complete
    <3>2. CASE k \in e - 2 .. e
      BY <3>2, <2>1, <2>2, <1>3
    <3> QED BY <3>1, <3>2, <2>1, <1>1
  <2>3. e \in 0 .. Len(s) /\ ~(e < Len(s))
    BY <1>1, <1>3
  <2>4. Strlen(s) = e
    BY <2>2, <2>3, <1>3, StrlenIs
  <2>5. Strlen(s) = Len(m) + 3
    BY <2>1, <2>4, <1>1
  <2> QED BY <2>5, <1>7, <1>9 DEF s, m
<1>10. CASE ~Complete(m)
  <2>1. n < Len(m) \/ Len(m) = e
    <3>1. SUFFICES ASSUME Len(m) # e, ~(n < Len(m)) PROVE FALSE
      OBVIOUS
    <3>2. Len(m) = e - 3 /\ n = Len(m)
      <4>1. n = Len(m)
        BY <3>1, <1>6
      <4> QED BY <3>1, <4>1, <1>4
    <3>3. Len(m) <= InputLen - 3 /\ \A k \in DOMAIN m : m[k] # NUL
      BY <3>2, <1>1, <1>4, <1>5
    <3> QED BY <3>3, <1>10 DEF Complete
  <2>2. n \in 0 .. Len(s) /\ \A k \in 1 .. n : s[k] # NUL
    <3>1. n \in 0 .. Len(s)
      BY <1>3, <1>6
    <3>2. \A k \in 1 .. n : k \in 1 .. Len(m)
      BY <1>4, <1>5
    <3> QED BY <3>1, <3>2, <1>5, <1>8
  <2>3. n < Len(s) => s[n + 1] = NUL
    <3>1. SUFFICES ASSUME n < Len(s) PROVE s[n + 1] = NUL
      OBVIOUS
    <3>2. n < Len(m)
      BY <2>1, <3>1, <1>3
    <3>3. n + 1 \in 1 .. Len(m)
      BY <3>2, <1>4, <1>5
    <3> QED BY <3>2, <3>3, <1>5, <1>8
  <2>4. Strlen(s) = n
    BY <2>2, <2>3, <1>3, StrlenIs
  <2> QED BY <2>4, <1>7, <1>10 DEF s, m, n
<1> QED BY <1>9, <1>10

\* Whatever fs_write accepts is what is kept of the text, and fits the block.
LEMMA AcceptedIsKept ==
    ASSUME NEW keys \in Inputs, Length(keys) # 0, ~TooBig(Length(keys))
    PROVE  /\ SubSeq(keys, 1, Length(keys)) = Kept(Meant(keys))
           /\ Meant(keys) \in Seq(Byte)
           /\ Kept(Meant(keys)) \in Seq(Byte) /\ Len(Kept(Meant(keys))) \in 1 .. BlockSize
<1> DEFINE l == Strlen(Taken(keys))
           m == Meant(keys)
<1>1. l \in 0 .. InputLen /\ InputLen \in Nat
  BY StrlenOfTaken, Sizes
<1>2. Length(keys) = ((l + SizeMod) - 3) % SizeMod
  BY DEF Length
<1>3. IF Complete(m) THEN l = Len(m) + 3 ELSE l = Strlen(m)
  BY StrlenOfTaken
<1> HIDE DEF l
<1>4. l # 3
  <2>1. SUFFICES ASSUME l = 3 PROVE FALSE
    OBVIOUS
  <2>2. Length(keys) = SizeMod % SizeMod
    BY <2>1, <1>2, Sizes
  <2> QED BY <2>2, Sizes
<1>5. ~ (l \in 0 .. 2)
  <2>1. SUFFICES ASSUME l \in 0 .. 2 PROVE FALSE
    OBVIOUS
  <2> DEFINE n == (l + SizeMod) - 3
  <2>2. n \in Nat /\ n < SizeMod /\ n > Pointers * BlockSize
    BY <2>1, Sizes
  <2>3. Length(keys) = n
    BY <2>2, <1>2, Sizes
  <2> QED BY <2>2, <2>3, WrappedIsTooBig
<1>6. l - 3 \in 1 .. BlockSize /\ l - 3 \in 0 .. InputLen /\ l - 3 < SizeMod
  <2>1. BlockSize <= Pointers * BlockSize
    <3>1. Pointers - 1 \in Nat /\ BlockSize \in Nat
      BY Sizes
    <3>2. Pointers * BlockSize = BlockSize + (Pointers - 1) * BlockSize
      BY <3>1, Sizes
    <3>3. (Pointers - 1) * BlockSize \in Nat
      BY <3>1
    <3> QED BY <3>1, <3>2, <3>3
  <2> QED BY <2>1, <1>1, <1>4, <1>5, Sizes
<1>7. Length(keys) = l - 3
  <2>1. (l + SizeMod) - 3 = (l - 3) + SizeMod /\ l - 3 \in Nat
    BY <1>1, <1>6, Sizes
  <2>2. ((l - 3) + SizeMod) % SizeMod = l - 3
    BY <2>1, <1>6, Sizes
  <2> QED BY <2>1, <2>2, <1>2, <1>6
<1>8. m \in Seq(Byte) /\ \A k \in 1 .. Len(m) : m[k] = keys[k]
  BY MeantFacts
<1>9. /\ SubSeq(keys, 1, l - 3) \in Seq(Byte) /\ Len(SubSeq(keys, 1, l - 3)) = l - 3
      /\ \A k \in 1 .. l - 3 : SubSeq(keys, 1, l - 3)[k] = keys[k]
  BY <1>6, PartOfKeys
<1> HIDE DEF m
<1>10. /\ Kept(m) \in Seq(Byte) /\ Len(Kept(m)) \in Nat /\ Len(Kept(m)) <= Len(m)
       /\ \A k \in 1 .. Len(Kept(m)) : Kept(m)[k] = m[k]
  BY <1>8, KeptFacts
<1>11. Len(Kept(m)) = l - 3
  <2>1. CASE Complete(m)
    BY <2>1, <1>1, <1>3, <1>10 DEF Kept
  <2>2. CASE ~Complete(m)
    <3>1. l = Strlen(m) /\ Kept(m) = SubSeq(m, 1, l - 3)
      BY <2>2, <1>3 DEF Kept
    <3>2. l \in 0 .. Len(m) /\ Len(m) \in Nat
      BY <3>1, <1>8, StrlenFacts, LenProperties
    <3>3. l - 3 \in 0 .. Len(m)
      BY <3>2, <1>6
    <3> QED BY <3>1, <3>3, <1>8, PartOfText
  <2> QED BY <2>1, <2>2
<1>12. \A k \in 1 .. l - 3 : SubSeq(keys, 1, l - 3)[k] = Kept(m)[k]
  <2>1. ASSUME NEW k \in 1 .. l - 3 PROVE keys[k] = Kept(m)[k]
    <3>1. k \in 1 .. Len(Kept(m)) /\ k \in 1 .. Len(m)
      BY <2>1, <1>1, <1>8, <1>10, <1>11, LenProperties
    <3> QED BY <3>1, <1>8, <1>10
  <2> QED BY <2>1, <1>9
<1>13. SubSeq(keys, 1, l - 3) = Kept(m)
  BY <1>9, <1>10, <1>11, <1>12, SeqEqual
<1> QED BY <1>6, <1>7, <1>8, <1>10, <1>11, <1>13 DEF m

-----------------------------------------------------------------------------
(* The inductive invariant.                                                 *)

\* The block begins with the text t.
BlockBegins(t) == Len(t) <= BlockSize /\ \A k \in 1 .. Len(t) : block[k] = t[k]

\* The first n bytes of the block come from the texts T.
BlockFrom(n, T) == \A k \in 1 .. n : \E t \in T : k \in DOMAIN t /\ t[k] = block[k]

\* A file that does not exist holds nothing.
NoFile == ~valid => size = 0 /\ texts = {<<>>}

\* What the file holds; and all of it, once a single text is left.
FileHolds ==
    /\ BlockFrom(size, texts)
    /\ \A t \in texts : texts = {t} => size = Len(Kept(t)) /\ BlockBegins(Kept(t))

\* The write under way is to a file that exists, and writes what is kept of the text.
JobHolds ==
    /\ job.kind = "idle" => job = NoJob
    /\ job.kind # "idle" => valid /\ job.text = Kept(job.meant) /\ Len(job.text) \in 1 .. BlockSize
    /\ job.kind = "inode" => job.meant \in texts /\ BlockBegins(job.text)

\* What do_read has learnt stays true of the texts it has met, unless a format wipes them.
FuseHolds ==
    /\ fuse.pc = "idle" => fuse = Idle
    /\ fuse.pc # "idle" /\ ~fuse.wiped =>
           /\ valid /\ texts \subseteq fuse.seen
           /\ fuse.len > 0 => size > 0
           /\ \A t \in fuse.seen : fuse.seen = {t} => fuse.len <= Len(Kept(t))
    /\ fuse.pc = "data" /\ ~fuse.wiped => BlockFrom(fuse.len, fuse.seen)

IInv == /\ TypeOK /\ NoFile /\ FileHolds /\ JobHolds /\ FuseHolds
        /\ OnlyTypedBytesAreShown /\ WholeTextIsShown

\* Steps that print nothing show nothing.
LEMMA Silent ==
    ASSUME out' = Nothing \/ out' = Error
    PROVE  OnlyTypedBytesAreShown' /\ WholeTextIsShown'
BY DEF Nothing, Error, OnlyTypedBytesAreShown, WholeTextIsShown

LEMMA SilentType ==
    ASSUME out' = Nothing \/ out' = Error
    PROVE  out' \in [kind : {"nothing", "error", "text", "view", "junk", "size"},
                     bytes : Seq(Byte \cup 0 .. BlockSize), of : SUBSET Seq(Byte), wiped : BOOLEAN]
<1>1. <<>> \in Seq(Byte \cup 0 .. BlockSize)
  BY EmptySeq
<1>2. CASE out' = Nothing
  BY <1>1, <1>2, Zenon DEF Nothing
<1>3. CASE out' = Error
  BY <1>1, <1>3, Zenon DEF Error
<1> QED BY <1>2, <1>3

\* The text of a file that has just been created.
LEMMA EmptyText ==
    /\ <<>> \in Seq(Byte) /\ Len(<<>>) = 0 /\ DOMAIN <<>> = {} /\ Kept(<<>>) = <<>>
<1>1. <<>> \in Seq(Byte) /\ Len(<<>>) = 0 /\ DOMAIN <<>> = {}
  BY EmptySeq
<1>2. Complete(<<>>)
  BY <1>1, Sizes DEF Complete
<1> QED BY <1>1, <1>2 DEF Kept

LEMMA InitInvariant == ASSUME Init PROVE IInv
<1>1. <<>> \in Seq(Byte) /\ Len(<<>>) = 0 /\ DOMAIN <<>> = {}
  BY EmptySeq
<1>2. out = Nothing /\ <<>> \in Seq(Byte \cup 0 .. BlockSize)
  BY EmptySeq DEF Init
<1>3. TypeOK
  <2>1. out \in [kind : {"nothing", "error", "text", "view", "junk", "size"},
                 bytes : Seq(Byte \cup 0 .. BlockSize), of : SUBSET Seq(Byte), wiped : BOOLEAN]
    BY <1>2, Zenon DEF Nothing
  <2>2. block \in [1 .. BlockSize -> Byte]
    BY ContentsAssumption DEF Init
  <2>3. job \in [kind : {"idle", "data", "inode"}, text : Seq(Byte), meant : Seq(Byte)]
    BY <1>1, Zenon DEF Init, NoJob
  <2>4. fuse \in [pc : {"idle", "inode", "data"}, len : 0 .. BlockSize,
                 seen : SUBSET Seq(Byte), wiped : BOOLEAN]
    BY <1>1, Sizes DEF Init, Idle
  <2>5. valid \in BOOLEAN /\ size \in 0 .. BlockSize
    <3>1. valid = FALSE /\ size = 0
      BY DEF Init
    <3>2. 0 \in 0 .. BlockSize
      BY Sizes
    <3> QED BY <3>1, <3>2, Zenon
  <2>6. texts \subseteq Seq(Byte) /\ texts # {}
    BY <1>1 DEF Init
  <2> QED BY <2>1, <2>2, <2>3, <2>4, <2>5, <2>6 DEF TypeOK
<1>4. NoFile /\ JobHolds /\ FuseHolds
  BY DEF Init, NoFile, JobHolds, FuseHolds, NoJob, Idle
<1>5. FileHolds
  BY EmptyText, Sizes DEF Init, FileHolds, BlockFrom, BlockBegins
<1>6. OnlyTypedBytesAreShown /\ WholeTextIsShown
  BY <1>2 DEF Nothing, OnlyTypedBytesAreShown, WholeTextIsShown
<1> QED BY <1>3, <1>4, <1>5, <1>6 DEF IInv

-----------------------------------------------------------------------------
(* fswrite.                                                                 *)

LEMMA WriteInvariant ==
    ASSUME IInv, NEW keys \in Inputs, Write(keys)
    PROVE  IInv'
<1>1. UNCHANGED <<valid, size, block, texts, fuse>>
  BY DEF Write, disk
<1>2. out' = Nothing \/ out' = Error
  BY DEF Write
<1>3. \/ UNCHANGED job
      \/ /\ job'.kind = "data" /\ valid /\ job'.text = Kept(job'.meant)
         /\ job'.text \in Seq(Byte) /\ Len(job'.text) \in 1 .. BlockSize
         /\ job' \in [kind : {"idle", "data", "inode"}, text : Seq(Byte), meant : Seq(Byte)]
  <2>1. SUFFICES ASSUME ~ UNCHANGED job
                 PROVE  /\ job'.kind = "data" /\ valid /\ job'.text = Kept(job'.meant)
                        /\ job'.text \in Seq(Byte) /\ Len(job'.text) \in 1 .. BlockSize
                        /\ job' \in [kind : {"idle", "data", "inode"},
                                     text : Seq(Byte), meant : Seq(Byte)]
    OBVIOUS
  <2>2. /\ valid /\ Length(keys) # 0 /\ ~TooBig(Length(keys))
        /\ job' = [kind |-> "data", meant |-> Meant(keys), text |-> SubSeq(keys, 1, Length(keys))]
    BY <2>1 DEF Write
  <2>3. /\ SubSeq(keys, 1, Length(keys)) = Kept(Meant(keys)) /\ Meant(keys) \in Seq(Byte)
        /\ Kept(Meant(keys)) \in Seq(Byte) /\ Len(Kept(Meant(keys))) \in 1 .. BlockSize
    BY <2>2, AcceptedIsKept
  <2> QED BY <2>2, <2>3
<1>4. TypeOK'
  BY <1>1, <1>2, <1>3, SilentType DEF IInv, TypeOK
<1>5. NoFile' /\ FileHolds' /\ FuseHolds'
  BY <1>1 DEF IInv, NoFile, FileHolds, FuseHolds, BlockFrom, BlockBegins
<1>6. JobHolds'
  <2>1. CASE UNCHANGED job
    BY <2>1, <1>1 DEF IInv, JobHolds, BlockBegins
  <2>2. CASE ~ UNCHANGED job
    BY <2>2, <1>1, <1>3 DEF JobHolds
  <2> QED BY <2>1, <2>2
<1> QED BY <1>2, <1>4, <1>5, <1>6, Silent DEF IInv

\* What becomes of do_read when the file gets other texts.
LEMMA HoldsFacts ==
    ASSUME TypeOK, FuseHolds, NEW T, T \subseteq Seq(Byte), T # {}, Holds(T)
    PROVE  /\ fuse' \in [pc : {"idle", "inode", "data"}, len : 0 .. BlockSize,
                         seen : SUBSET Seq(Byte), wiped : BOOLEAN]
           /\ fuse'.pc = fuse.pc /\ fuse'.len = fuse.len /\ fuse'.wiped = fuse.wiped
           /\ fuse'.pc = "idle" => fuse' = Idle
           /\ fuse'.pc # "idle" => fuse'.seen = fuse.seen \cup T
<1>1. CASE fuse = Idle
  BY <1>1, Sizes DEF Holds, Idle
<1>2. CASE fuse # Idle
  <2>1. fuse' = [fuse EXCEPT !.seen = fuse.seen \cup T] /\ fuse.pc # "idle"
    BY <1>2 DEF Holds, FuseHolds
  <2> QED BY <2>1 DEF TypeOK
<1> QED BY <1>1, <1>2

\* FuseHolds after the texts became T, if the file stays and the block fits what it read.
LEMMA HoldsKeepsFuse ==
    ASSUME TypeOK, FuseHolds, NEW T, T \subseteq Seq(Byte), T # {}, Holds(T),
           fuse.pc # "idle" /\ ~fuse.wiped =>
               /\ valid' /\ (size > 0 => size' > 0)
               /\ fuse.pc = "data" =>
                      \A k \in 1 .. fuse.len :
                          \E t \in fuse.seen \cup T : k \in DOMAIN t /\ t[k] = block'[k]
    PROVE  FuseHolds'
<1>1. /\ fuse'.pc = fuse.pc /\ fuse'.len = fuse.len /\ fuse'.wiped = fuse.wiped
      /\ fuse'.pc = "idle" => fuse' = Idle
      /\ fuse'.pc # "idle" => fuse'.seen = fuse.seen \cup T
  BY HoldsFacts
<1>2. texts' = T
  BY DEF Holds
<1>3. ASSUME fuse'.pc # "idle", ~fuse'.wiped
      PROVE  /\ valid' /\ texts' \subseteq fuse'.seen
             /\ fuse'.len > 0 => size' > 0
             /\ \A t \in fuse'.seen : fuse'.seen = {t} => fuse'.len <= Len(Kept(t))
  <2>1. fuse.pc # "idle" /\ ~fuse.wiped /\ fuse'.seen = fuse.seen \cup T
    BY <1>1, <1>3
  <2>2. valid' /\ (size > 0 => size' > 0) /\ texts' \subseteq fuse'.seen
    BY <2>1, <1>2
  <2>3. fuse.len > 0 => size > 0
    BY <2>1 DEF FuseHolds
  <2>4. ASSUME NEW t \in fuse'.seen, fuse'.seen = {t} PROVE fuse'.len <= Len(Kept(t))
    <3>1. fuse.seen # {}
      BY <2>1 DEF FuseHolds, TypeOK
    <3>2. fuse.seen = {t}
      BY <2>1, <2>4, <3>1
    <3> QED BY <2>1, <3>2, <1>1 DEF FuseHolds
  <2> QED BY <2>1, <2>2, <2>3, <2>4, <1>1
<1>4. ASSUME fuse'.pc = "data", ~fuse'.wiped
      PROVE  \A k \in 1 .. fuse'.len :
                 \E t \in fuse'.seen : k \in DOMAIN t /\ t[k] = block'[k]
  BY <1>1, <1>4
<1> QED BY <1>1, <1>3, <1>4 DEF FuseHolds, BlockFrom

LEMMA WriteDataInvariant ==
    ASSUME IInv, WriteData
    PROVE  IInv'
<1>0. PICK w \in Seq(Byte), m \in Seq(Byte) : w = job.meant /\ m = Kept(w)
  BY KeptFacts DEF IInv, TypeOK
<1>1. /\ job.kind = "data" /\ job.text = m /\ m \in Seq(Byte) /\ Len(m) \in 1 .. BlockSize
      /\ valid /\ texts \subseteq Seq(Byte) /\ texts # {}
      /\ TypeOK /\ FuseHolds /\ FileHolds
  BY <1>0 DEF IInv, JobHolds, TypeOK, WriteData
<1>2. UNCHANGED <<valid, size>> /\ out' = Nothing
  BY DEF WriteData
<1>3. texts' = texts \cup {w} /\ Holds(texts \cup {w})
  BY <1>0 DEF WriteData, Holds
<1>4. /\ DOMAIN m = 1 .. Len(m) /\ Len(m) \in Nat /\ Len(m) <= BlockSize
      /\ \A k \in 1 .. Len(m) : k \in DOMAIN w /\ w[k] = m[k]
  BY <1>0, <1>1, Sizes, KeptFacts
<1>5. /\ block' \in [1 .. BlockSize -> Byte]
      /\ \A k \in 1 .. BlockSize : block'[k] = IF k <= Len(m) THEN m[k] ELSE block[k]
  <2>1. block' = [k \in 1 .. BlockSize |-> IF k <= Len(m) THEN m[k] ELSE block[k]]
    BY <1>1 DEF WriteData, Overlay
  <2>2. \A k \in 1 .. BlockSize : k <= Len(m) => m[k] \in Byte
    BY <1>1, <1>4, Sizes, ElementOfSeq
  <2>3. block \in [1 .. BlockSize -> Byte]
    BY DEF IInv, TypeOK
  <2> QED BY <2>1, <2>2, <2>3
<1>6. /\ job' \in [kind : {"idle", "data", "inode"}, text : Seq(Byte), meant : Seq(Byte)]
      /\ job'.kind = "inode" /\ job'.text = m /\ job'.meant = w
  BY <1>0, <1>1 DEF WriteData, IInv, TypeOK
<1>7. BlockBegins(m)'
  BY <1>4, <1>5, Sizes DEF BlockBegins
<1>8. \A n \in 0 .. BlockSize : \A T : BlockFrom(n, T) =>
          \A k \in 1 .. n : \E t \in T \cup {w} : k \in DOMAIN t /\ t[k] = block'[k]
  <2>1. SUFFICES ASSUME NEW n \in 0 .. BlockSize, NEW T, BlockFrom(n, T), NEW k \in 1 .. n
                 PROVE  \E t \in T \cup {w} : k \in DOMAIN t /\ t[k] = block'[k]
    OBVIOUS
  <2>2. k \in 1 .. BlockSize /\ k \in Nat
    BY Sizes
  <2>3. CASE k <= Len(m)
    <3>1. k \in DOMAIN w /\ w[k] = block'[k]
      BY <2>2, <2>3, <1>4, <1>5
    <3> QED BY <3>1
  <2>4. CASE ~(k <= Len(m))
    <3>1. block'[k] = block[k]
      BY <2>2, <2>4, <1>5
    <3> QED BY <3>1, <2>1 DEF BlockFrom
  <2> QED BY <2>3, <2>4
<1>9. size \in 0 .. BlockSize /\ fuse.len \in 0 .. BlockSize
  BY DEF IInv, TypeOK
<1>10. FuseHolds'
  <2>1. texts \cup {w} \subseteq Seq(Byte) /\ texts \cup {w} # {}
    BY <1>1
  <2>2. ASSUME fuse.pc # "idle", ~fuse.wiped
        PROVE  /\ valid' /\ (size > 0 => size' > 0)
               /\ fuse.pc = "data" =>
                      \A k \in 1 .. fuse.len :
                          \E t \in fuse.seen \cup (texts \cup {w}) :
                              k \in DOMAIN t /\ t[k] = block'[k]
    <3>1. valid' /\ (size > 0 => size' > 0)
      BY <1>1, <1>2
    <3>2. ASSUME fuse.pc = "data"
          PROVE  \A k \in 1 .. fuse.len :
                     \E t \in fuse.seen \cup {w} : k \in DOMAIN t /\ t[k] = block'[k]
      <4>1. BlockFrom(fuse.len, fuse.seen)
        BY <2>2, <3>2, <1>1 DEF FuseHolds
      <4> QED BY <4>1, <1>8, <1>9
    <3> QED BY <3>1, <3>2
  <2> QED BY <2>1, <2>2, <1>1, <1>3, HoldsKeepsFuse
<1>11. FileHolds'
  <2>1. BlockFrom(size, texts)'
    <3>1. BlockFrom(size, texts)
      BY <1>1 DEF FileHolds
    <3>2. \A k \in 1 .. size : \E t \in texts \cup {w} : k \in DOMAIN t /\ t[k] = block'[k]
      BY <3>1, <1>8, <1>9
    <3> QED BY <3>2, <1>2, <1>3 DEF BlockFrom
  <2>2. ASSUME NEW t \in texts', texts' = {t} PROVE (size = Len(Kept(t)) /\ BlockBegins(Kept(t)))'
    <3>1. texts = {t} /\ m = Kept(t)
      BY <2>2, <1>0, <1>1, <1>3
    <3>2. size = Len(m)
      BY <3>1, <1>1 DEF FileHolds
    <3>3. Len(m) <= BlockSize /\ \A k \in 1 .. Len(m) : block'[k] = m[k]
      BY <1>7 DEF BlockBegins
    <3> QED BY <3>1, <3>2, <3>3, <1>2 DEF BlockBegins
  <2> QED BY <2>1, <2>2 DEF FileHolds
<1>12. JobHolds'
  BY <1>0, <1>1, <1>2, <1>3, <1>6, <1>7 DEF JobHolds, BlockBegins
<1>13. TypeOK'
  <2>1. fuse' \in [pc : {"idle", "inode", "data"}, len : 0 .. BlockSize,
                   seen : SUBSET Seq(Byte), wiped : BOOLEAN]
    BY <1>1, <1>3, HoldsFacts
  <2>2. texts' \subseteq Seq(Byte) /\ texts' # {}
    BY <1>1, <1>3
  <2> QED BY <2>1, <2>2, <1>2, <1>5, <1>6, <1>1, SilentType DEF TypeOK
<1>14. NoFile'
  BY <1>1, <1>2 DEF NoFile
<1> QED BY <1>2, <1>10, <1>11, <1>12, <1>13, <1>14, Silent DEF IInv

LEMMA WriteInodeInvariant ==
    ASSUME IInv, WriteInode
    PROVE  IInv'
<1>0. PICK w \in Seq(Byte), m \in Seq(Byte) : w = job.meant /\ m = Kept(w)
  BY KeptFacts DEF IInv, TypeOK
<1>1. /\ job.kind = "inode" /\ job.text = m /\ m \in Seq(Byte) /\ Len(m) \in 1 .. BlockSize
      /\ w \in texts /\ BlockBegins(m) /\ valid /\ TypeOK /\ FuseHolds
  BY <1>0 DEF IInv, JobHolds, TypeOK, WriteInode
<1>2. UNCHANGED <<valid, block>> /\ size' = Len(m) /\ out' = Nothing /\ job' = NoJob
  BY <1>1 DEF WriteInode
<1>3. texts' = {w} /\ Holds({w})
  BY <1>0 DEF WriteInode, Holds
<1>4. /\ DOMAIN m = 1 .. Len(m) /\ Len(m) \in Nat /\ Len(m) <= BlockSize
      /\ \A k \in 1 .. Len(m) : k \in DOMAIN w /\ w[k] = m[k]
  BY <1>0, <1>1, Sizes, KeptFacts
<1>5. FileHolds'
  <2>1. Len(m) <= BlockSize /\ \A k \in 1 .. Len(m) : block'[k] = m[k]
    BY <1>1, <1>2 DEF BlockBegins
  <2>2. BlockFrom(size, texts)'
    BY <2>1, <1>2, <1>3, <1>4 DEF BlockFrom
  <2>3. \A t \in texts' : texts' = {t} => (size = Len(Kept(t)) /\ BlockBegins(Kept(t)))'
    BY <2>1, <1>0, <1>2, <1>3 DEF BlockBegins
  <2> QED BY <2>2, <2>3 DEF FileHolds
<1>6. {w} \subseteq Seq(Byte) /\ {w} # {}
  BY <1>0
<1>7. FuseHolds'
  <2>1. ASSUME fuse.pc # "idle", ~fuse.wiped
        PROVE  /\ valid' /\ (size > 0 => size' > 0)
               /\ fuse.pc = "data" =>
                      \A k \in 1 .. fuse.len :
                          \E t \in fuse.seen \cup {w} : k \in DOMAIN t /\ t[k] = block'[k]
    <3>1. valid' /\ size' > 0
      BY <1>1, <1>2, Sizes
    <3>2. fuse.pc = "data" => BlockFrom(fuse.len, fuse.seen)
      BY <2>1, <1>1 DEF FuseHolds
    <3> QED BY <3>1, <3>2, <1>2 DEF BlockFrom
  <2> QED BY <2>1, <1>1, <1>3, <1>6, HoldsKeepsFuse
<1>8. TypeOK'
  <2>1. fuse' \in [pc : {"idle", "inode", "data"}, len : 0 .. BlockSize,
                   seen : SUBSET Seq(Byte), wiped : BOOLEAN]
    BY <1>1, <1>3, <1>6, HoldsFacts
  <2>2. NoJob \in [kind : {"idle", "data", "inode"}, text : Seq(Byte), meant : Seq(Byte)]
    BY EmptySeq DEF NoJob
  <2>3. size' \in 0 .. BlockSize
    BY <1>1, <1>2, Sizes
  <2> QED BY <2>1, <2>2, <2>3, <1>1, <1>2, <1>3, <1>6, SilentType DEF TypeOK
<1>9. NoFile' /\ JobHolds'
  BY <1>1, <1>2 DEF NoFile, JobHolds, NoJob
<1> QED BY <1>2, <1>5, <1>7, <1>8, <1>9, Silent DEF IInv

-----------------------------------------------------------------------------
(* The other commands.                                                      *)

LEMMA CreateInvariant ==
    ASSUME IInv, Create
    PROVE  IInv'
<1>1. /\ job = NoJob /\ ~valid /\ valid' /\ size' = 0 /\ out' = Nothing /\ UNCHANGED job
      /\ texts' = {<<>>} /\ Holds({<<>>}) /\ TypeOK /\ FuseHolds
  BY DEF Create, Holds, IInv
<1>2. {<<>>} \subseteq Seq(Byte) /\ {<<>>} # {}
  BY EmptyText
<1>3. FuseHolds'
  <2>1. ~ (fuse.pc # "idle" /\ ~fuse.wiped)
    BY <1>1 DEF FuseHolds
  <2> QED BY <2>1, <1>1, <1>2, HoldsKeepsFuse
<1>4. TypeOK'
  <2>1. fuse' \in [pc : {"idle", "inode", "data"}, len : 0 .. BlockSize,
                   seen : SUBSET Seq(Byte), wiped : BOOLEAN]
    BY <1>1, <1>2, HoldsFacts
  <2>2. block' \in [1 .. BlockSize -> Byte]
    BY ContentsAssumption DEF Create, IInv, TypeOK
  <2>3. valid' \in BOOLEAN /\ size' \in 0 .. BlockSize
    BY <1>1, Sizes DEF Create
  <2> QED BY <2>1, <2>2, <2>3, <1>1, <1>2, SilentType DEF TypeOK
<1>5. FileHolds'
  BY <1>1, EmptyText, Sizes DEF FileHolds, BlockFrom, BlockBegins
<1>6. NoFile' /\ JobHolds'
  BY <1>1 DEF NoFile, JobHolds, NoJob
<1> QED BY <1>1, <1>3, <1>4, <1>5, <1>6, Silent DEF IInv

LEMMA FormatInvariant ==
    ASSUME IInv, Format
    PROVE  IInv'
<1>1. /\ job = NoJob /\ ~valid' /\ size' = 0 /\ out' = Nothing /\ UNCHANGED <<block, job>>
      /\ texts' = {<<>>} /\ TypeOK /\ FuseHolds
      /\ fuse' = IF fuse = Idle THEN Idle ELSE [fuse EXCEPT !.wiped = TRUE]
  BY DEF Format, IInv
<1>2. {<<>>} \subseteq Seq(Byte) /\ {<<>>} # {}
  BY EmptyText
<1>3. /\ fuse' \in [pc : {"idle", "inode", "data"}, len : 0 .. BlockSize,
                    seen : SUBSET Seq(Byte), wiped : BOOLEAN]
      /\ fuse'.pc = "idle" => fuse' = Idle
      /\ fuse'.pc # "idle" => fuse'.wiped
  <2>1. CASE fuse = Idle
    BY <2>1, <1>1, Sizes DEF Idle
  <2>2. CASE fuse # Idle
    <3>1. fuse' = [fuse EXCEPT !.wiped = TRUE] /\ fuse.pc # "idle"
      BY <2>2, <1>1 DEF FuseHolds
    <3> QED BY <3>1, <1>1 DEF TypeOK
  <2> QED BY <2>1, <2>2
<1>4. TypeOK'
  <2>1. valid' \in BOOLEAN /\ size' \in 0 .. BlockSize
    <3>1. valid' = FALSE /\ size' = 0
      BY DEF Format
    <3>2. 0 \in 0 .. BlockSize
      BY Sizes
    <3> QED BY <3>1, <3>2, Zenon
  <2> QED BY <2>1, <1>1, <1>2, <1>3, SilentType DEF TypeOK
<1>5. FuseHolds'
  <2>1. fuse'.pc = "data" => fuse'.pc # "idle"
    OBVIOUS
  <2> QED BY <2>1, <1>3 DEF FuseHolds
<1>6. FileHolds'
  BY <1>1, EmptyText, Sizes DEF FileHolds, BlockFrom, BlockBegins
<1>7. NoFile' /\ JobHolds'
  BY <1>1 DEF NoFile, JobHolds, NoJob
<1> QED BY <1>1, <1>4, <1>5, <1>6, <1>7, Silent DEF IInv

LEMMA ResetInvariant ==
    ASSUME IInv, Reset
    PROVE  IInv'
<1>1. UNCHANGED <<valid, size, block, texts, fuse>> /\ job' = NoJob /\ out' = Nothing
  BY DEF Reset, disk
<1>2. NoJob \in [kind : {"idle", "data", "inode"}, text : Seq(Byte), meant : Seq(Byte)]
  BY EmptyText, Zenon DEF NoJob
<1>3. TypeOK'
  BY <1>1, <1>2, SilentType DEF IInv, TypeOK
<1>4. NoFile' /\ FileHolds' /\ FuseHolds' /\ JobHolds'
  BY <1>1 DEF IInv, NoFile, FileHolds, FuseHolds, JobHolds, BlockFrom, BlockBegins, NoJob
<1> QED BY <1>1, <1>3, <1>4, Silent DEF IInv

\* The beginning of the block, as it is shown.
LEMMA FetchFacts ==
    ASSUME TypeOK, NEW n \in 0 .. BlockSize
    PROVE  /\ Fetch(n) \in Seq(Byte) /\ Len(Fetch(n)) = n /\ DOMAIN Fetch(n) = 1 .. n
           /\ \A k \in 1 .. n : Fetch(n)[k] = block[k]
<1>1. block \in [1 .. BlockSize -> Byte] /\ BlockSize \in Nat /\ n \in Int /\ n >= 0
  BY Sizes DEF TypeOK
<1>2. \A k \in 1 .. n : block[k] \in Byte
  BY <1>1
<1>3. /\ SubSeq(block, 1, n) \in Seq(Byte)
      /\ Len(SubSeq(block, 1, n)) = IF 1 <= n THEN n - 1 + 1 ELSE 0
      /\ \A k \in 1 .. n - 1 + 1 : SubSeq(block, 1, n)[k] = block[1 + k - 1]
  BY <1>1, <1>2, SubSeqProperties
<1>4. Len(SubSeq(block, 1, n)) = n
  BY <1>1, <1>3
<1>5. \A k \in 1 .. n : SubSeq(block, 1, n)[k] = block[k]
  BY <1>1, <1>3
<1> QED BY <1>3, <1>4, <1>5, LenProperties DEF Fetch

\* What the block begins with is what the text begins with.
LEMMA FetchIsBeginning ==
    ASSUME TypeOK, NEW t \in Seq(Byte), BlockBegins(t), NEW n \in 0 .. BlockSize, n <= Len(t)
    PROVE  Fetch(n) = SubSeq(t, 1, n)
<1>1. Fetch(n) \in Seq(Byte) /\ Len(Fetch(n)) = n /\ \A k \in 1 .. n : Fetch(n)[k] = block[k]
  BY FetchFacts
<1>2. n \in Int /\ n >= 0 /\ Len(t) \in Nat /\ BlockSize \in Nat
  BY Sizes, LenProperties
<1>3. \A k \in 1 .. n : t[k] \in Byte /\ t[k] = block[k]
  <2>1. \A k \in 1 .. n : k \in 1 .. Len(t)
    BY <1>2
  <2> QED BY <2>1, ElementOfSeq DEF BlockBegins
<1>4. /\ SubSeq(t, 1, n) \in Seq(Byte)
      /\ Len(SubSeq(t, 1, n)) = IF 1 <= n THEN n - 1 + 1 ELSE 0
      /\ \A k \in 1 .. n - 1 + 1 : SubSeq(t, 1, n)[k] = t[1 + k - 1]
  BY <1>2, <1>3, SubSeqProperties
<1>5. Len(SubSeq(t, 1, n)) = n /\ \A k \in 1 .. n : SubSeq(t, 1, n)[k] = t[k]
  BY <1>2, <1>4
<1> QED BY <1>1, <1>3, <1>4, <1>5, SeqEqual

\* Output of bytes keeps its type.
LEMMA OutputType ==
    ASSUME NEW T \in SUBSET Seq(Byte), NEW w \in BOOLEAN,
           NEW k \in {"nothing", "error", "text", "view", "junk", "size"},
           NEW b \in Seq(Byte) \cup {<<n>> : n \in 0 .. BlockSize}
    PROVE  [kind |-> k, bytes |-> b, of |-> T, wiped |-> w] \in
               [kind : {"nothing", "error", "text", "view", "junk", "size"},
                bytes : Seq(Byte \cup 0 .. BlockSize), of : SUBSET Seq(Byte), wiped : BOOLEAN]
<1>1. b \in Seq(Byte \cup 0 .. BlockSize)
  <2>1. CASE b \in Seq(Byte)
    BY <2>1, SeqMonotonic
  <2>2. ASSUME NEW n \in 0 .. BlockSize PROVE <<n>> \in Seq(Byte \cup 0 .. BlockSize)
    OBVIOUS
  <2> QED BY <2>1, <2>2
<1> QED BY <1>1, Zenon

\* fsread.
LEMMA ReadInvariant ==
    ASSUME IInv, Read
    PROVE  IInv'
<1>1. UNCHANGED <<valid, size, block, texts, job, fuse>> /\ TypeOK /\ FileHolds
  BY DEF Read, disk, IInv
<1>2. NoFile' /\ FileHolds' /\ FuseHolds' /\ JobHolds'
  BY <1>1 DEF IInv, NoFile, FileHolds, FuseHolds, JobHolds, BlockFrom, BlockBegins
<1>3. CASE ~valid
  <2>1. out' = Error
    BY <1>3 DEF Read
  <2>2. TypeOK'
    BY <1>1, <2>1, SilentType DEF TypeOK
  <2> QED BY <1>2, <2>1, <2>2, Silent DEF IInv
<1>4. CASE valid
  <2>1. out' = [kind |-> "text", bytes |-> Fetch(size), of |-> texts, wiped |-> FALSE]
    BY <1>4 DEF Read, Output
  <2>2. size \in 0 .. BlockSize /\ texts \in SUBSET Seq(Byte)
    BY <1>1 DEF TypeOK
  <2>3. /\ Fetch(size) \in Seq(Byte) /\ DOMAIN Fetch(size) = 1 .. size
        /\ \A k \in 1 .. size : Fetch(size)[k] = block[k]
    BY <2>2, <1>1, FetchFacts
  <2>4. TypeOK'
    <3>1. out' \in [kind : {"nothing", "error", "text", "view", "junk", "size"},
                    bytes : Seq(Byte \cup 0 .. BlockSize), of : SUBSET Seq(Byte), wiped : BOOLEAN]
      BY <2>1, <2>2, <2>3, OutputType
    <3> QED BY <3>1, <1>1 DEF TypeOK
  <2>5. OnlyTypedBytesAreShown'
    <3>1. From(Fetch(size), texts)
      BY <2>3, <1>1 DEF From, FileHolds, BlockFrom
    <3> QED BY <2>1, <3>1 DEF OnlyTypedBytesAreShown, From
  <2>6. WholeTextIsShown'
    <3>1. ASSUME NEW t \in texts, texts = {t} PROVE Fetch(size) = Kept(t)
      <4>1. Kept(t) \in Seq(Byte) /\ size = Len(Kept(t)) /\ BlockBegins(Kept(t))
        BY <2>2, <3>1, <1>1, KeptFacts DEF FileHolds
      <4>2. Fetch(size) = SubSeq(Kept(t), 1, size)
        BY <4>1, <2>2, <1>1, FetchIsBeginning, LenProperties
      <4> QED BY <4>1, <4>2, SubSeqFull
    <3> QED BY <2>1, <3>1 DEF WholeTextIsShown
  <2> QED BY <1>2, <2>4, <2>5, <2>6 DEF IInv
<1> QED BY <1>3, <1>4

\* The size, as fsstat and getattr return it.
LEMMA SizeInvariant ==
    ASSUME IInv, UNCHANGED <<valid, size, block, texts, job, fuse>>,
           out' = IF valid THEN Output("size", <<size>>) ELSE Error
    PROVE  IInv'
<1>1. TypeOK /\ FileHolds
  BY DEF IInv
<1>2. NoFile' /\ FileHolds' /\ FuseHolds' /\ JobHolds'
  BY DEF IInv, NoFile, FileHolds, FuseHolds, JobHolds, BlockFrom, BlockBegins
<1>3. CASE ~valid
  <2>1. out' = Error
    BY <1>3
  <2>2. TypeOK'
    BY <1>1, <2>1, SilentType DEF TypeOK
  <2> QED BY <1>2, <2>1, <2>2, Silent DEF IInv
<1>4. CASE valid
  <2>1. out' = [kind |-> "size", bytes |-> <<size>>, of |-> texts, wiped |-> FALSE]
    BY <1>4 DEF Output
  <2>2. size \in 0 .. BlockSize /\ texts \in SUBSET Seq(Byte)
    BY <1>1 DEF TypeOK
  <2>3. TypeOK'
    <3>1. out' \in [kind : {"nothing", "error", "text", "view", "junk", "size"},
                    bytes : Seq(Byte \cup 0 .. BlockSize), of : SUBSET Seq(Byte), wiped : BOOLEAN]
      <4>1. <<size>> \in {<<n>> : n \in 0 .. BlockSize}
        BY <2>2
      <4>2. "size" \in {"nothing", "error", "text", "view", "junk", "size"} /\ FALSE \in BOOLEAN
        BY Zenon
      <4>3. PICK s \in Seq(Byte) \cup {<<n>> : n \in 0 .. BlockSize} : s = <<size>>
        BY <4>1
      <4>4. [kind |-> "size", bytes |-> s, of |-> texts, wiped |-> FALSE] \in
                [kind : {"nothing", "error", "text", "view", "junk", "size"},
                 bytes : Seq(Byte \cup 0 .. BlockSize), of : SUBSET Seq(Byte), wiped : BOOLEAN]
        BY <2>2, <4>2, OutputType
      <4> QED BY <2>1, <4>3, <4>4
    <3> QED BY <3>1, <1>1 DEF TypeOK
  <2>4. OnlyTypedBytesAreShown'
    BY <2>1 DEF OnlyTypedBytesAreShown
  <2>5. WholeTextIsShown'
    BY <2>1, <1>1 DEF WholeTextIsShown, FileHolds
  <2> QED BY <1>2, <2>3, <2>4, <2>5 DEF IInv
<1> QED BY <1>3, <1>4

-----------------------------------------------------------------------------
(* do_read.                                                                 *)

LEMMA FuseStatInvariant ==
    ASSUME IInv, NEW request \in Requests, FuseStat(request)
    PROVE  IInv'
<1>1. UNCHANGED <<valid, size, block, texts, job>> /\ TypeOK /\ FileHolds
  BY DEF FuseStat, disk, IInv
<1>2. NoFile' /\ FileHolds' /\ JobHolds'
  BY <1>1 DEF IInv, NoFile, FileHolds, JobHolds, BlockFrom, BlockBegins
<1>3. CASE ~valid
  <2>1. out' = Error /\ UNCHANGED fuse
    BY <1>3 DEF FuseStat
  <2>2. TypeOK'
    BY <1>1, <2>1, SilentType DEF TypeOK
  <2>3. FuseHolds'
    BY <1>1, <2>1 DEF IInv, FuseHolds, BlockFrom
  <2> QED BY <1>2, <2>1, <2>2, <2>3, Silent DEF IInv
<1>4. CASE valid
  <2> DEFINE n == Min({size, request})
  <2>1. out' = Nothing /\ fuse' = [Idle EXCEPT !.pc = "inode", !.len = n, !.seen = texts]
    BY <1>4 DEF FuseStat
  <2>2. size \in 0 .. BlockSize /\ request \in Nat /\ texts \in SUBSET Seq(Byte) /\ texts # {}
    BY <1>1, ContentsAssumption DEF TypeOK
  <2>3. n \in Nat /\ n <= size
    <3>1. {size, request} \subseteq Nat /\ {size, request} # {}
      BY <2>2, Sizes
    <3> QED BY <3>1, Minimum
  <2> HIDE DEF n
  <2>4. fuse' = [pc |-> "inode", len |-> n, seen |-> texts, wiped |-> FALSE]
    BY <2>1 DEF Idle
  <2>5. TypeOK'
    <3>1. n \in 0 .. BlockSize
      BY <2>2, <2>3, Sizes
    <3>2. fuse' \in [pc : {"idle", "inode", "data"}, len : 0 .. BlockSize,
                    seen : SUBSET Seq(Byte), wiped : BOOLEAN]
      BY <3>1, <2>2, <2>4, Zenon
    <3> QED BY <3>2, <2>1, <1>1, SilentType DEF TypeOK
  <2>6. FuseHolds'
    <3>1. \A t \in texts : texts = {t} => n <= Len(Kept(t))
      BY <1>1, <2>3 DEF FileHolds
    <3>2. n > 0 => size > 0
      BY <2>2, <2>3, Sizes
    <3> QED BY <3>1, <3>2, <2>4, <1>1, <1>4 DEF FuseHolds
  <2> QED BY <1>2, <2>1, <2>5, <2>6, Silent DEF IInv
<1> QED BY <1>3, <1>4

\* What an answer leaves behind.
LEMMA AnswerKeeps ==
    ASSUME IInv, UNCHANGED <<valid, size, block, texts, job>>, fuse' = Idle
    PROVE  NoFile' /\ FileHolds' /\ JobHolds' /\ FuseHolds'
BY DEF IInv, NoFile, FileHolds, JobHolds, FuseHolds, BlockFrom, BlockBegins, Idle

LEMMA IdleType ==
    Idle \in [pc : {"idle", "inode", "data"}, len : 0 .. BlockSize,
              seen : SUBSET Seq(Byte), wiped : BOOLEAN]
BY Sizes DEF Idle

LEMMA FuseInodeInvariant ==
    ASSUME IInv, FuseInode
    PROVE  IInv'
<1>1. /\ UNCHANGED <<valid, size, block, texts, job>> /\ TypeOK /\ FileHolds /\ FuseHolds
      /\ fuse.pc = "inode" /\ fuse.pc # "idle"
  BY DEF FuseInode, disk, IInv
<1>2. fuse.seen \in SUBSET Seq(Byte) /\ fuse.wiped \in BOOLEAN /\ fuse.len \in 0 .. BlockSize
  BY <1>1 DEF TypeOK
<1>3. CASE ~valid \/ size = 0
  <2> DEFINE kind == IF fuse.len = 0 THEN "view" ELSE "junk"
  <2>1. /\ fuse' = Idle
        /\ out' = [kind |-> kind, bytes |-> <<>>, of |-> fuse.seen, wiped |-> fuse.wiped]
    BY <1>3 DEF FuseInode, Answer
  <2>2. kind = "junk" => fuse.wiped
    <3>1. SUFFICES ASSUME fuse.len # 0, ~fuse.wiped PROVE FALSE
      OBVIOUS
    <3>2. fuse.len > 0
      BY <3>1, <1>2, Sizes
    <3> QED BY <3>1, <3>2, <1>1, <1>3 DEF FuseHolds
  <2>3. kind \in {"view", "junk"}
    OBVIOUS
  <2> HIDE DEF kind
  <2>4. TypeOK'
    <3>1. out' \in [kind : {"nothing", "error", "text", "view", "junk", "size"},
                    bytes : Seq(Byte \cup 0 .. BlockSize), of : SUBSET Seq(Byte), wiped : BOOLEAN]
      BY <2>1, <2>3, <1>2, EmptyText, OutputType, ZenonT(30)
    <3> QED BY <3>1, <2>1, <1>1, IdleType DEF TypeOK
  <2>5. OnlyTypedBytesAreShown'
    BY <2>1, <2>2, EmptyText DEF OnlyTypedBytesAreShown, From
  <2>6. WholeTextIsShown'
    <3>1. \A t \in fuse.seen : SubSeq(Kept(t), 1, 0) = <<>> /\ 0 <= Len(Kept(t))
      BY <1>2, SubSeqEmpty, KeptFacts
    <3> QED BY <2>1, <2>3, <3>1, EmptyText DEF WholeTextIsShown
  <2> QED BY <2>1, <2>4, <2>5, <2>6, <1>1, AnswerKeeps DEF IInv
<1>4. CASE valid /\ size > 0 /\ size < fuse.len
  <2>1. out' = Error /\ fuse' = Idle
    BY <1>1, <1>2, <1>4, Sizes, SMTT(30) DEF FuseInode, TypeOK
  <2>2. TypeOK'
    BY <1>1, <2>1, SilentType, IdleType DEF TypeOK
  <2> QED BY <2>1, <2>2, <1>1, AnswerKeeps, Silent DEF IInv
<1>5. CASE valid /\ size > 0 /\ size >= fuse.len
  <2>1. out' = Nothing /\ fuse' = [fuse EXCEPT !.pc = "data"]
    BY <1>1, <1>2, <1>5, Sizes, SMTT(30) DEF FuseInode, TypeOK
  <2>2. /\ fuse' \in [pc : {"idle", "inode", "data"}, len : 0 .. BlockSize,
                      seen : SUBSET Seq(Byte), wiped : BOOLEAN]
        /\ fuse'.pc = "data" /\ fuse'.len = fuse.len /\ fuse'.seen = fuse.seen
        /\ fuse'.wiped = fuse.wiped
    BY <2>1, <1>1 DEF TypeOK
  <2>3. TypeOK'
    BY <1>1, <2>1, <2>2, SilentType DEF TypeOK
  <2>4. FuseHolds'
    <3>1. ASSUME ~fuse.wiped PROVE BlockFrom(fuse.len, fuse.seen)
      <4>1. texts \subseteq fuse.seen
        BY <3>1, <1>1 DEF FuseHolds
      <4>2. \A k \in 1 .. fuse.len : k \in 1 .. size
        BY <1>1, <1>2, <1>5, Sizes DEF TypeOK
      <4> QED BY <4>1, <4>2, <1>1 DEF FileHolds, BlockFrom
    <3> QED BY <3>1, <2>2, <1>1 DEF FuseHolds, BlockFrom
  <2>5. NoFile' /\ FileHolds' /\ JobHolds'
    BY <1>1 DEF IInv, NoFile, FileHolds, JobHolds, BlockFrom, BlockBegins
  <2> QED BY <2>1, <2>3, <2>4, <2>5, Silent DEF IInv
<1>6. size \in Nat /\ fuse.len \in Nat
  BY <1>1, <1>2, Sizes DEF TypeOK
<1> QED BY <1>3, <1>4, <1>5, <1>6

LEMMA FuseDataInvariant ==
    ASSUME IInv, FuseData
    PROVE  IInv'
<1> DEFINE n == fuse.len
<1>1. /\ UNCHANGED <<valid, size, block, texts, job>> /\ TypeOK /\ FileHolds /\ FuseHolds
      /\ fuse.pc = "data" /\ fuse' = Idle
      /\ out' = [kind |-> "view", bytes |-> Fetch(n), of |-> fuse.seen, wiped |-> fuse.wiped]
  BY DEF FuseData, Answer, disk, IInv
<1>2. fuse.seen \in SUBSET Seq(Byte) /\ fuse.wiped \in BOOLEAN /\ n \in 0 .. BlockSize
  BY <1>1 DEF TypeOK
<1>3. /\ Fetch(n) \in Seq(Byte) /\ Len(Fetch(n)) = n /\ DOMAIN Fetch(n) = 1 .. n
      /\ \A k \in 1 .. n : Fetch(n)[k] = block[k]
  BY <1>1, <1>2, FetchFacts
<1>4. TypeOK'
  <2>1. out' \in [kind : {"nothing", "error", "text", "view", "junk", "size"},
                  bytes : Seq(Byte \cup 0 .. BlockSize), of : SUBSET Seq(Byte), wiped : BOOLEAN]
    BY <1>1, <1>2, <1>3, OutputType, ZenonT(30)
  <2> QED BY <2>1, <1>1, IdleType DEF TypeOK
<1>5. OnlyTypedBytesAreShown'
  <2>1. ~fuse.wiped => From(Fetch(n), fuse.seen)
    BY <1>1, <1>3 DEF FuseHolds, BlockFrom, From
  <2> QED BY <2>1, <1>1 DEF OnlyTypedBytesAreShown, From
<1>6. WholeTextIsShown'
  <2>1. ASSUME NEW t \in fuse.seen, fuse.seen = {t}, ~fuse.wiped
        PROVE  /\ Len(Fetch(n)) <= Len(Kept(t))
               /\ Fetch(n) = SubSeq(Kept(t), 1, Len(Fetch(n)))
    <3>1. texts \subseteq fuse.seen /\ texts # {} /\ n <= Len(Kept(t))
      BY <2>1, <1>1 DEF FuseHolds, TypeOK
    <3>2. texts = {t} /\ Kept(t) \in Seq(Byte)
      BY <3>1, <2>1, <1>2, KeptFacts
    <3>3. BlockBegins(Kept(t))
      BY <3>2, <1>1 DEF FileHolds
    <3> QED BY <3>1, <3>2, <3>3, <1>1, <1>2, <1>3, FetchIsBeginning
  <2> QED BY <2>1, <1>1 DEF WholeTextIsShown
<1> QED BY <1>1, <1>4, <1>5, <1>6, AnswerKeeps DEF IInv

-----------------------------------------------------------------------------
(* Every step, and the theorems.                                            *)

LEMMA NextInvariant ==
    ASSUME IInv, [Next]_vars
    PROVE  IInv'
<1>1. CASE Create
  BY <1>1, CreateInvariant
<1>2. CASE Format
  BY <1>2, FormatInvariant
<1>3. CASE Read
  BY <1>3, ReadInvariant
<1>4. CASE Stat \/ Getattr
  BY <1>4, SizeInvariant DEF Stat, Getattr, disk
<1>5. CASE WriteData
  BY <1>5, WriteDataInvariant
<1>6. CASE WriteInode
  BY <1>6, WriteInodeInvariant
<1>7. CASE \E keys \in Inputs : Write(keys)
  BY <1>7, WriteInvariant
<1>8. CASE FuseInode
  BY <1>8, FuseInodeInvariant
<1>9. CASE FuseData
  BY <1>9, FuseDataInvariant
<1>10. CASE \E n \in Requests : FuseStat(n)
  BY <1>10, FuseStatInvariant
<1>11. CASE Reset
  BY <1>11, ResetInvariant
<1>12. CASE UNCHANGED vars
  BY <1>12 DEF vars, disk, IInv, TypeOK, NoFile, FileHolds, JobHolds, FuseHolds, BlockFrom,
               BlockBegins, OnlyTypedBytesAreShown, WholeTextIsShown, From
<1> QED BY <1>1, <1>2, <1>3, <1>4, <1>5, <1>6, <1>7, <1>8, <1>9, <1>10, <1>11, <1>12
        DEF Next, Shell, Fuse

\* The invariant is one.
THEOREM Invariance == Spec => []IInv
<1>1. Init => IInv
  BY InitInvariant
<1>2. IInv /\ [Next]_vars => IInv'
  BY NextInvariant
<1> QED BY <1>1, <1>2, PTL DEF Spec

\* Every variable keeps its type, and no file exceeds its block, whatever is typed.
THEOREM TypeCorrectness == Spec => []TypeOK
<1>1. IInv => TypeOK
  BY DEF IInv
<1> QED BY <1>1, Invariance, PTL

\* Neither the shell nor the bindings show a byte that was not typed into the file.
THEOREM NoStrangeBytes == Spec => []OnlyTypedBytesAreShown
<1>1. IInv => OnlyTypedBytesAreShown
  BY DEF IInv
<1> QED BY <1>1, Invariance, PTL

\* A text that is complete is what the file holds; of any other it holds the beginning
\* that fswrite keeps, whatever is typed.
THEOREM TextRoundTrip == Spec => []WholeTextIsShown
<1>1. IInv => WholeTextIsShown
  BY DEF IInv
<1> QED BY <1>1, Invariance, PTL
=============================================================================
