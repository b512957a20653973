------------------------------ MODULE Tokenizer ------------------------------
(***************************************************************************)
(* The tokenizer of serial/tokenizer.go: it takes the bytes that come from *)
(* the computer one by one and parts them into console text and packets,   *)
(*     magic value, length (low byte, high byte), body.                    *)
(***************************************************************************)
EXTENDS Naturals, Sequences

CONSTANTS
    Radix,  \* how many values a byte has (256)
    Magic   \* the magic value ("@cmdmode")

Byte == 0 .. Radix - 1

ASSUME MagicAssumption ==
    /\ Radix \in Nat \ {0, 1}
    /\ Magic \in Seq(Byte) /\ Len(Magic) > 0
    /\ \A k \in 2 .. Len(Magic) : Magic[k] # Magic[1]

\* matched: currToMatch; the bytes it has matched are in potentialTextData.
NewTokenizer == [state |-> "magic", matched |-> 0, length |-> 0, body |-> <<>>]
Potential(t) == SubSeq(Magic, 1, t.matched)
Matches(t, b) == b = Magic[t.matched + 1]

\* The tokenizer after byte b. A packet of length zero never ends: what it
\* swallows is of no consequence and is not kept here.
Advance(t, b) ==
    CASE t.state = "magic" /\ ~Matches(t, b) -> [t EXCEPT !.matched = 0]
      [] t.state = "magic" /\ Matches(t, b) /\ t.matched + 1 < Len(Magic) ->
           [t EXCEPT !.matched = @ + 1]
      [] t.state = "magic" /\ Matches(t, b) /\ t.matched + 1 = Len(Magic) ->
           [state |-> "size", matched |-> 0, length |-> 0, body |-> <<>>]
      [] t.state = "size" -> [t EXCEPT !.state = "size2", !.length = b]
      [] t.state = "size2" -> [t EXCEPT !.state = "data", !.length = (b * Radix) + @]
      [] t.state = "data" /\ Len(t.body) + 1 = t.length -> NewTokenizer
      [] t.state = "data" /\ Len(t.body) + 1 # t.length ->
           IF t.length = 0 THEN t ELSE [t EXCEPT !.body = Append(@, b)]

\* What byte b turns out to have been console text, potentialTextData included.
Text(t, b) ==
    IF t.state = "magic" /\ ~Matches(t, b) THEN Append(Potential(t), b) ELSE <<>>

\* Mutant of Token: one byte too many is waited for.
TokenLate(t, b) ==
    IF t.state = "data" /\ Len(t.body) = t.length THEN Append(t.body, b) ELSE <<>>

\* The body of the packet that byte b completes, or <<>>.
Token(t, b) ==
    IF t.state = "data" /\ Len(t.body) + 1 = t.length THEN Append(t.body, b) ELSE <<>>
=============================================================================
