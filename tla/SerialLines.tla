----------------------------- MODULE SerialLines -----------------------------
(***************************************************************************)
(* What the threads of scheduler/main.s promise the reader of the serial   *)
(* line: one writer at a time owns it, from the first byte of a text to    *)
(* the last, and the bytes of the text arrive in order, each once.         *)
(***************************************************************************)
EXTENDS Naturals

CONSTANTS
    Writers,   \* who writes lines
    NoWriter,  \* none of them
    Texts,     \* what they write
    Length(_)  \* how many bytes a text has

VARIABLES
    owner,  \* the writer of the current line, or NoWriter
    text,   \* the text it sends
    sent,   \* how many bytes of it have been sent
    wire    \* the last byte sent: its text and its index

vars == <<owner, text, sent, wire>>

Init == owner = NoWriter /\ wire = <<>>

Begin(w) ==
    /\ owner = NoWriter
    /\ owner' = w /\ text' \in Texts /\ sent' = 0
    /\ UNCHANGED wire

Send ==
    /\ owner # NoWriter /\ sent < Length(text)
    /\ wire' = <<text, sent>> /\ sent' = sent + 1
    /\ UNCHANGED <<owner, text>>

End ==
    /\ owner # NoWriter /\ sent = Length(text)
    /\ owner' = NoWriter
    /\ UNCHANGED wire

Next == (\E w \in Writers : Begin(w)) \/ Send \/ End

Spec == Init /\ [][Next]_vars
=============================================================================
