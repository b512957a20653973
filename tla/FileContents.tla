----------------------------- MODULE FileContents -----------------------------
(***************************************************************************)
(* What a file holds: the text typed into fswrite (shell_in_c/main.c), the *)
(* disk it goes to (fs.c), what fsread prints, and what the FUSE bindings  *)
(* (fs/src/fuse), a program of the host that opens the same disk file,     *)
(* show of it meanwhile.                                                   *)
(*                                                                         *)
(* The file is inode 0, the only one that the bindings look at. Every text *)
(* the shell writes goes into the file's first block, at offset zero.      *)
(* Memory and the choice of blocks are in FileSystem; here a disk_write    *)
(* may find no memory, but whoever reads does.                             *)
(***************************************************************************)
EXTENDS Naturals, Sequences, FiniteSetsExt

CONSTANTS
    Byte,
    NUL, E, O, F,  \* the bytes '\0', 'E', 'O' and 'F'
    InputLen,      \* how many keys fswrite takes at most (63)
    BlockSize,     \* BLOCK_SIZE (512)
    Pointers,      \* POINTERS_PER_INODE (5)
    SizeMod,       \* size_t counts modulo this (2^16 on the 65C02)
    Inputs,        \* what the user may type
    Leftover,      \* what a block may hold before a file gets it
    Requests       \* the sizes FUSE reads with

ASSUME ContentsAssumption ==
    /\ {NUL, E, O, F} \subseteq Byte /\ NUL \notin {E, O, F}
    /\ InputLen \in Nat /\ InputLen > 3 /\ InputLen - 3 <= BlockSize
    /\ BlockSize \in Nat \ {0} /\ Pointers \in Nat \ {0}
    /\ SizeMod \in Nat /\ SizeMod > (Pointers * BlockSize) + 3
    /\ Leftover \subseteq [1 .. BlockSize -> Byte] /\ Requests \subseteq Nat
ASSUME InputAssumption == Inputs \subseteq [1 .. InputLen -> Byte]

VARIABLES
    valid, size,  \* the inode, on the disk
    block,        \* its first block, on the disk
    texts,        \* history: the texts that bytes of the file may come from
    job,          \* the fswrite under way
    fuse,         \* the do_read under way; history: what texts has been since it started,
                  \*   and whether a format fell into it
    out           \* what the last step printed or returned, and the texts it may come from

disk == <<valid, size, block>>
vars == <<disk, texts, job, fuse, out>>

Nothing == [kind |-> "nothing", bytes |-> <<>>, of |-> {}, wiped |-> FALSE]
Error == [kind |-> "error", bytes |-> <<>>, of |-> {}, wiped |-> FALSE]
Output(k, bytes) == [kind |-> k, bytes |-> bytes, of |-> texts, wiped |-> FALSE]
NoJob == [kind |-> "idle", text |-> <<>>, meant |-> <<>>]
Idle == [pc |-> "idle", len |-> 0, seen |-> {}, wiped |-> FALSE]

\* The file's bytes come from the texts T from now on.
Holds(T) ==
    /\ texts' = T
    /\ fuse' = IF fuse = Idle THEN Idle ELSE [fuse EXCEPT !.seen = @ \cup T]

Init ==
    /\ valid = FALSE /\ size = 0 /\ block \in Leftover /\ texts = {<<>>}
    /\ job = NoJob /\ fuse = Idle /\ out = Nothing

-----------------------------------------------------------------------------
(* fswrite.                                                                 *)

\* The keys after which the input ends: "EOF" counts from the fourth key on.
Ends(keys) == {k \in 4 .. InputLen : SubSeq(keys, k - 2, k) = <<E, O, F>>}
Taken(keys) == SubSeq(keys, 1, Min(Ends(keys) \cup {InputLen}))
Strlen(s) == Min({k - 1 : k \in {j \in DOMAIN s : s[j] = NUL}} \cup {Len(s)})

\* Mutant of Length: one character of the terminator is kept.
LengthTwo(keys) == ((Strlen(Taken(keys)) + SizeMod) - 2) % SizeMod

\* strlen(data) - 3, of an unsigned type.
Length(keys) == ((Strlen(Taken(keys)) + SizeMod) - 3) % SizeMod

\* What fs_write finds too big for one inode at offset zero.
TooBig(len) == len > BlockSize /\ ((len - BlockSize) \div BlockSize) + 2 > Pointers

\* The text the user means: what precedes "EOF", or everything the computer takes.
Meant(keys) ==
    IF Ends(keys) = {} THEN keys ELSE SubSeq(keys, 1, Min(Ends(keys)) - 3)

\* shell_fs_write up to fs_write's first disk_write; a file without a block is an
\* error as well. An empty text is no call of fs_write at all.
Write(keys) ==
    /\ job = NoJob /\ Length(keys) # 0
    /\ \/ /\ ~valid \/ TooBig(Length(keys))
          /\ out' = Error /\ UNCHANGED job
       \/ /\ valid /\ ~TooBig(Length(keys)) /\ out' = Nothing
          /\ job' = [kind |-> "data", meant |-> Meant(keys), text |-> SubSeq(keys, 1, Length(keys))]
    /\ UNCHANGED <<disk, texts, fuse>>

\* Mutant of Overlay: the block is not read first.
OverlayNew(b, text) == [k \in 1 .. BlockSize |-> IF k <= Len(text) THEN text[k] ELSE NUL]

\* fs_write_data_block at offset zero.
Overlay(b, text) == [k \in 1 .. BlockSize |-> IF k <= Len(text) THEN text[k] ELSE b[k]]

WriteData ==
    /\ job.kind = "data" /\ job' = [job EXCEPT !.kind = "inode"]
    /\ block' = Overlay(block, job.text) /\ Holds(texts \cup {job.meant})
    /\ out' = Nothing /\ UNCHANGED <<valid, size>>

\* Mutant of WriteInode: a shorter text does not truncate the file.
WriteInodeGrows ==
    /\ job.kind = "inode" /\ job' = NoJob
    /\ size' = Max({size, Len(job.text)}) /\ Holds({job.meant})
    /\ out' = Nothing /\ UNCHANGED <<valid, block>>

\* The inode, always truncated to the text.
WriteInode ==
    /\ job.kind = "inode" /\ job' = NoJob
    /\ size' = Len(job.text) /\ Holds({job.meant})
    /\ out' = Nothing /\ UNCHANGED <<valid, block>>

-----------------------------------------------------------------------------
(* The other commands, and a reset.                                         *)

\* fs_create writes the inode and leaves the block as it is.
Create ==
    /\ job = NoJob /\ ~valid /\ valid' = TRUE /\ size' = 0
    /\ block' \in Leftover \cup {block} /\ Holds({<<>>})
    /\ out' = Nothing /\ UNCHANGED job

\* fs_format's first inode block.
Format ==
    /\ job = NoJob /\ valid' = FALSE /\ size' = 0 /\ texts' = {<<>>}
    /\ fuse' = IF fuse = Idle THEN Idle ELSE [fuse EXCEPT !.wiped = TRUE]
    /\ out' = Nothing /\ UNCHANGED <<block, job>>

\* The first len bytes of the file, as fs_read gets them from its first block.
Fetch(len) == SubSeq(block, 1, len)

\* shell_fs_read and shell_fs_stat.
Read ==
    /\ job = NoJob /\ out' = IF valid THEN Output("text", Fetch(size)) ELSE Error
    /\ UNCHANGED <<disk, texts, job, fuse>>
Stat ==
    /\ job = NoJob /\ out' = IF valid THEN Output("size", <<size>>) ELSE Error
    /\ UNCHANGED <<disk, texts, job, fuse>>

\* A reset in the middle of fswrite. A disk_write that finds no memory leaves the disk
\* the same way: nothing is freed before the next one, which finds none either.
Reset ==
    /\ job # NoJob /\ job' = NoJob /\ out' = Nothing
    /\ UNCHANGED <<disk, texts, fuse>>

-----------------------------------------------------------------------------
(* do_read and do_getattr of the bindings: each disk_read opens the disk    *)
(* file anew, so the computer may write between any two of them.            *)

Answer(k, bytes) ==
    /\ out' = [kind |-> k, bytes |-> bytes, of |-> fuse.seen, wiped |-> fuse.wiped]
    /\ fuse' = Idle

Getattr ==
    /\ fuse = Idle /\ out' = IF valid THEN Output("size", <<size>>) ELSE Error
    /\ UNCHANGED <<disk, texts, job, fuse>>

\* fs_stat, and the length that is asked of fs_read; the offset is ignored.
FuseStat(request) ==
    /\ fuse = Idle
    /\ \/ ~valid /\ out' = Error /\ UNCHANGED fuse
       \/ /\ valid /\ out' = Nothing
          /\ fuse' = [Idle EXCEPT !.pc = "inode", !.len = Min({size, request}), !.seen = texts]
    /\ UNCHANGED <<disk, texts, job>>

\* fs_read's inode. A file without bytes is read without error, and the buffer
\* keeps what it held.
FuseInode ==
    /\ fuse.pc = "inode"
    /\ \/ /\ ~valid \/ size = 0
          /\ Answer(IF fuse.len = 0 THEN "view" ELSE "junk", <<>>)
       \/ /\ valid /\ size > 0 /\ size < fuse.len
          /\ out' = Error /\ fuse' = Idle
       \/ /\ valid /\ size > 0 /\ size >= fuse.len
          /\ out' = Nothing /\ fuse' = [fuse EXCEPT !.pc = "data"]
    /\ UNCHANGED <<disk, texts, job>>

FuseData ==
    /\ fuse.pc = "data" /\ Answer("view", Fetch(fuse.len))
    /\ UNCHANGED <<disk, texts, job>>

-----------------------------------------------------------------------------
Shell ==
    \/ Create \/ Format \/ Read \/ Stat \/ WriteData \/ WriteInode
    \/ \E keys \in Inputs : Write(keys)

Fuse == Getattr \/ FuseInode \/ FuseData \/ \E n \in Requests : FuseStat(n)

Next == Shell \/ Fuse \/ Reset

Spec == Init /\ [][Next]_vars

-----------------------------------------------------------------------------
(* Properties.                                                              *)

\* Every variable holds a value of its kind; a file is never longer than its block.
TypeOK ==
    /\ valid \in BOOLEAN /\ size \in 0 .. BlockSize /\ block \in [1 .. BlockSize -> Byte]
    /\ texts \subseteq Seq(Byte) /\ texts # {}
    /\ job \in [kind : {"idle", "data", "inode"}, text : Seq(Byte), meant : Seq(Byte)]
    /\ fuse \in [pc : {"idle", "inode", "data"}, len : 0 .. BlockSize,
                seen : SUBSET Seq(Byte), wiped : BOOLEAN]
    /\ out \in [kind : {"nothing", "error", "text", "view", "junk", "size"},
               bytes : Seq(Byte \cup 0 .. BlockSize), of : SUBSET Seq(Byte), wiped : BOOLEAN]

\* Each byte is a byte of one of the texts T at the same place.
From(bytes, T) == \A k \in DOMAIN bytes : \E t \in T : k \in DOMAIN t /\ t[k] = bytes[k]

\* In-place writes of a block that other files have used (fs.c:188), cut by a reset
\* between data and inode, and read meanwhile by a second program that reads the
\* inode twice (fuse_binds.c:105-110): still no byte is shown that was not typed into
\* this file, at its place, by the last completed fswrite or a later one. Only a
\* format in the middle of a do_read can make it return what its buffer held.
OnlyTypedBytesAreShown ==
    /\ out.kind \in {"text", "view"} => out.wiped \/ From(out.bytes, out.of)
    /\ out.kind = "junk" => out.wiped

\* A text of which nothing is given up: it leaves room for "EOF" and has no NUL.
Complete(t) == Len(t) <= InputLen - 3 /\ \A k \in DOMAIN t : t[k] # NUL

\* Of any other text the computer keeps what precedes its first NUL, or its end, but for
\* three characters: strlen(data) - 3 takes them for "EOF" (main.c:228).
Kept(t) == IF Complete(t) THEN t ELSE SubSeq(t, 1, Strlen(t) - 3)

\* Unless a write was cut or overlaps, fsread prints exactly the text that was typed
\* before "EOF", fsstat and getattr its length, and do_read its beginning. A text that
\* fills all the keys there are, "Space for 63 characters" (main.c:198), or with a NUL in
\* it is shown up to where fswrite gave it up, and not a byte further.
WholeTextIsShown ==
    \A t \in out.of : out.of = {t} /\ ~out.wiped =>
        /\ out.kind = "text" => out.bytes = Kept(t)
        /\ out.kind = "view" =>
               Len(out.bytes) <= Len(Kept(t)) /\ out.bytes = SubSeq(Kept(t), 1, Len(out.bytes))
        /\ out.kind = "size" => out.bytes = <<Len(Kept(t))>>
=============================================================================
