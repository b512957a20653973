------------------------------- MODULE MCBoard --------------------------------
(* Small instances of Board for TLC: bytes of three bits, a chip that buffers two. *)
EXTENDS Board

MCHardware == {"um245r", "simulator"}
MCTexts == {<<2>>, <<6, 2>>}
MCMotd == <<2>>
MCPrompt == <<7>>

MCChipOnly == {"um245r"}
=============================================================================
