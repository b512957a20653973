----------------------------- MODULE MCDiskLink ------------------------------
(* Small instances of DiskLink for TLC: bytes of five values, a magic value of *)
(* three bytes, blocks of three, one of which is the magic value itself.        *)
EXTENDS DiskLink

MCMagic == <<4, 3, 2>>
MCLine == <<0, 1>>
MCPrompt == <<1>>
MCMotd == <<1>>
MCData == {<<4, 3, 2>>, <<0, 1, 4>>}

\* Smaller still, for a user who types ahead, a reset and a pulled cable: the echo of Enter
\* begins like the magic value, and blocks that come as keys may spell it.
MCShortMagic == <<0, 2>>
MCShortLine == <<1>>
MCPlainData == {<<2>>}
=============================================================================
