----------------------------- MODULE MCFileSystem ----------------------------
(* Small instances of FileSystem for TLC: two inode blocks, three pointers per *)
(* inode, blocks of two bytes.                                                 *)
EXTENDS FileSystemProofs

\* Requests to the end of a block, past it, and from the middle of the file:
\* they need one block, two and three.
MCRequests == {[len |-> 2, off |-> 0], [len |-> 3, off |-> 0], [len |-> 3, off |-> 2]}
=============================================================================
