--------------------------- MODULE BlockOwnership ----------------------------
(***************************************************************************)
(* What a block file system promises about its blocks: a file obtains only *)
(* blocks that no file has, keeps them until it is erased, and files are   *)
(* erased in groups, those whose records share a block of the disk.        *)
(***************************************************************************)

CONSTANTS
    Files,  \* the files
    Disk,   \* the blocks
    Groups  \* sets of files that are erased together

VARIABLE owned  \* the blocks of each file

Unowned == Disk \ UNION {owned[f] : f \in Files}

Init == owned = [f \in Files |-> {}]

Extend(f) ==
    \E S \in SUBSET Unowned : owned' = [owned EXCEPT ![f] = @ \cup S]

Erase(g) == owned' = [f \in Files |-> IF f \in g THEN {} ELSE owned[f]]

Next == (\E f \in Files : Extend(f)) \/ (\E g \in Groups : Erase(g))

Spec == Init /\ [][Next]_owned
=============================================================================
