---------------------------- MODULE MCFileContents ----------------------------
(* A small instance of FileContents for TLC: eight keys, blocks of five bytes. *)
EXTENDS FileContents

\* The bytes: 0 is NUL, 1 to 3 are E, O and F, 4 to 6 other letters.
\* Texts of one and of five characters; one without an end, with EOF too early; a NUL
\* that cuts the text short, one that leaves none, and one that makes its length wrap.
MCInputs == {<<4, 1, 2, 3, 4, 4, 4, 4>>, <<5, 5, 4, 4, 5, 1, 2, 3>>,
             <<1, 2, 3, 4, 4, 4, 5, 4>>, <<4, 4, 5, 5, 0, 1, 2, 3>>,
             <<4, 5, 4, 0, 1, 2, 3, 4>>, <<4, 0, 5, 4, 5, 4, 4, 4>>}
MCLeftover == {<<6, 6, 6, 6, 6>>}
=============================================================================
