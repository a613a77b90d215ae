----------------------------- MODULE MCFileData -----------------------------
(***************************************************************************)
(* Small instances of FileData: blocks of two cells and one direct pointer *)
(* make a file of nine blocks reach every level of the block map.          *)
(***************************************************************************)
EXTENDS FileData

Fill(x, n) == [i \in 1..n |-> x]

\* Four of the longest stay below the largest file.
MCStrings == {<<101>>, <<102, 103, 102>>, Fill(104, 4)}

\* Within the first block, across blocks, behind the end.
MCPositions == {0, 3, 10}

\* Nothing, one byte, across blocks, more than any file has.
MCLengths == {0, 1, 5, 100}

\* What atoi makes of "-2", as the unsigned number cmd_d takes it for.
MCWrapLengths == {WORD - 2}

=============================================================================
