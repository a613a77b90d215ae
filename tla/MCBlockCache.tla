---------------------------- MODULE MCBlockCache ----------------------------
(***************************************************************************)
(* Small instances of BlockCache: a disk of 2 x 2 sectors, blocks of two   *)
(* bytes, a cache of two or three entries.                                 *)
(***************************************************************************)
EXTENDS BlockCache

MCByte  == {"0", "x", " ", "nl"}
MCSpace == {" ", "nl"}

\* Two contents that can be told apart, none led by white space.
MCOneData == {<<"0", "0">>}

MCData == {<<"0", "0">>, <<"x", "0">>}

\* As MCData, with a block whose first byte is a space.
MCSpacedData == {<<"0", "0">>, <<" ", "x">>}

\* One number below the first sector, one above the last.
MCBlockNos == -1 .. NBlocks

\* Before a mount, and after the format of this disk.
MCSbSizes == {0, NBlocks}

\* After a mount of an image that was formatted for one block more.
MCLargerSbSizes == {0, NBlocks + 1}

=============================================================================
