--------------------------- MODULE MCFileManager ---------------------------
(***************************************************************************)
(* Small instances of FileManager for TLC.                                 *)
(***************************************************************************)
EXTENDS FileManager

CONSTANT b1  \* the block of a piece

OneBlock == {b1}
=============================================================================
