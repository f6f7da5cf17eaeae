--------------------------- MODULE MCFileTransfer ---------------------------
(***************************************************************************)
(* Small instances of FileTransfer.  The listing tells nothing of the      *)
(* second version, which is the longest; the others have the same size,    *)
(* the third a time just within the tolerance of the first, the fourth one  *)
(* just beyond that of the third.                                         *)
(***************************************************************************)
EXTENDS FileTransfer

FourSizes == <<2, 3, 2, 2>>
FourTimes == <<0, 0, 2, 5>>
=============================================================================
