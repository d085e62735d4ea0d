--------------------------- MODULE MCUploadQueue ---------------------------
(* The instance of UploadQueue for TLC: five packets with four numbers, the *)
(* second of two bytes and sent twice, the third empty.                     *)
EXTENDS UploadQueue, TLC

CONSTANTS p0, p1, p2, p3, p4

Seqs5 == p0 :> 0 @@ p1 :> 1 @@ p2 :> 2 @@ p3 :> 3 @@ p4 :> 1
Lens4 == 0 :> 1 @@ 1 :> 2 @@ 2 :> 0 @@ 3 :> 1
=============================================================================
