--------------------------- MODULE MCClassicArena ---------------------------
(***************************************************************************)
(* An instance of the classic heap for TLC.  With scaled bins, the         *)
(* requests need chunks of 32 and 48 bytes, and the last one overflows     *)
(* size_t.                                                                 *)
(***************************************************************************)
EXTENDS ClassicArena

SmallBlock == {0, 256}
SmallBlockSize == (0 :> 160) @@ (256 :> 96)
SmallRequest == {1, 40, SizeModulus - 12}
=============================================================================
