----------------------------- MODULE MCExchange -----------------------------
(* Two update files, one on each side of "Null.txt" in name order, and two *)
(* uploads.                                                                *)
EXTENDS Exchange, TLC

CONSTANTS early, late, x1, x2

MCRank == (early :> 1) @@ (Null :> 2) @@ (NullObmenAll :> 3) @@ (ObmenAll :> 4)
          @@ (late :> 5)
=============================================================================
