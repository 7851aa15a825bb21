----------------------------- MODULE MCServXML -----------------------------
(* One update file and two uploads, on one of which the import hangs; see   *)
(* MCExchange for the order of the names.                                  *)
EXTENDS ServXML, TLC

CONSTANTS early, late, x1, x2

Order  == (early :> 1) @@ (Null :> 2) @@ (NullObmenAll :> 3) @@ (ObmenAll :> 4)
          @@ (late :> 5)
MCRank == [n \in Names |-> Order[n]]
=============================================================================
