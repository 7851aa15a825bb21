----------------------------- MODULE MCNumPrefix -----------------------------
(* One importing process, keys 1..7: every subset of keys is reached. *)
EXTENDS NumPrefix
=============================================================================
