----------------------------- MODULE MCCaioPage -----------------------------
(* Model-checking instance of the Caio page: its list of items before the  *)
(* ledger, and the cards it makes of them, for every bounded log.          *)
EXTENDS CaioPage
=============================================================================
