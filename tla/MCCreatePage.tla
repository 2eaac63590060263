----------------------------- MODULE MCCreatePage -----------------------------
(* The wizard alone, with one amount that is a whole number of units.          *)
EXTENDS CreatePage
=============================================================================
