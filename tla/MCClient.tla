----------------------------- MODULE MCClient -----------------------------
(* The instance of Client for TLC: two calls compete for one slot, and the *)
(* second connection attempt can follow a lost or cancelled first one.     *)
EXTENDS Client, TLC

=============================================================================
