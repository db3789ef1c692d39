---------------------------- MODULE MCPayoutRails ----------------------------
(* A small instance of PayoutRails for TLC. *)
EXTENDS PayoutRails
=============================================================================
