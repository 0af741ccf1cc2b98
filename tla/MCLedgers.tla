------------------------------ MODULE MCLedgers ------------------------------
(***************************************************************************)
(* Ledgers with two accounts, as the services open, and an id no account   *)
(* has.  U64_MAX is what the accounts hold together: a transfer may meet   *)
(* the limit and may not pass it.                                          *)
(***************************************************************************)
EXTENDS Ledgers, TLC

Opening == 1 :> 2 @@ 2 :> 1
=============================================================================
