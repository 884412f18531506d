------------------------- MODULE MCAccountsService -------------------------
(***************************************************************************)
(* The accounts service for TLC.  Nothing tells one call of the bus from   *)
(* another, so that states which differ in who does what are one.          *)
(***************************************************************************)
EXTENDS AccountsService, TLC

CallSymmetry == Permutations(Calls)
=============================================================================
