------------------------------- MODULE MCFaucet -------------------------------
(* Small instances of Faucet for TLC.                                      *)
EXTENDS FaucetInv
=============================================================================
