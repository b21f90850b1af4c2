---------------------------- MODULE MCTpm2Proxy ----------------------------
(***************************************************************************)
(* Instances of Tpm2Proxy for TLC: a short packet and a longer one, which  *)
(* differ in every cell but the code.                                      *)
(***************************************************************************)
EXTENDS Tpm2Proxy

MCPackets == {<<1, 3, 7>>, <<2, 4, 7, 8>>}

=============================================================================
