-------------------------- MODULE MCProtocolReader --------------------------
(***************************************************************************)
(* Instances of ProtocolReader for TLC.  The packets differ in length and  *)
(* in every cell but the code, so that a lost, repeated or mixed-up cell   *)
(* shows.                                                                  *)
(***************************************************************************)
EXTENDS ProtocolReader

MCPackets == {<<1, 3, 7>>, <<2, 4, 7, 8>>, <<1, 6, 7, 2, 4, 9>>}

=============================================================================
