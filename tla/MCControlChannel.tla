-------------------------- MODULE MCControlChannel --------------------------
(***************************************************************************)
(* Instances of ControlChannel for TLC: one code of each kind, and a       *)
(* second counted code whose length is not the first field of the body.    *)
(***************************************************************************)
EXTENDS ControlChannel

GetConfig == 1
SetLocality == 2
HashData == 3
SetStateBlob == 4

MCBodySize == (SetLocality :> 1) @@ (HashData :> 1) @@ (SetStateBlob :> 2)

MCCommands ==
  {<<0, GetConfig>>, <<0, SetLocality, 9>>, <<0, HashData, 1, 6>>,
   <<0, SetStateBlob, 9, 0>>}

\* More data than a buffer of 4 has room for; the rest reads as
\* the code of CMD_SET_DATAFD.
MCLongCommand == <<0, HashData, 3, 9, 0, 6>>

\* CMD_SET_BUFFERSIZE and its body, the size.
SetBufferSize == 5

MCUnlisted == {<<0, SetBufferSize, 6>>}

=============================================================================
