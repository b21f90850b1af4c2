---------------------------- MODULE TpmExchange ----------------------------
(***************************************************************************)
(* What the proxy promises as a whole, seen by the two programs it stands  *)
(* between: a client that sends one command at a time and a TPM that       *)
(* answers one at a time, as if they were connected to each other          *)
(* (README.md:47-54).  Of the four histories the client writes the first   *)
(* and the TPM the third; the proxy may only extend the second and the     *)
(* fourth, each by the packet that is due.                                 *)
(***************************************************************************)
EXTENDS Naturals, Sequences

CONSTANT Packet

VARIABLES
  asked,      \* commands the client has sent
  taken,      \* commands the TPM has been given
  answered,   \* responses the TPM has sent
  returned    \* responses the client has been given

vars == <<asked, taken, answered, returned>>

Init ==
  /\ asked = << >>
  /\ taken = << >>
  /\ answered = << >>
  /\ returned = << >>

Ask(p) ==
  /\ Len(asked) = Len(returned)
  /\ asked' = Append(asked, p)
  /\ UNCHANGED <<taken, answered, returned>>

Take ==
  /\ Len(taken) < Len(asked)
  /\ taken' = Append(taken, asked[Len(taken) + 1])
  /\ UNCHANGED <<asked, answered, returned>>

Answer(p) ==
  /\ Len(answered) < Len(taken)
  /\ answered' = Append(answered, p)
  /\ UNCHANGED <<asked, taken, returned>>

Return ==
  /\ Len(returned) < Len(answered)
  /\ returned' = Append(returned, answered[Len(returned) + 1])
  /\ UNCHANGED <<asked, taken, answered>>

Next ==
  \/ \E p \in Packet : Ask(p) \/ Answer(p)
  \/ Take
  \/ Return

Spec == Init /\ [][Next]_vars

=============================================================================
