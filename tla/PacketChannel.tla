---------------------------- MODULE PacketChannel ----------------------------
(***************************************************************************)
(* What a path through the proxy promises about the packets of one         *)
(* direction: each is delivered once, unchanged and in the order sent, and *)
(* none is kept for ever.                                                  *)
(***************************************************************************)
EXTENDS Naturals, Sequences

CONSTANTS Packets,      \* what may be sent
          MaxPackets    \* bound on the packets sent in one behaviour

VARIABLES sent, received

channelVars == <<sent, received>>

Init ==
  /\ sent = << >>
  /\ received = << >>

Send(p) ==
  /\ Len(sent) < MaxPackets
  /\ sent' = Append(sent, p)
  /\ UNCHANGED received

Deliver ==
  /\ Len(received) < Len(sent)
  /\ received' = Append(received, sent[Len(received) + 1])
  /\ UNCHANGED sent

Next ==
  \/ \E p \in Packets : Send(p)
  \/ Deliver

SafeSpec == Init /\ [][Next]_channelVars

Spec == SafeSpec /\ WF_channelVars(Deliver)

=============================================================================
