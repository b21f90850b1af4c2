--------------------------- MODULE ProtocolReader ---------------------------
(***************************************************************************)
(* The ProtocolReader class of packages/tpm2-proxy/src/tpm2/tpm2-tcti.ts   *)
(* between a peer that writes packets to a stream socket and the proxy     *)
(* that takes packets out.  The socket cuts the byte stream into chunks    *)
(* where it likes; each chunk is pushed, and parse may be called at any    *)
(* time.                                                                   *)
(*                                                                         *)
(* The peers of the proxy take turns: a client sends one command and waits *)
(* for its response, a TPM answers one command.  Pipelined = FALSE is that *)
(* discipline.  Pipelined = TRUE lets the peer send ahead, which nothing   *)
(* in the reader forbids.                                                  *)
(***************************************************************************)
EXTENDS Tpm2Tcti

CONSTANTS Packets,      \* what the peer may send
          MaxPackets,   \* bound on the packets sent in one behaviour
          Pipelined     \* may the peer send before the last packet is parsed?

ASSUME PacketsAssumption ==
  \A p \in Packets : WellFormed(p) /\ Len(p) <= Capacity

ASSUME MaxPacketsAssumption == MaxPackets \in Nat

ASSUME PipelinedAssumption == Pipelined \in BOOLEAN

VARIABLES
  sent,            \* history: the packets the peer has written
  wire,            \* bytes written by the peer and not yet read
  receiveBuffer,   \* the reader's FifoBuffer
  parsed           \* history: the datagrams parse() has returned

vars == <<sent, wire, receiveBuffer, parsed>>

TypeOK ==
  /\ sent \in Seq(Packets)
  /\ wire \in Seq(Cell)
  /\ receiveBuffer \in Fifo
  /\ parsed \in Seq(Seq(Cell))

Init ==
  /\ sent = << >>
  /\ wire = << >>
  /\ receiveBuffer = EmptyFifo
  /\ parsed = << >>

\* The peer writes a packet.
Send(p) ==
  /\ Len(sent) < MaxPackets
  /\ Pipelined \/ Len(parsed) = Len(sent)
  /\ sent' = Append(sent, p)
  /\ wire' = wire \o p
  /\ UNCHANGED <<receiveBuffer, parsed>>

\* The socket hands over the next n bytes, and the proxy pushes them.
Receive(n) ==
  /\ n <= Len(wire)
  /\ receiveBuffer' = Push(receiveBuffer, SubSeq(wire, 1, n))
  /\ wire' = SubSeq(wire, n + 1, Len(wire))
  /\ UNCHANGED <<sent, parsed>>

\* parse() finds a packet; when it returns null it changes nothing.
Parse ==
  /\ CanParse(receiveBuffer)
  /\ parsed' = Append(parsed, ParsedPacket(receiveBuffer).raw)
  /\ receiveBuffer' = AfterParse(receiveBuffer)
  /\ UNCHANGED <<sent, wire>>

Next ==
  \/ \E p \in Packets : Send(p)
  \/ \E n \in 1 .. Len(wire) : Receive(n)
  \/ Parse

(***************************************************************************)
(* The socket delivers what was written, and the proxy parses after every  *)
(* push and after every packet (proxy.ts:92-93, 124-140).                  *)
(***************************************************************************)
Fairness ==
  /\ WF_vars(\E n \in 1 .. Len(wire) : Receive(n))
  /\ WF_vars(Parse)

SafeSpec == Init /\ [][Next]_vars

Spec == SafeSpec /\ Fairness

-----------------------------------------------------------------------------

Channel == INSTANCE PacketChannel WITH received <- parsed

(***************************************************************************)
(* The reader returns the peer's packets, each one once, unchanged and in  *)
(* order, wherever the socket cuts the stream (tpm2-tcti.ts:27-48).        *)
(***************************************************************************)
InOrder ==
  /\ Len(parsed) <= Len(sent)
  /\ \A i \in 1 .. Len(parsed) : parsed[i] = sent[i]

(***************************************************************************)
(* A packet never waits behind bytes of another one: what has been read    *)
(* and not parsed, followed by what is still on the wire, is exactly the   *)
(* packet the peer is waiting to see answered, or nothing.                 *)
(***************************************************************************)
OneOutstanding ==
  LET left == receiveBuffer.position + Len(wire)
  IN  IF Len(parsed) = Len(sent)
      THEN left = 0
      ELSE /\ Len(sent) = Len(parsed) + 1
           /\ left = Len(sent[Len(sent)])
           /\ \A i \in 1 .. receiveBuffer.position :
                receiveBuffer.buffer[i] = sent[Len(sent)][i]
           /\ \A i \in 1 .. Len(wire) :
                wire[i] = sent[Len(sent)][receiveBuffer.position + i]

(***************************************************************************)
(* The reader is a packet channel, also in that every packet the peer      *)
(* sends comes out in the end.                                             *)
(***************************************************************************)
ImplementsChannel == Channel!Spec

=============================================================================
