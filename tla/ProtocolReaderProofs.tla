------------------------ MODULE ProtocolReaderProofs ------------------------
(***************************************************************************)
(* Proofs about the packet reader, for every capacity of the buffer and    *)
(* every set of packets that fit in it.                                    *)
(***************************************************************************)
EXTENDS ProtocolReader, Tpm2TctiProofs

(***************************************************************************)
(* Type correctness, whatever the peer sends and when.                     *)
(***************************************************************************)
THEOREM TypeCorrect == SafeSpec => []TypeOK
<1>1. Init => TypeOK
  BY CapacityAssumption DEF Init, TypeOK, EmptyFifo, Fifo, Cell
<1>2. TypeOK /\ [Next]_vars => TypeOK'
  <2> SUFFICES ASSUME TypeOK, [Next]_vars PROVE TypeOK'
    OBVIOUS
  <2>1. ASSUME NEW p \in Packets, Send(p) PROVE TypeOK'
    <3>1. p \in Seq(Cell)
      BY PacketsAssumption DEF WellFormed
    <3>2. QED
      BY <2>1, <3>1, AppendProperties, ConcatProperties DEF TypeOK, Send
  <2>2. ASSUME NEW n \in 1 .. Len(wire), Receive(n) PROVE TypeOK'
    <3>1. SubSeq(wire, 1, n) \in Seq(Cell)
      BY SubSeqProperties DEF TypeOK
    <3>2. SubSeq(wire, n + 1, Len(wire)) \in Seq(Cell)
      BY SubSeqProperties DEF TypeOK
    <3>3. QED
      BY <2>2, <3>1, <3>2, PushType DEF TypeOK, Receive
  <2>3. CASE Parse
    <3>1. /\ Header(receiveBuffer).size \in Nat
          /\ Header(receiveBuffer).size <= receiveBuffer.position
      BY <2>3, HeaderSizeType DEF Parse, TypeOK
    <3>2. ParsedPacket(receiveBuffer).raw \in Seq(Cell)
      BY <3>1, PeekType DEF ParsedPacket, TypeOK
    <3>3. AfterParse(receiveBuffer) \in Fifo
      BY <3>1, PopType DEF AfterParse, TypeOK
    <3>4. QED
      BY <2>3, <3>2, <3>3, AppendProperties DEF Parse, TypeOK
  <2>4. CASE UNCHANGED vars
    BY <2>4 DEF vars, TypeOK
  <2>5. QED
    BY <2>1, <2>2, <2>3, <2>4 DEF Next
<1>3. QED
  BY <1>1, <1>2, PTL DEF SafeSpec

-----------------------------------------------------------------------------

(***************************************************************************)
(* When peers take turns, the reader is exact: a packet comes out as it    *)
(* went in, once, in order, for any cut of the stream into chunks.  InOrder *)
(* alone is not inductive, since it does not say what the buffer holds;    *)
(* OneOutstanding does.                                                    *)
(***************************************************************************)
IInv == TypeOK /\ InOrder /\ OneOutstanding

LEMMA InitInvariant == Init => IInv
BY CapacityAssumption
   DEF Init, IInv, TypeOK, InOrder, OneOutstanding, EmptyFifo, Fifo, Cell

\* A peer that takes turns writes its packet to an idle reader.
LEMMA SendInvariant ==
  ASSUME Pipelined = FALSE, IInv, NEW p \in Packets, Send(p), TypeOK'
  PROVE  IInv'
<1>1. /\ Len(parsed) = Len(sent)
      /\ wire = << >>
      /\ receiveBuffer.position = 0
  BY DEF Send, IInv, TypeOK, OneOutstanding, Fifo
<1>2. p \in Seq(Cell)
  BY PacketsAssumption DEF WellFormed
<1>3. wire' = p
  BY <1>1, <1>2, ConcatEmptySeq DEF Send
<1>4. /\ Len(sent') = Len(sent) + 1
      /\ sent'[Len(sent')] = p
      /\ \A i \in 1 .. Len(sent) : sent'[i] = sent[i]
  BY AppendProperties DEF Send, IInv, TypeOK
<1>5. InOrder'
  <2>1. parsed' = parsed /\ Len(parsed) \in Nat
    BY LenProperties DEF Send, IInv, TypeOK
  <2>2. \A i \in 1 .. Len(parsed) : parsed[i] = sent[i]
    BY DEF IInv, InOrder
  <2>3. QED
    BY <1>1, <1>4, <2>1, <2>2 DEF InOrder
<1>6. OneOutstanding'
  BY <1>1, <1>2, <1>3, <1>4 DEF Send, IInv, TypeOK, OneOutstanding
<1>7. QED
  BY <1>5, <1>6 DEF IInv

\* OneOutstanding in the words of the lemmas about streams.
LEMMA OutstandingHolds ==
  ASSUME IInv, Len(parsed) # Len(sent)
  PROVE  /\ Len(sent) = Len(parsed) + 1
         /\ sent[Len(sent)] \in Packets
         /\ WellFormed(sent[Len(sent)]) /\ sent[Len(sent)] \in Seq(Cell)
         /\ Len(sent[Len(sent)]) <= Capacity
         /\ Holds(receiveBuffer, wire, sent[Len(sent)])
<1> DEFINE p == sent[Len(sent)]
<1>1. Len(sent) = Len(parsed) + 1 /\ Holds(receiveBuffer, wire, p)
  BY DEF IInv, OneOutstanding, Holds
<1>2. p \in Packets
  BY <1>1, ElementOfSeq, LenProperties DEF IInv, TypeOK
<1> HIDE DEF p
<1>3. WellFormed(p) /\ p \in Seq(Cell) /\ Len(p) <= Capacity
  BY <1>2, PacketsAssumption DEF WellFormed
<1>4. QED
  BY <1>1, <1>2, <1>3 DEF p

\* A chunk moves cells from the wire to the end of the bytes in use.
LEMMA ReceiveInvariant ==
  ASSUME IInv, NEW n \in 1 .. Len(wire), Receive(n), TypeOK'
  PROVE  IInv'
<1> DEFINE p == sent[Len(sent)]
<1>1. /\ wire \in Seq(Cell) /\ Len(wire) \in Nat
      /\ receiveBuffer \in Fifo /\ receiveBuffer.position \in Nat
  BY DEF IInv, TypeOK, Fifo
<1>2. Len(parsed) # Len(sent)
  BY <1>1 DEF IInv, OneOutstanding
<1>3. /\ Len(sent) = Len(parsed) + 1
      /\ p \in Seq(Cell) /\ Len(p) <= Capacity
      /\ Holds(receiveBuffer, wire, p)
  BY <1>2, OutstandingHolds
<1> HIDE DEF p
<1>4. Holds(receiveBuffer', wire', p)
  <2>1. Holds(Push(receiveBuffer, SubSeq(wire, 1, n)),
              SubSeq(wire, n + 1, Len(wire)), p)
    BY <1>1, <1>3, PushHolds
  <2>2. QED
    BY <2>1 DEF Receive
<1>5. sent' = sent /\ parsed' = parsed
  BY DEF Receive
<1>6. OneOutstanding'
  <2>1. /\ receiveBuffer'.position + Len(wire') = Len(p)
        /\ \A i \in 1 .. receiveBuffer'.position :
             receiveBuffer'.buffer[i] = p[i]
        /\ \A i \in 1 .. Len(wire') : wire'[i] = p[receiveBuffer'.position + i]
    BY <1>4 DEF Holds
  <2>2. QED
    BY <1>2, <1>3, <1>5, <2>1 DEF OneOutstanding, p
<1>7. InOrder'
  BY <1>5 DEF IInv, InOrder
<1>8. QED
  BY <1>6, <1>7 DEF IInv

\* When parse() returns a packet, it is the one outstanding and all of it.
LEMMA ParseTakesWhole ==
  ASSUME IInv, CanParse(receiveBuffer)
  PROVE  /\ Len(sent) = Len(parsed) + 1
         /\ wire = << >>
         /\ ParsedPacket(receiveBuffer).raw = sent[Len(sent)]
         /\ AfterParse(receiveBuffer).position = 0
<1>1. receiveBuffer \in Fifo /\ wire \in Seq(Cell)
  BY DEF IInv, TypeOK
<1>2. Len(parsed) # Len(sent)
  BY <1>1, LenProperties
     DEF IInv, OneOutstanding, Fifo, CanParse, GetLength, HeaderSize
<1>3. QED
  BY <1>1, <1>2, OutstandingHolds, ParseHolds

LEMMA ParseInvariant ==
  ASSUME IInv, Parse, TypeOK'
  PROVE  IInv'
<1>1. /\ Len(sent) = Len(parsed) + 1
      /\ wire = << >>
      /\ ParsedPacket(receiveBuffer).raw = sent[Len(sent)]
      /\ AfterParse(receiveBuffer).position = 0
  BY ParseTakesWhole DEF Parse
<1>2. /\ parsed' = Append(parsed, sent[Len(sent)])
      /\ sent' = sent /\ wire' = wire
      /\ receiveBuffer'.position = 0
  BY <1>1 DEF Parse
<1>3. /\ parsed \in Seq(Seq(Cell)) /\ Len(parsed) \in Nat
      /\ sent[Len(sent)] \in Seq(Cell)
  <2>1. sent[Len(sent)] \in Packets
    BY <1>1, ElementOfSeq DEF IInv, TypeOK
  <2>2. QED
    BY <2>1, PacketsAssumption DEF IInv, TypeOK, WellFormed
<1>4. /\ Len(parsed') = Len(sent')
      /\ parsed'[Len(parsed')] = sent[Len(sent)]
      /\ \A i \in 1 .. Len(parsed) : parsed'[i] = parsed[i]
  BY <1>1, <1>2, <1>3, AppendProperties
<1>5. InOrder'
  BY <1>1, <1>2, <1>3, <1>4 DEF IInv, TypeOK, InOrder
<1>6. OneOutstanding'
  BY <1>1, <1>2, <1>4 DEF OneOutstanding
<1>7. QED
  BY <1>5, <1>6 DEF IInv

LEMMA NextInvariant ==
  ASSUME Pipelined = FALSE, IInv, [Next]_vars, TypeOK'
  PROVE  IInv'
<1>1. ASSUME NEW p \in Packets, Send(p) PROVE IInv'
  BY <1>1, SendInvariant
<1>2. ASSUME NEW n \in 1 .. Len(wire), Receive(n) PROVE IInv'
  BY <1>2, ReceiveInvariant
<1>3. CASE Parse
  BY <1>3, ParseInvariant
<1>4. CASE UNCHANGED vars
  BY <1>4 DEF vars, IInv, TypeOK, InOrder, OneOutstanding
<1>5. QED
  BY <1>1, <1>2, <1>3, <1>4 DEF Next

(***************************************************************************)
(* With peers that take turns every packet comes out once, unchanged and   *)
(* in order, for every capacity, every packet that fits, every number of   *)
(* packets and every cut of the stream into chunks.                        *)
(***************************************************************************)
THEOREM LockstepInOrder ==
  ASSUME Pipelined = FALSE
  PROVE  SafeSpec => [](InOrder /\ OneOutstanding)
<1>1. Init => IInv
  BY InitInvariant
<1>2. IInv /\ TypeOK' /\ [Next]_vars => IInv'
  BY NextInvariant
<1>3. IInv => InOrder /\ OneOutstanding
  BY DEF IInv
<1>4. QED
  BY <1>1, <1>2, <1>3, TypeCorrect, PTL DEF SafeSpec

(***************************************************************************)
(* With peers that take turns the reader implements the packet channel:    *)
(* its steps are the channel's Send and Deliver, or steps the channel does *)
(* not see.                                                                *)
(***************************************************************************)
THEOREM LockstepImplementsChannel ==
  ASSUME Pipelined = FALSE
  PROVE  SafeSpec => Channel!SafeSpec
<1>1. Init => Channel!Init
  BY DEF Init, Channel!Init
<1>2. IInv /\ [Next]_vars => [Channel!Next]_(Channel!channelVars)
  <2> SUFFICES ASSUME IInv, [Next]_vars
               PROVE  [Channel!Next]_(Channel!channelVars)
    OBVIOUS
  <2>1. ASSUME NEW p \in Packets, Send(p) PROVE Channel!Next
    BY <2>1 DEF Send, Channel!Next, Channel!Send
  <2>2. ASSUME NEW n \in 1 .. Len(wire), Receive(n)
        PROVE  UNCHANGED Channel!channelVars
    BY <2>2 DEF Receive, Channel!channelVars
  <2>3. ASSUME Parse PROVE Channel!Deliver
    BY <2>3, ParseTakesWhole DEF Parse, Channel!Deliver, IInv, TypeOK
  <2>4. ASSUME UNCHANGED vars PROVE UNCHANGED Channel!channelVars
    BY <2>4 DEF vars, Channel!channelVars
  <2>5. QED
    BY <2>1, <2>2, <2>3, <2>4 DEF Next, Channel!Next
<1>3. Init => IInv
  BY InitInvariant
<1>4. IInv /\ TypeOK' /\ [Next]_vars => IInv'
  BY NextInvariant
<1>5. QED
  BY <1>1, <1>2, <1>3, <1>4, TypeCorrect, PTL DEF SafeSpec, Channel!SafeSpec

=============================================================================
