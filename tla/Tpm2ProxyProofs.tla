-------------------------- MODULE Tpm2ProxyProofs --------------------------
(***************************************************************************)
(* Proofs about the proxy's event loop, for every capacity of the buffers, *)
(* every set of packets that fit in them, and peers that may send without  *)
(* waiting, close, or see their packets fail.  With peers that take turns, *)
(* the proxy implements TpmExchange.                                       *)
(***************************************************************************)
EXTENDS Tpm2Proxy, Tpm2TctiProofs

\* A call of a handler, and how far it is.
Handler == [packet : PacketRecord, phase : Phase]

\* Settling takes one call out of the list.
LEMMA RemoveAtType ==
  ASSUME NEW S, NEW seq \in Seq(S), NEW i \in 1 .. Len(seq)
  PROVE  RemoveAt(seq, i) \in Seq(S)
<1>1. /\ SubSeq(seq, 1, i - 1) \in Seq(S)
      /\ SubSeq(seq, i + 1, Len(seq)) \in Seq(S)
  BY SubSeqProperties
<1>2. QED
  BY <1>1, ConcatProperties DEF RemoveAt

\* A look at the buffer f, by a listener or a setImmediate callback.
LEMMA HandleType ==
  ASSUME TypeOK, NEW s \in Side, NEW f \in Fifo, Handle(s, f)
  PROVE  /\ reader' \in [Side -> Fifo]
         /\ handlers' \in [Side -> Seq(Handler)]
<1>1. handlers \in [Side -> Seq(Handler)] /\ reader \in [Side -> Fifo]
  BY DEF TypeOK, Handler
<1>2. CASE CanParse(f)
  <2> DEFINE call == [packet |-> ParsedPacket(f), phase |-> "working"]
  <2>1. ParsedPacket(f) \in PacketRecord
    BY <1>2, ParseType DEF ParsedPacket, PacketRecord
  <2>2. call \in Handler
    BY <2>1 DEF Handler, Phase
  <2>3. /\ reader' = [reader EXCEPT ![s] = AfterParse(f)]
        /\ handlers' = [handlers EXCEPT ![s] = Append(@, call)]
    BY <1>2 DEF Handle
  <2>4. AfterParse(f) \in Fifo
    BY <1>2, ParseType
  <2> HIDE DEF call
  <2>5. Append(handlers[s], call) \in Seq(Handler)
    BY <1>1, <2>2, AppendProperties
  <2>6. QED
    BY <1>1, <2>3, <2>4, <2>5
<1>3. CASE ~CanParse(f)
  BY <1>1, <1>3 DEF Handle
<1>4. QED
  BY <1>2, <1>3

\* What is left to do after a look at the buffer: if a whole packet is still
\* there, a handler call is under way that will ask for another look.
LEMMA HandleLeavesHandler ==
  ASSUME TypeOK, NEW s \in Side, NEW f \in Fifo, Handle(s, f)
  PROVE  /\ CanParse(reader'[s]) => handlers'[s] # << >>
         /\ \A t \in Side \ {s} : /\ reader'[t] = reader[t]
                                  /\ handlers'[t] = handlers[t]
<1>1. handlers \in [Side -> Seq(Handler)] /\ reader \in [Side -> Fifo]
  BY DEF TypeOK, Handler
<1>2. CASE CanParse(f)
  <2>1. PICK call : handlers' = [handlers EXCEPT ![s] = Append(@, call)]
    BY <1>2 DEF Handle
  <2>2. handlers'[s] = Append(handlers[s], call)
    BY <1>1, <2>1
  <2>3. Append(handlers[s], call) # << >>
    BY <1>1
  <2>4. QED
    BY <1>1, <1>2, <2>1, <2>2, <2>3 DEF Handle
<1>3. CASE ~CanParse(f)
  BY <1>1, <1>3 DEF Handle
<1>4. QED
  BY <1>2, <1>3

-----------------------------------------------------------------------------

\* The initial state is well typed.
LEMMA InitType == Init => TypeOK
BY CapacityAssumption DEF Init, TypeOK, EmptyFifo, Fifo, Cell, Side

\* A data listener.
LEMMA OnDataType ==
  ASSUME TypeOK, NEW s \in Side, NEW n \in 1 .. Len(wire[s]), OnData(s, n)
  PROVE  TypeOK'
<1> DEFINE chunk == SubSeq(wire[s], 1, n)
<1>1. /\ wire[s] \in Seq(Cell) /\ reader[s] \in Fifo
      /\ captured \in [Side -> Seq(Cell)]
  BY DEF TypeOK
<1>2. chunk \in Seq(Cell) /\ SubSeq(wire[s], n + 1, Len(wire[s])) \in Seq(Cell)
  BY <1>1, SubSeqProperties
<1>3. wire' \in [Side -> Seq(Cell)]
  BY <1>2 DEF OnData, TypeOK
<1> HIDE DEF chunk
<1>4. /\ alive' \in BOOLEAN
      /\ captured' \in [Side -> Seq(Cell)]
      /\ reader' \in [Side -> Fifo]
      /\ handlers' \in [Side -> Seq(Handler)]
  <2>1. CASE /\ Capture(s, chunk)
             /\ Handle(s, Push(reader[s], chunk))
             /\ UNCHANGED alive
    <3>1. Push(reader[s], chunk) \in Fifo
      BY <1>1, <1>2, PushType
    <3>2. reader' \in [Side -> Fifo] /\ handlers' \in [Side -> Seq(Handler)]
      BY <2>1, <3>1, HandleType
    <3>3. captured[s] \o chunk \in Seq(Cell)
      BY <1>1, <1>2, ConcatProperties
    <3>4. captured' \in [Side -> Seq(Cell)]
      BY <1>1, <2>1, <3>3 DEF Capture
    <3>5. QED
      BY <2>1, <3>2, <3>4 DEF TypeOK
  <2>2. CASE alive' = FALSE /\ UNCHANGED <<captured, reader, handlers>>
    BY <2>2 DEF TypeOK, Handler
  <2>3. QED
    BY <2>1, <2>2 DEF OnData, chunk
<1>5. QED
  BY <1>3, <1>4 DEF OnData, TypeOK, control, Handler

\* The steps of a handler call.
LEMMA HandlerStepType ==
  ASSUME TypeOK, NEW s \in Side, HandlerStep(s)
  PROVE  TypeOK'
<1>1. PICK i \in 1 .. Len(handlers[s]) :
        HandlerWrites(s, i) \/ HandlerResolves(s, i) \/ HandlerRejects(s, i)
  BY DEF HandlerStep
<1>2. /\ handlers \in [Side -> Seq(Handler)]
      /\ handlers[s] \in Seq(Handler)
      /\ handlers[s][i] \in Handler
  BY <1>1, ElementOfSeq DEF TypeOK, Handler
<1>3. CASE HandlerWrites(s, i)
  <2> DEFINE call == handlers[s][i]
  <2>1. call.packet \in PacketRecord
    BY <1>2 DEF Handler
  <2>2. Serialize(call.packet) \in Seq(Cell)
    <3>1. /\ call.packet.tag \in Nat /\ call.packet.code \in Nat
          /\ call.packet.data \in Seq(Nat) /\ Len(call.packet.data) \in Nat
      BY <2>1, LenProperties DEF PacketRecord, Cell
    <3>2. <<call.packet.tag, HeaderSize + Len(call.packet.data),
            call.packet.code>> \in Seq(Nat)
      BY <3>1 DEF HeaderSize
    <3>3. QED
      BY <3>1, <3>2, ConcatProperties DEF Serialize, Cell
  <2>3. ASSUME NEW ph \in Phase
        PROVE  [handlers EXCEPT ![s][i].phase = ph] \in [Side -> Seq(Handler)]
    <3>1. [handlers[s][i] EXCEPT !.phase = ph] \in Handler
      BY <1>2 DEF Handler
    <3>2. [handlers[s] EXCEPT ![i] = [handlers[s][i] EXCEPT !.phase = ph]]
            \in Seq(Handler)
      BY <1>2, <3>1, ExceptSeq
    <3>3. QED
      BY <1>2, <3>2
  <2>4. handlers' \in [Side -> Seq(Handler)]
    BY <1>3, <2>3 DEF HandlerWrites, Phase
  <2>5. out' \in [Side -> Seq(Seq(Cell))]
    <3>1. Append(out[s], Serialize(call.packet)) \in Seq(Seq(Cell))
      BY <2>2, AppendProperties DEF TypeOK
    <3>2. QED
      BY <1>3, <3>1 DEF HandlerWrites, TypeOK
  <2>6. QED
    BY <1>3, <2>4, <2>5 DEF HandlerWrites, TypeOK, Handler, control
<1>4. CASE HandlerResolves(s, i)
  <2>1. RemoveAt(handlers[s], i) \in Seq(Handler)
    BY <1>1, <1>2, RemoveAtType
  <2>2. handlers' \in [Side -> Seq(Handler)]
    BY <1>2, <1>4, <2>1 DEF HandlerResolves, LookAgain
  <2>3. immediates' \in [Side -> Nat]
    BY <1>4 DEF HandlerResolves, LookAgain, TypeOK
  <2>4. QED
    BY <1>4, <2>2, <2>3 DEF HandlerResolves, LookAgain, TypeOK, Handler, control
<1>5. CASE HandlerRejects(s, i)
  BY <1>5 DEF HandlerRejects, Unhandled, TypeOK, control
<1>6. QED
  BY <1>1, <1>3, <1>4, <1>5

\* A setImmediate callback.
LEMMA OnImmediateType ==
  ASSUME TypeOK, NEW s \in Side, OnImmediate(s)
  PROVE  TypeOK'
<1>1. reader' \in [Side -> Fifo] /\ handlers' \in [Side -> Seq(Handler)]
  BY HandleType DEF OnImmediate, TypeOK
<1>2. immediates' \in [Side -> Nat]
  BY DEF OnImmediate, TypeOK
<1>3. QED
  BY <1>1, <1>2 DEF OnImmediate, TypeOK, Handler, control

(***************************************************************************)
(* The state keeps its type whatever the peers and the handlers do; in     *)
(* particular no buffer position ever becomes negative.                    *)
(***************************************************************************)
THEOREM ProxyTypeCorrect == SafeSpec => []TypeOK
<1>1. TypeOK /\ [Next]_vars => TypeOK'
  <2> SUFFICES ASSUME TypeOK, [Next]_vars PROVE TypeOK'
    OBVIOUS
  <2>1. ASSUME NEW s \in Side, NEW p \in Packets, SendPacket(s, p)
        PROVE  TypeOK'
    <3>1. p \in Seq(Cell)
      BY PacketsAssumption DEF WellFormed
    <3>2. Append(sent[s], p) \in Seq(Packets) /\ wire[s] \o p \in Seq(Cell)
      BY <3>1, AppendProperties, ConcatProperties DEF TypeOK
    <3>3. sent' \in [Side -> Seq(Packets)] /\ wire' \in [Side -> Seq(Cell)]
      BY <2>1, <3>2 DEF SendPacket, TypeOK
    <3>4. UNCHANGED <<alive, open, reader, handlers, immediates, out,
                      controlSent, controlOut, captured>>
      BY <2>1 DEF SendPacket, control
    <3>5. QED
      BY <3>3, <3>4 DEF TypeOK
  <2>2. ASSUME NEW s \in Side, SendControl(s) PROVE TypeOK'
    <3>1. controlSent' \in [Side -> Nat]
      BY <2>2 DEF SendControl, TypeOK
    <3>2. UNCHANGED <<alive, open, sent, wire, reader, handlers, immediates,
                      out, controlOut, captured>>
      BY <2>2 DEF SendControl
    <3>3. QED
      BY <3>1, <3>2 DEF TypeOK
  <2>3. ASSUME NEW s \in Side, DriverCloses(s) PROVE TypeOK'
    BY <2>3 DEF DriverCloses, TypeOK, control
  <2>4. ASSUME NEW s \in Side, ReadData(s) PROVE TypeOK'
    BY <2>4, OnDataType DEF ReadData
  <2>5. ASSUME NEW s \in Side, OnControl(s) PROVE TypeOK'
    <3>1. Append(controlOut[s], Len(controlOut[s]) + 1) \in Seq(Nat)
      BY AppendProperties, LenProperties DEF TypeOK
    <3>2. controlOut' \in [Side -> Seq(Nat)] /\ alive' \in BOOLEAN
      BY <2>5, <3>1 DEF OnControl, TypeOK
    <3>3. QED
      BY <2>5, <3>2 DEF OnControl, TypeOK, peers
  <2>6. ASSUME NEW s \in Side, HandlerStep(s) PROVE TypeOK'
    BY <2>6, HandlerStepType
  <2>7. ASSUME NEW s \in Side, OnImmediate(s) PROVE TypeOK'
    BY <2>7, OnImmediateType
  <2>8. CASE UNCHANGED vars
    BY <2>8 DEF vars, TypeOK
  <2>9. QED
    BY <2>1, <2>2, <2>3, <2>4, <2>5, <2>6, <2>7, <2>8 DEF Next
<1>2. QED
  BY <1>1, InitType, PTL DEF SafeSpec

-----------------------------------------------------------------------------

(***************************************************************************)
(* The pump never stops.  The chain of handler call, setImmediate and next *)
(* handler call is broken only by a look that finds no whole packet, so    *)
(* NoStall is inductive once the types are known; the peers' discipline    *)
(* plays no part.                                                          *)
(***************************************************************************)
THEOREM PumpNeverStalls == SafeSpec => []NoStall
<1>1. Init => NoStall
  BY CapacityAssumption
     DEF Init, NoStall, CanParse, GetLength, EmptyFifo, HeaderSize
<1>2. TypeOK /\ NoStall /\ [Next]_vars => NoStall'
  <2> SUFFICES ASSUME TypeOK, NoStall, [Next]_vars PROVE NoStall'
    OBVIOUS
  <2>0. ASSUME alive' = alive, UNCHANGED <<reader, handlers, immediates>>
        PROVE  NoStall'
    BY <2>0 DEF NoStall
  <2>1. ASSUME NEW s \in Side, NEW p \in Packets, SendPacket(s, p)
        PROVE  NoStall'
    BY <2>0, <2>1 DEF SendPacket
  <2>2. ASSUME NEW s \in Side, SendControl(s) \/ DriverCloses(s)
        PROVE  NoStall'
    BY <2>0, <2>2 DEF SendControl, DriverCloses
  <2>3. ASSUME NEW s \in Side, ReadData(s) PROVE NoStall'
    <3>1. PICK n \in 1 .. Len(wire[s]) : OnData(s, n)
      BY <2>3 DEF ReadData
    <3> DEFINE chunk == SubSeq(wire[s], 1, n)
    <3>2. CASE ~alive'
      BY <3>2 DEF NoStall
    <3>3. CASE alive'
      <4>1. Handle(s, Push(reader[s], chunk))
        BY <3>1, <3>3 DEF OnData
      <4>2. Push(reader[s], chunk) \in Fifo
        <5>1. wire[s] \in Seq(Cell) /\ reader[s] \in Fifo
          BY DEF TypeOK
        <5>2. chunk \in Seq(Cell)
          BY <3>1, <5>1, SubSeqProperties
        <5>3. QED
          BY <5>1, <5>2, PushType
      <4>3. /\ CanParse(reader'[s]) => handlers'[s] # << >>
            /\ \A t \in Side \ {s} : /\ reader'[t] = reader[t]
                                     /\ handlers'[t] = handlers[t]
        BY <4>1, <4>2, HandleLeavesHandler
      <4>4. alive /\ immediates' = immediates
        BY <3>1 DEF OnData
      <4>5. QED
        BY <4>3, <4>4 DEF NoStall
    <3>4. QED
      BY <3>2, <3>3
  <2>4. ASSUME NEW s \in Side, OnControl(s) PROVE NoStall'
    BY <2>4 DEF OnControl, NoStall
  <2>5. ASSUME NEW s \in Side, NEW i \in 1 .. Len(handlers[s]),
               HandlerWrites(s, i)
        PROVE  NoStall'
    <3>1. \A t \in Side : handlers[t] # << >> => handlers'[t] # << >>
      <4>1. \E ph : handlers' = [handlers EXCEPT ![s][i].phase = ph]
        BY <2>5 DEF HandlerWrites
      <4>2. PICK ph : handlers' = [handlers EXCEPT ![s][i].phase = ph]
        BY <4>1
      <4>3. ASSUME NEW t \in Side, t # s PROVE handlers'[t] = handlers[t]
        BY <4>2, <4>3 DEF TypeOK
      <4>4. /\ handlers[s] \in Seq([packet : PacketRecord, phase : Phase])
            /\ handlers'[s] = [handlers[s] EXCEPT ![i].phase = ph]
        BY <4>2 DEF TypeOK
      <4>5. DOMAIN handlers'[s] = 1 .. Len(handlers[s])
        BY <4>4, LenProperties
      <4>6. handlers'[s] # << >>
        BY <4>5, LenProperties DEF TypeOK
      <4>7. QED
        BY <4>3, <4>6
    <3>2. QED
      BY <2>5, <3>1 DEF HandlerWrites, NoStall
  <2>6. ASSUME NEW s \in Side, NEW i \in 1 .. Len(handlers[s]),
               HandlerResolves(s, i)
        PROVE  NoStall'
    <3>1. immediates'[s] > 0
      BY <2>6 DEF HandlerResolves, LookAgain, TypeOK
    <3>2. \A t \in Side \ {s} : /\ handlers'[t] = handlers[t]
                                /\ immediates'[t] = immediates[t]
      BY <2>6 DEF HandlerResolves, LookAgain, TypeOK
    <3>3. QED
      BY <2>6, <3>1, <3>2 DEF HandlerResolves, LookAgain, NoStall
  <2>7. ASSUME NEW s \in Side, NEW i \in 1 .. Len(handlers[s]),
               HandlerRejects(s, i)
        PROVE  NoStall'
    BY <2>7 DEF HandlerRejects, Unhandled, NoStall
  <2>8. ASSUME NEW s \in Side, OnImmediate(s) PROVE NoStall'
    <3>1. reader[s] \in Fifo /\ Handle(s, reader[s])
      BY <2>8 DEF OnImmediate, TypeOK
    <3>2. /\ CanParse(reader'[s]) => handlers'[s] # << >>
          /\ \A t \in Side \ {s} : /\ reader'[t] = reader[t]
                                   /\ handlers'[t] = handlers[t]
      BY <3>1, HandleLeavesHandler
    <3>3. \A t \in Side \ {s} : immediates'[t] = immediates[t]
      BY <2>8 DEF OnImmediate, TypeOK
    <3>4. alive
      BY <2>8 DEF OnImmediate
    <3>5. QED
      BY <3>2, <3>3, <3>4 DEF NoStall
  <2>9. CASE UNCHANGED vars
    BY <2>0, <2>9 DEF vars
  <2>10. QED
    BY <2>1, <2>2, <2>3, <2>4, <2>5, <2>6, <2>7, <2>8, <2>9
       DEF Next, HandlerStep
<1>3. QED
  BY <1>1, <1>2, ProxyTypeCorrect, PTL DEF SafeSpec

-----------------------------------------------------------------------------

(***************************************************************************)
(* What holds with peers that take turns.  The four histories of           *)
(* TpmExchange are a chain, each a little behind the one before it, and    *)
(* the one packet that a chain leaves to a side is in one of three places: *)
(* in the stream, in a handler call, or gone, with a call that has failed. *)
(***************************************************************************)
Chain ==
  /\ Len(out["upstream"]) <= Len(sent["upstream"])
  /\ Len(sent["upstream"]) <= Len(out["downstream"])
  /\ Len(out["downstream"]) <= Len(sent["downstream"])
  /\ Len(sent["downstream"]) <= Len(out["upstream"]) + 1

\* What was forwarded is what was sent.
Forwards ==
  \A s \in Side : \A k \in 1 .. Len(out[s]) : out[s][k] = sent[s][k]

\* The packet a peer sent last.
Newest(s) == sent[s][Len(sent[s])]

\* No handler still has to write its packet.
NoneWorks(s) ==
  \A i \in 1 .. Len(handlers[s]) : handlers[s][i].phase # "working"

\* Nothing is under way, or a packet has been lost.
Idle(s) == wire[s] = << >> /\ reader[s].position = 0 /\ NoneWorks(s)

\* The newest packet is on the wire and in the buffer.
Streaming(s) ==
  /\ Len(sent[s]) = Len(out[s]) + 1
  /\ Holds(reader[s], wire[s], Newest(s))
  /\ NoneWorks(s)

\* The newest packet is in a handler call, the only one still to write.
Called(s) ==
  /\ Len(sent[s]) = Len(out[s]) + 1
  /\ wire[s] = << >> /\ reader[s].position = 0
  /\ \E i \in 1 .. Len(handlers[s]) :
       /\ handlers[s][i].phase = "working"
       /\ Serialize(handlers[s][i].packet) = Newest(s)
       /\ \A j \in 1 .. Len(handlers[s]) :
            handlers[s][j].phase = "working" => j = i

\* Where the newest packet of a side may be, unless it was forwarded.
Lane(s) == Idle(s) \/ Streaming(s) \/ Called(s)

Lanes == alive => \A s \in Side : Lane(s)

\* The inductive invariant for peers that take turns.
TurnsInv == TypeOK /\ Chain /\ Forwards /\ OneUnwritten /\ Lanes

\* The types the proofs about lanes use.
LEMMA LaneTypes ==
  ASSUME TypeOK, NEW s \in Side
  PROVE  /\ sent[s] \in Seq(Packets) /\ Len(sent[s]) \in Nat
         /\ wire[s] \in Seq(Cell) /\ reader[s] \in Fifo
         /\ out[s] \in Seq(Seq(Cell)) /\ Len(out[s]) \in Nat
         /\ handlers[s] \in Seq(Handler) /\ Len(handlers[s]) \in Nat
BY LenProperties DEF TypeOK, Handler

\* A packet that was sent is well formed and fits into a buffer.
LEMMA NewestFits ==
  ASSUME TypeOK, NEW s \in Side, Len(sent[s]) = Len(out[s]) + 1
  PROVE  /\ Newest(s) \in Packets /\ Newest(s) \in Seq(Cell)
         /\ WellFormed(Newest(s)) /\ Len(Newest(s)) <= Capacity
<1>1. sent[s] \in Seq(Packets) /\ Len(sent[s]) \in 1 .. Len(sent[s])
  BY LaneTypes
<1>2. Newest(s) \in Packets
  BY <1>1, ElementOfSeq DEF Newest
<1>3. QED
  BY <1>2, PacketsAssumption DEF WellFormed

\* A lane is made of the state of one side.
LEMMA LaneFrame ==
  ASSUME NEW t \in Side, Lane(t), sent'[t] = sent[t], out'[t] = out[t],
         wire'[t] = wire[t], reader'[t] = reader[t],
         handlers'[t] = handlers[t]
  PROVE  Lane(t)'
BY DEF Lane, Idle, Streaming, Called, NoneWorks, Newest

\* OneUnwritten is what the lanes, after a step, say of the handler calls.
LEMMA LanesOneUnwritten == (\A s \in Side : Lane(s)') => OneUnwritten'
BY DEF OneUnwritten, Lane, Idle, Streaming, Called, NoneWorks

\* A look at a buffer that holds the front of the newest packet: the packet
\* stays where it is, or all of it becomes a handler call.
LEMMA HandleLane ==
  ASSUME TypeOK, NEW s \in Side, NEW f \in Fifo, Handle(s, f),
         Len(sent[s]) = Len(out[s]) + 1, NoneWorks(s),
         NEW w \in Seq(Cell), wire'[s] = w, Holds(f, w, Newest(s)),
         sent' = sent, out' = out
  PROVE  Lane(s)'
<1>1. handlers \in [Side -> Seq(Handler)] /\ reader \in [Side -> Fifo]
  BY DEF TypeOK, Handler
<1>2. /\ Len(sent'[s]) = Len(out'[s]) + 1
      /\ Newest(s)' = Newest(s)
  BY DEF Newest
<1>3. CASE ~CanParse(f)
  <2>1. reader'[s] = f /\ handlers'[s] = handlers[s]
    BY <1>1, <1>3 DEF Handle
  <2>2. NoneWorks(s)'
    BY <2>1 DEF NoneWorks
  <2>3. Streaming(s)'
    BY <1>2, <2>1, <2>2 DEF Streaming
  <2>4. QED
    BY <2>3 DEF Lane
<1>4. CASE CanParse(f)
  <2> DEFINE call == [packet |-> ParsedPacket(f), phase |-> "working"]
             n    == Len(handlers[s])
  <2>1. /\ w = << >>
        /\ Serialize(ParsedPacket(f)) = Newest(s)
        /\ AfterParse(f).position = 0
    BY <1>4, NewestFits, ParseHolds
  <2>2. /\ reader'[s] = AfterParse(f)
        /\ handlers'[s] = Append(handlers[s], call)
    BY <1>1, <1>4 DEF Handle
  <2>3. n \in Nat /\ handlers[s] \in Seq(Handler)
    BY LaneTypes
  <2>4. call.phase = "working" /\ call.packet = ParsedPacket(f)
    OBVIOUS
  <2> HIDE DEF call, n
  <2>5. /\ Len(handlers'[s]) = n + 1
        /\ handlers'[s][n + 1] = call
        /\ \A j \in 1 .. n : handlers'[s][j] = handlers[s][j]
    BY <2>2, <2>3 DEF n
  <2>6. \A j \in 1 .. Len(handlers'[s]) :
          handlers'[s][j].phase = "working" => j = n + 1
    <3>1. \A j \in 1 .. n : handlers[s][j].phase # "working"
      BY DEF NoneWorks, n
    <3>2. \A j \in 1 .. n : handlers'[s][j].phase # "working"
      BY <2>5, <3>1
    <3>3. \A j \in 1 .. n + 1 : j \in 1 .. n \/ j = n + 1
      BY <2>3
    <3>4. QED
      BY <2>5, <3>2, <3>3
  <2>7. Called(s)'
    <3>1. n + 1 \in 1 .. Len(handlers'[s])
      BY <2>3, <2>5
    <3>2. wire'[s] = << >> /\ reader'[s].position = 0
      BY <2>1, <2>2
    <3>3. /\ handlers'[s][n + 1].phase = "working"
          /\ Serialize(handlers'[s][n + 1].packet) = Newest(s)'
      BY <1>2, <2>1, <2>4, <2>5
    <3>4. QED
      BY <1>2, <2>6, <3>1, <3>2, <3>3 DEF Called
  <2>8. QED
    BY <2>7 DEF Lane
<1>5. QED
  BY <1>3, <1>4

\* A look at an empty buffer finds nothing.
LEMMA HandleEmpty ==
  ASSUME TypeOK, NEW s \in Side, NEW f \in Fifo, Handle(s, f), f.position = 0
  PROVE  reader'[s] = f /\ handlers' = handlers
BY DEF Handle, CanParse, GetLength, HeaderSize, TypeOK

\* The peer writes a packet when the last one has gone to the other side.
LEMMA SendPacketTurns ==
  ASSUME TurnsInv, Pipelined = FALSE, NEW s \in Side, NEW p \in Packets,
         SendPacket(s, p)
  PROVE  /\ Len(sent[s]) = Len(out[s])
         /\ (Chain /\ Forwards /\ OneUnwritten /\ Lanes)'
<1>1. /\ sent'[s] = Append(sent[s], p)
      /\ wire'[s] = wire[s] \o p
      /\ \A t \in Side \ {s} : sent'[t] = sent[t] /\ wire'[t] = wire[t]
      /\ UNCHANGED <<alive, reader, handlers, out>>
      /\ Turn(s)
  BY DEF SendPacket, TurnsInv, TypeOK
<1>2. /\ sent[s] \in Seq(Packets) /\ Len(sent[s]) \in Nat
      /\ wire[s] \in Seq(Cell) /\ reader[s] \in Fifo
      /\ \A t \in Side : Len(sent[t]) \in Nat /\ Len(out[t]) \in Nat
  BY LaneTypes DEF TurnsInv
<1>3. /\ Len(sent'[s]) = Len(sent[s]) + 1
      /\ sent'[s][Len(sent[s]) + 1] = p
      /\ \A k \in 1 .. Len(sent[s]) : sent'[s][k] = sent[s][k]
  BY <1>1, <1>2, AppendProperties
<1>4. /\ Len(sent[s]) = Len(out[s])
      /\ Chain'
  <2>1. \A t \in Side : Len(out'[t]) = Len(out[t])
    BY <1>1
  <2>2. Chain
    BY DEF TurnsInv
  <2>3. CASE s = "upstream"
    <3>1. Len(sent'["downstream"]) = Len(sent["downstream"])
      BY <1>1, <2>3 DEF Side
    <3>2. Len(sent["upstream"]) < Len(out["downstream"])
      BY <1>1, <2>3 DEF Turn
    <3>3. Len(sent["upstream"]) = Len(out["upstream"])
      BY <1>2, <2>2, <3>2 DEF Chain, Side
    <3>4. Len(sent'["upstream"]) = Len(sent["upstream"]) + 1
      BY <1>3, <2>3
    <3>5. Chain'
      BY <1>2, <2>1, <2>2, <3>1, <3>2, <3>4 DEF Chain, Side
    <3>6. QED
      BY <2>3, <3>3, <3>5
  <2>4. CASE s = "downstream"
    <3>1. Len(sent'["upstream"]) = Len(sent["upstream"])
      BY <1>1, <2>4 DEF Side
    <3>2. Len(sent["downstream"]) = Len(out["upstream"])
      BY <1>1, <2>4 DEF Turn
    <3>3. Len(sent'["downstream"]) = Len(sent["downstream"]) + 1
      BY <1>3, <2>4
    <3>4. Len(sent["downstream"]) = Len(out["downstream"])
      <4>1. /\ Len(out["upstream"]) <= Len(sent["upstream"])
            /\ Len(sent["upstream"]) <= Len(out["downstream"])
            /\ Len(out["downstream"]) <= Len(sent["downstream"])
        BY <2>2 DEF Chain
      <4>2. QED
        BY <1>2, <3>2, <4>1 DEF Side
    <3>5. Chain'
      BY <1>2, <2>1, <2>2, <3>1, <3>2, <3>3 DEF Chain, Side
    <3>6. QED
      BY <2>4, <3>4, <3>5
  <2>5. QED
    BY <2>3, <2>4 DEF Side
<1>5. Forwards'
  <2>1. ASSUME NEW t \in Side, NEW k \in 1 .. Len(out[t])
        PROVE  out[t][k] = sent'[t][k]
    <3>1. out[t][k] = sent[t][k]
      BY DEF TurnsInv, Forwards
    <3>2. CASE t = s
      <4>1. k \in 1 .. Len(sent[s])
        BY <1>4, <3>2
      <4>2. QED
        BY <1>3, <3>1, <3>2, <4>1
    <3>3. CASE t # s
      BY <1>1, <3>1, <3>3
    <3>4. QED
      BY <3>2, <3>3
  <2>2. QED
    BY <1>1, <2>1 DEF Forwards
<1>6. OneUnwritten'
  BY <1>1 DEF TurnsInv, OneUnwritten
<1>7. ASSUME alive PROVE Lane(s)'
  <2>1. Idle(s)
    BY <1>2, <1>4, <1>7 DEF TurnsInv, Lanes, Lane, Streaming, Called
  <2>2. p \in Seq(Cell)
    BY PacketsAssumption DEF WellFormed
  <2>3. wire'[s] = p /\ Newest(s)' = p
    BY <1>1, <1>3, <2>1, <2>2, ConcatEmptySeq DEF Idle, Newest
  <2>4. Holds(reader'[s], p, p)
    BY <1>1, <1>2, <2>1, <2>2, WrittenHolds DEF Idle
  <2>5. Len(sent'[s]) = Len(out'[s]) + 1
    BY <1>1, <1>3, <1>4
  <2>6. NoneWorks(s)'
    BY <1>1, <2>1 DEF Idle, NoneWorks
  <2>7. QED
    BY <2>3, <2>4, <2>5, <2>6 DEF Lane, Streaming
<1>8. Lanes'
  BY <1>1, <1>7, LaneFrame DEF TurnsInv, Lanes
<1>9. QED
  BY <1>4, <1>5, <1>6, <1>8

\* A chunk is read.
LEMMA OnDataTurns ==
  ASSUME TurnsInv, NEW s \in Side, NEW n \in 1 .. Len(wire[s]), OnData(s, n)
  PROVE  (Chain /\ Forwards /\ OneUnwritten /\ Lanes)'
<1> DEFINE chunk == SubSeq(wire[s], 1, n)
           rest  == SubSeq(wire[s], n + 1, Len(wire[s]))
           f     == Push(reader[s], chunk)
<1>1. /\ alive
      /\ wire'[s] = rest
      /\ \A t \in Side \ {s} : wire'[t] = wire[t]
      /\ sent' = sent /\ out' = out
  BY DEF OnData, TurnsInv, TypeOK, control
<1>2. wire[s] \in Seq(Cell) /\ Len(wire[s]) \in Nat /\ reader[s] \in Fifo
  BY LaneTypes, LenProperties DEF TurnsInv
<1>3. chunk \in Seq(Cell) /\ rest \in Seq(Cell)
  BY <1>2, SubSeqProperties
<1>4. f \in Fifo
  BY <1>2, <1>3, PushType
<1>5. Streaming(s)
  BY <1>1, <1>2 DEF TurnsInv, Lanes, Lane, Idle, Called
<1>6. Holds(f, rest, Newest(s))
  <2>1. Newest(s) \in Seq(Cell) /\ Len(Newest(s)) <= Capacity
    BY <1>5, NewestFits DEF TurnsInv, Streaming
  <2>2. QED
    BY <1>2, <1>5, <2>1, PushHolds DEF Streaming
<1>7. \/ Handle(s, f) /\ alive' = alive
      \/ alive' = FALSE /\ handlers' = handlers
  BY DEF OnData
<1> HIDE DEF chunk, rest, f
<1>8. Chain' /\ Forwards'
  BY <1>1 DEF TurnsInv, Chain, Forwards
<1>9. CASE Handle(s, f) /\ alive' = alive
  <2>1. Lane(s)'
    BY <1>1, <1>3, <1>4, <1>5, <1>6, <1>9, HandleLane DEF TurnsInv, Streaming
  <2>2. \A t \in Side \ {s} : /\ reader'[t] = reader[t]
                              /\ handlers'[t] = handlers[t]
    BY <1>4, <1>9, HandleLeavesHandler DEF TurnsInv
  <2>3. \A t \in Side : Lane(t)'
    <3>1. ASSUME NEW t \in Side, t # s PROVE Lane(t)'
      <4>1. Lane(t)
        BY <1>1 DEF TurnsInv, Lanes
      <4>2. QED
        BY <1>1, <2>2, <3>1, <4>1, LaneFrame
    <3>2. QED
      BY <2>1, <3>1
  <2>4. OneUnwritten'
    BY <2>3, LanesOneUnwritten
  <2>5. QED
    BY <1>8, <2>3, <2>4 DEF Lanes
<1>10. CASE alive' = FALSE /\ handlers' = handlers
  BY <1>8, <1>10 DEF TurnsInv, OneUnwritten, Lanes
<1>11. QED
  BY <1>7, <1>9, <1>10

\* A handler call writes its packet, or fails to: it is the one call that had
\* still to write, and its packet the one that is due.
LEMMA HandlerWritesTurns ==
  ASSUME TurnsInv, NEW s \in Side, NEW i \in 1 .. Len(handlers[s]),
         HandlerWrites(s, i)
  PROVE  /\ Len(sent[s]) = Len(out[s]) + 1
         /\ wire[s] = << >>
         /\ open[Other(s)] =>
              out' = [out EXCEPT ![s] = Append(@, sent[s][Len(out[s]) + 1])]
         /\ (Chain /\ Forwards /\ OneUnwritten /\ Lanes)'
<1>1. /\ alive /\ handlers[s][i].phase = "working"
      /\ UNCHANGED <<alive, open, sent, wire, reader>>
  BY DEF HandlerWrites
<1>2. \A t \in Side : Len(sent[t]) \in Nat /\ Len(out[t]) \in Nat
  BY LaneTypes DEF TurnsInv
<1>3. Called(s)
  BY <1>1 DEF TurnsInv, Lanes, Lane, Idle, Streaming, NoneWorks
<1>4. /\ Len(sent[s]) = Len(out[s]) + 1
      /\ wire[s] = << >> /\ reader[s].position = 0
      /\ Serialize(handlers[s][i].packet) = Newest(s)
      /\ \A j \in 1 .. Len(handlers[s]) :
           handlers[s][j].phase = "working" => j = i
  BY <1>1, <1>3 DEF Called
<1>5. PICK ph \in {"writing", "failed"} :
        handlers' = [handlers EXCEPT ![s][i].phase = ph]
  BY DEF HandlerWrites
<1>6. /\ \A t \in Side \ {s} : handlers'[t] = handlers[t]
      /\ Len(handlers'[s]) = Len(handlers[s])
      /\ \A j \in 1 .. Len(handlers[s]) : handlers'[s][j].phase # "working"
  <2>1. /\ handlers \in [Side -> Seq(Handler)]
        /\ handlers[s] \in Seq(Handler) /\ Len(handlers[s]) \in Nat
    BY LaneTypes DEF TurnsInv, TypeOK, Handler
  <2>2. /\ \A t \in Side \ {s} : handlers'[t] = handlers[t]
        /\ handlers'[s] = [handlers[s] EXCEPT ![i].phase = ph]
    BY <1>5, <2>1
  <2>3. [handlers[s][i] EXCEPT !.phase = ph].phase = ph
    <3>1. handlers[s][i] \in Handler
      BY <2>1, ElementOfSeq
    <3>2. QED
      BY <3>1 DEF Handler
  <2>4. Len(handlers'[s]) = Len(handlers[s])
    BY <2>1, <2>2
  <2>5. ASSUME NEW j \in 1 .. Len(handlers[s])
        PROVE  handlers'[s][j].phase # "working"
    <3>1. CASE j = i
      BY <2>1, <2>2, <2>3, <3>1
    <3>2. CASE j # i
      <4>1. handlers'[s][j] = handlers[s][j]
        BY <2>1, <2>2, <3>2
      <4>2. QED
        BY <1>4, <3>2, <4>1
    <3>3. QED
      BY <3>1, <3>2
  <2>6. QED
    BY <2>2, <2>4, <2>5
<1>7. NoneWorks(s)'
  BY <1>6 DEF NoneWorks
<1>8. Lanes'
  <2>1. Idle(s)'
    BY <1>1, <1>4, <1>7 DEF Idle
  <2>2. ASSUME NEW t \in Side, t # s PROVE Lane(t)'
    <3>1. Lane(t) /\ out'[t] = out[t]
      BY <1>1, <2>2 DEF TurnsInv, Lanes, HandlerWrites, TypeOK
    <3>2. QED
      BY <1>1, <1>6, <2>2, <3>1, LaneFrame
  <2>3. QED
    BY <2>1, <2>2 DEF Lanes, Lane
<1>9. OneUnwritten'
  <2>1. ASSUME NEW t \in Side, NEW k \in 1 .. Len(handlers'[t]),
               NEW j \in 1 .. Len(handlers'[t]),
               handlers'[t][k].phase = "working",
               handlers'[t][j].phase = "working"
        PROVE  k = j
    BY <1>6, <2>1 DEF TurnsInv, OneUnwritten
  <2>2. QED
    BY <2>1 DEF OneUnwritten
<1>10. CASE open[Other(s)]
  <2>1. out' = [out EXCEPT ![s] = Append(@, Newest(s))]
    BY <1>4, <1>10 DEF HandlerWrites
  <2>2. Newest(s) = sent[s][Len(out[s]) + 1] /\ Newest(s) \in Seq(Cell)
    BY <1>4, NewestFits DEF TurnsInv, Newest
  <2>3. /\ out[s] \in Seq(Seq(Cell))
        /\ out'[s] = Append(out[s], Newest(s))
        /\ \A t \in Side \ {s} : out'[t] = out[t]
    BY <2>1 DEF TurnsInv, TypeOK
  <2>4. /\ Len(out'[s]) = Len(out[s]) + 1
        /\ out'[s][Len(out[s]) + 1] = Newest(s)
        /\ \A k \in 1 .. Len(out[s]) : out'[s][k] = out[s][k]
    BY <2>2, <2>3, AppendProperties
  <2>5. Chain'
    <3>1. Chain
      BY DEF TurnsInv
    <3>2. CASE s = "upstream"
      <4>1. out'["downstream"] = out["downstream"]
        BY <2>3, <3>2 DEF Side
      <4>2. QED
        BY <1>1, <1>2, <1>4, <2>4, <3>1, <3>2, <4>1 DEF Chain, Side
    <3>3. CASE s = "downstream"
      <4>1. out'["upstream"] = out["upstream"]
        BY <2>3, <3>3 DEF Side
      <4>2. QED
        BY <1>1, <1>2, <1>4, <2>4, <3>1, <3>3, <4>1 DEF Chain, Side
    <3>4. QED
      BY <3>2, <3>3 DEF Side
  <2>6. Forwards'
    <3>1. ASSUME NEW t \in Side, NEW k \in 1 .. Len(out'[t])
          PROVE  out'[t][k] = sent[t][k]
      <4>1. CASE t = s /\ k = Len(out[s]) + 1
        BY <2>2, <2>4, <4>1
      <4>2. CASE t = s /\ k # Len(out[s]) + 1
        <5>1. k \in 1 .. Len(out[s])
          BY <1>2, <2>4, <4>2
        <5>2. QED
          BY <2>4, <4>2, <5>1 DEF TurnsInv, Forwards
      <4>3. CASE t # s
        BY <2>3, <4>3 DEF TurnsInv, Forwards
      <4>4. QED
        BY <4>1, <4>2, <4>3
    <3>2. QED
      BY <1>1, <3>1 DEF Forwards
  <2>7. QED
    BY <1>4, <1>8, <1>9, <2>1, <2>2, <2>5, <2>6
<1>11. CASE ~open[Other(s)]
  <2>1. out' = out
    BY <1>11 DEF HandlerWrites
  <2>2. Chain' /\ Forwards'
    BY <1>1, <2>1 DEF TurnsInv, Chain, Forwards
  <2>3. QED
    BY <1>4, <1>8, <1>9, <1>11, <2>2
<1>12. QED
  BY <1>10, <1>11

\* What taking one call out of the list leaves.
LEMMA RemoveAtElements ==
  ASSUME NEW S, NEW seq \in Seq(S), NEW i \in 1 .. Len(seq)
  PROVE  /\ Len(RemoveAt(seq, i)) = Len(seq) - 1
         /\ \A k \in 1 .. Len(seq) - 1 :
              RemoveAt(seq, i)[k] = IF k < i THEN seq[k] ELSE seq[k + 1]
<1> DEFINE front == SubSeq(seq, 1, i - 1)
           back  == SubSeq(seq, i + 1, Len(seq))
<1>1. Len(seq) \in Nat /\ i \in Nat /\ \A k \in 1 .. Len(seq) : seq[k] \in S
  BY LenProperties, ElementOfSeq
<1>2. /\ front \in Seq(S) /\ Len(front) = i - 1
      /\ \A k \in 1 .. i - 1 : front[k] = seq[k]
  BY <1>1, SubSeqProperties
<1>3. /\ back \in Seq(S) /\ Len(back) = Len(seq) - i
      /\ \A k \in 1 .. Len(seq) - i : back[k] = seq[i + k]
  BY <1>1, SubSeqProperties
<1>4. RemoveAt(seq, i) = front \o back
  BY DEF RemoveAt
<1> HIDE DEF front, back
<1>5. /\ Len(front \o back) = Len(front) + Len(back)
      /\ \A k \in 1 .. Len(front) + Len(back) :
           (front \o back)[k] = IF k <= Len(front) THEN front[k]
                                ELSE back[k - Len(front)]
  BY <1>2, <1>3, ConcatProperties
<1>6. Len(front) + Len(back) = Len(seq) - 1
  BY <1>1, <1>2, <1>3
<1>7. ASSUME NEW k \in 1 .. Len(seq) - 1
      PROVE  (front \o back)[k] = IF k < i THEN seq[k] ELSE seq[k + 1]
  <2>1. (front \o back)[k] = IF k <= Len(front) THEN front[k]
                             ELSE back[k - Len(front)]
    BY <1>5, <1>6
  <2>2. CASE k < i
    <3>1. k <= Len(front) /\ k \in 1 .. i - 1
      BY <1>1, <1>2, <2>2
    <3>2. QED
      BY <1>2, <2>1, <2>2, <3>1
  <2>3. CASE ~(k < i)
    <3>1. /\ ~(k <= Len(front))
          /\ k - Len(front) \in 1 .. Len(seq) - i
          /\ i + (k - Len(front)) = k + 1
      BY <1>1, <1>2, <2>3
    <3>2. QED
      BY <1>3, <2>1, <2>3, <3>1
  <2>4. QED
    BY <2>2, <2>3
<1>8. QED
  BY <1>4, <1>5, <1>6, <1>7

\* A handler call that has written settles.
LEMMA HandlerResolvesTurns ==
  ASSUME TurnsInv, NEW s \in Side, NEW i \in 1 .. Len(handlers[s]),
         HandlerResolves(s, i)
  PROVE  (Chain /\ Forwards /\ OneUnwritten /\ Lanes)'
<1> DEFINE n      == Len(handlers[s])
           old(k) == IF k < i THEN k ELSE k + 1
<1>1. /\ alive /\ handlers[s][i].phase = "writing"
      /\ UNCHANGED <<alive, sent, wire, reader, out>>
  BY DEF HandlerResolves
<1>2. /\ handlers'[s] = RemoveAt(handlers[s], i)
      /\ \A t \in Side \ {s} : handlers'[t] = handlers[t]
      /\ handlers[s] \in Seq(Handler) /\ n \in Nat
  BY LaneTypes DEF HandlerResolves, TurnsInv, TypeOK
<1>3. /\ Len(handlers'[s]) = n - 1
      /\ \A k \in 1 .. n - 1 :
           old(k) \in 1 .. n /\ handlers'[s][k] = handlers[s][old(k)]
  <2>1. /\ Len(handlers'[s]) = n - 1
        /\ \A k \in 1 .. n - 1 :
             handlers'[s][k] = IF k < i THEN handlers[s][k]
                               ELSE handlers[s][k + 1]
    BY <1>2, RemoveAtElements
  <2> HIDE DEF n
  <2>2. ASSUME NEW k \in 1 .. n - 1
        PROVE  old(k) \in 1 .. n /\ handlers'[s][k] = handlers[s][old(k)]
    BY <1>2, <2>1, <2>2
  <2>3. QED
    BY <2>1, <2>2
<1>4. Lane(s)
  BY <1>1 DEF TurnsInv, Lanes
<1>5. NoneWorks(s) => NoneWorks(s)'
  BY <1>3 DEF NoneWorks
<1>6. ASSUME Idle(s) PROVE Lane(s)'
  BY <1>1, <1>5, <1>6 DEF Idle, Lane
<1>7. ASSUME Streaming(s) PROVE Lane(s)'
  BY <1>1, <1>5, <1>7 DEF Streaming, Lane, Newest
<1>8. ASSUME Called(s) PROVE Lane(s)'
  <2>1. PICK k \in 1 .. n :
          /\ handlers[s][k].phase = "working"
          /\ Serialize(handlers[s][k].packet) = Newest(s)
          /\ \A j \in 1 .. n : handlers[s][j].phase = "working" => j = k
    BY <1>8 DEF Called
  <2> DEFINE new == IF k < i THEN k ELSE k - 1
  <2> HIDE DEF n
  <2>2. k # i
    BY <1>1, <2>1
  <2>3. new \in 1 .. n - 1 /\ old(new) = k
    BY <1>2, <2>2 DEF n
  <2>4. /\ handlers'[s][new].phase = "working"
        /\ Serialize(handlers'[s][new].packet) = Newest(s)
    BY <1>3, <2>1, <2>3
  <2>5. ASSUME NEW j \in 1 .. n - 1, handlers'[s][j].phase = "working"
        PROVE  j = new
    <3>1. old(j) = k
      BY <1>3, <2>1, <2>5
    <3>2. QED
      BY <1>2, <2>2, <3>1
  <2> HIDE DEF new, old
  <2>6. Newest(s)' = Newest(s)
    BY <1>1 DEF Newest
  <2>7. Called(s)'
    BY <1>1, <1>3, <1>8, <2>3, <2>4, <2>5, <2>6 DEF Called
  <2>8. QED
    BY <2>7 DEF Lane
<1>9. Lanes'
  <2>1. Lane(s)'
    BY <1>4, <1>6, <1>7, <1>8 DEF Lane
  <2>2. ASSUME NEW t \in Side, t # s PROVE Lane(t)'
    <3>1. Lane(t)
      BY <1>1 DEF TurnsInv, Lanes
    <3>2. QED
      BY <1>1, <1>2, <2>2, <3>1, LaneFrame
  <2>3. QED
    BY <2>1, <2>2 DEF Lanes
<1>10. OneUnwritten'
  <2>1. \A t \in Side : Lane(t)'
    BY <1>1, <1>9 DEF Lanes
  <2>2. QED
    BY <2>1, LanesOneUnwritten
<1>11. QED
  BY <1>1, <1>9, <1>10 DEF TurnsInv, Chain, Forwards

\* A setImmediate callback looks at the buffer.
LEMMA OnImmediateTurns ==
  ASSUME TurnsInv, NEW s \in Side, OnImmediate(s)
  PROVE  (Chain /\ Forwards /\ OneUnwritten /\ Lanes)'
<1>1. /\ alive /\ Handle(s, reader[s])
      /\ UNCHANGED <<alive, sent, wire, out>>
  BY DEF OnImmediate
<1>2. /\ Lane(s)
      /\ reader[s] \in Fifo /\ wire[s] \in Seq(Cell)
  BY <1>1, LaneTypes DEF TurnsInv, Lanes
<1>3. \A t \in Side \ {s} : /\ reader'[t] = reader[t]
                            /\ handlers'[t] = handlers[t]
  BY <1>1, <1>2, HandleLeavesHandler DEF TurnsInv
<1>4. ASSUME Streaming(s) PROVE Lane(s)'
  <2>1. wire'[s] = wire[s] /\ sent' = sent /\ out' = out
    BY <1>1
  <2>2. QED
    BY <1>1, <1>2, <1>4, <2>1, HandleLane DEF TurnsInv, Streaming
<1>5. ASSUME reader[s].position = 0 PROVE Lane(s)'
  <2>1. reader'[s] = reader[s] /\ handlers' = handlers
    BY <1>1, <1>2, <1>5, HandleEmpty DEF TurnsInv
  <2>2. QED
    BY <1>1, <1>2, <2>1, LaneFrame
<1>6. Lane(s)'
  BY <1>2, <1>4, <1>5 DEF Lane, Idle, Called
<1>7. \A t \in Side : Lane(t)'
  <2>1. ASSUME NEW t \in Side, t # s PROVE Lane(t)'
    <3>1. Lane(t)
      BY <1>1 DEF TurnsInv, Lanes
    <3>2. QED
      BY <1>1, <1>3, <2>1, <3>1, LaneFrame
  <2>2. QED
    BY <1>6, <2>1
<1>8. QED
  BY <1>1, <1>7, LanesOneUnwritten DEF TurnsInv, Chain, Forwards, Lanes

\* Every step keeps the invariant when the peers take turns.
LEMMA NextTurns ==
  ASSUME Pipelined = FALSE, TurnsInv, [Next]_vars, TypeOK'
  PROVE  TurnsInv'
<1>1. ASSUME NEW s \in Side, NEW p \in Packets, SendPacket(s, p)
      PROVE  TurnsInv'
  BY <1>1, SendPacketTurns DEF TurnsInv
<1>2. ASSUME NEW s \in Side, ReadData(s) PROVE TurnsInv'
  BY <1>2, OnDataTurns DEF ReadData, TurnsInv
<1>3. ASSUME NEW s \in Side, NEW i \in 1 .. Len(handlers[s]),
             HandlerWrites(s, i)
      PROVE  TurnsInv'
  BY <1>3, HandlerWritesTurns DEF TurnsInv
<1>4. ASSUME NEW s \in Side, NEW i \in 1 .. Len(handlers[s]),
             HandlerResolves(s, i)
      PROVE  TurnsInv'
  BY <1>4, HandlerResolvesTurns DEF TurnsInv
<1>5. ASSUME NEW s \in Side, OnImmediate(s) PROVE TurnsInv'
  BY <1>5, OnImmediateTurns DEF TurnsInv
<1>6. ASSUME UNCHANGED <<sent, wire, reader, handlers, out>>,
             alive' => alive
      PROVE  TurnsInv'
  <2>1. Chain' /\ Forwards' /\ OneUnwritten'
    BY <1>6 DEF TurnsInv, Chain, Forwards, OneUnwritten
  <2>2. Lanes'
    BY <1>6, LaneFrame DEF TurnsInv, Lanes
  <2>3. QED
    BY <2>1, <2>2 DEF TurnsInv
<1>7. ASSUME NEW s \in Side, SendControl(s) \/ DriverCloses(s)
      PROVE  TurnsInv'
  BY <1>6, <1>7 DEF SendControl, DriverCloses
<1>8. ASSUME NEW s \in Side, OnControl(s) PROVE TurnsInv'
  BY <1>6, <1>8 DEF OnControl, peers
<1>9. ASSUME NEW s \in Side, NEW i \in 1 .. Len(handlers[s]),
             HandlerRejects(s, i)
      PROVE  TurnsInv'
  BY <1>6, <1>9 DEF HandlerRejects, Unhandled
<1>10. CASE UNCHANGED vars
  BY <1>6, <1>10 DEF vars
<1>11. QED
  BY <1>1, <1>2, <1>3, <1>4, <1>5, <1>7, <1>8, <1>9, <1>10
     DEF Next, HandlerStep

\* At the start nothing has been sent and all is idle.
LEMMA InitTurns == Init => TurnsInv
<1> SUFFICES ASSUME Init PROVE TurnsInv
  OBVIOUS
<1>1. Chain /\ Forwards /\ OneUnwritten
  BY DEF Init, Chain, Forwards, OneUnwritten, Side
<1>2. \A s \in Side : Idle(s)
  BY DEF Init, Idle, NoneWorks, EmptyFifo
<1>3. QED
  BY <1>1, <1>2, InitType DEF TurnsInv, Lanes, Lane

(***************************************************************************)
(* With peers that take turns, of the handler calls of one side at most    *)
(* one has still to write, for all packets and buffers, however calls      *)
(* overlap and whatever fails (proxy.ts:124-140).                          *)
(***************************************************************************)
THEOREM HandlersTakeTurns ==
  ASSUME Pipelined = FALSE
  PROVE  SafeSpec => []OneUnwritten
<1>1. TurnsInv /\ TypeOK' /\ [Next]_vars => TurnsInv'
  BY NextTurns
<1>2. TurnsInv => OneUnwritten
  BY DEF TurnsInv
<1>3. QED
  BY <1>1, <1>2, InitTurns, ProxyTypeCorrect, PTL DEF SafeSpec

(***************************************************************************)
(* With peers that take turns the proxy is the exchange: each of its steps *)
(* is a step of the exchange or one the peers do not see.  A peer's packet *)
(* is Ask or Answer, because a peer may only write in its turn; a write of *)
(* a handler is Take or Return, because its packet is the one that is due. *)
(***************************************************************************)
THEOREM ProxyImplementsExchange ==
  ASSUME Pipelined = FALSE
  PROVE  SafeSpec => ImplementsExchange
<1>1. Init => Exchange!Init
  BY DEF Init, Exchange!Init, Side
<1>2. TurnsInv /\ [Next]_vars => [Exchange!Next]_(Exchange!vars)
  <2> SUFFICES ASSUME TurnsInv, [Next]_vars
               PROVE  [Exchange!Next]_(Exchange!vars)
    OBVIOUS
  <2>1. ASSUME UNCHANGED <<sent, out>>
        PROVE  UNCHANGED Exchange!vars
    BY <2>1 DEF Exchange!vars
  <2>2. ASSUME NEW s \in Side, NEW p \in Packets, SendPacket(s, p)
        PROVE  Exchange!Next
    <3>1. /\ sent' = [sent EXCEPT ![s] = Append(@, p)]
          /\ sent \in [Side -> Seq(Packets)]
          /\ out' = out /\ Turn(s)
      BY <2>2 DEF SendPacket, TurnsInv, TypeOK
    <3>2. CASE s = "downstream"
      <4>1. /\ sent'["downstream"] = Append(sent["downstream"], p)
            /\ sent'["upstream"] = sent["upstream"]
        BY <3>1, <3>2 DEF Side
      <4>2. Exchange!Ask(p)
        BY <3>1, <3>2, <4>1 DEF Exchange!Ask, Turn
      <4>3. QED
        BY <4>2 DEF Exchange!Next
    <3>3. CASE s = "upstream"
      <4>1. /\ sent'["upstream"] = Append(sent["upstream"], p)
            /\ sent'["downstream"] = sent["downstream"]
        BY <3>1, <3>3 DEF Side
      <4>2. Exchange!Answer(p)
        BY <3>1, <3>3, <4>1 DEF Exchange!Answer, Turn
      <4>3. QED
        BY <4>2 DEF Exchange!Next
    <3>4. QED
      BY <3>2, <3>3 DEF Side
  <2>3. ASSUME NEW s \in Side, NEW i \in 1 .. Len(handlers[s]),
               HandlerWrites(s, i)
        PROVE  [Exchange!Next]_(Exchange!vars)
    <3>1. /\ Len(sent[s]) = Len(out[s]) + 1
          /\ sent' = sent /\ out \in [Side -> Seq(Seq(Cell))]
          /\ Len(out[s]) \in Nat
          /\ open[Other(s)] =>
               out' = [out EXCEPT ![s] = Append(@, sent[s][Len(out[s]) + 1])]
      BY <2>3, HandlerWritesTurns, LaneTypes
         DEF HandlerWrites, TurnsInv, TypeOK
    <3>2. CASE ~open[Other(s)]
      BY <2>1, <2>3, <3>1, <3>2 DEF HandlerWrites
    <3>3. CASE open[Other(s)] /\ s = "downstream"
      <4>1. /\ out'["downstream"] =
                 Append(out["downstream"],
                        sent["downstream"][Len(out["downstream"]) + 1])
            /\ out'["upstream"] = out["upstream"]
        BY <3>1, <3>3 DEF Side
      <4>2. Exchange!Take
        BY <3>1, <3>3, <4>1 DEF Exchange!Take
      <4>3. QED
        BY <4>2 DEF Exchange!Next
    <3>4. CASE open[Other(s)] /\ s = "upstream"
      <4>1. /\ out'["upstream"] =
                 Append(out["upstream"],
                        sent["upstream"][Len(out["upstream"]) + 1])
            /\ out'["downstream"] = out["downstream"]
        BY <3>1, <3>4 DEF Side
      <4>2. Exchange!Return
        BY <3>1, <3>4, <4>1 DEF Exchange!Return
      <4>3. QED
        BY <4>2 DEF Exchange!Next
    <3>5. QED
      BY <3>2, <3>3, <3>4 DEF Side
  <2>4. ASSUME NEW s \in Side, SendControl(s) \/ DriverCloses(s)
        PROVE  UNCHANGED Exchange!vars
    BY <2>1, <2>4 DEF SendControl, DriverCloses
  <2>5. ASSUME NEW s \in Side, ReadData(s) \/ OnControl(s) \/ OnImmediate(s)
        PROVE  UNCHANGED Exchange!vars
    <3>1. CASE ReadData(s)
      BY <2>1, <3>1 DEF ReadData, OnData
    <3>2. CASE OnControl(s)
      BY <2>1, <3>2 DEF OnControl, peers
    <3>3. CASE OnImmediate(s)
      BY <2>1, <3>3 DEF OnImmediate
    <3>4. QED
      BY <2>5, <3>1, <3>2, <3>3
  <2>6. ASSUME NEW s \in Side, NEW i \in 1 .. Len(handlers[s]),
               HandlerResolves(s, i) \/ HandlerRejects(s, i)
        PROVE  UNCHANGED Exchange!vars
    BY <2>1, <2>6 DEF HandlerResolves, HandlerRejects
  <2>7. CASE UNCHANGED vars
    BY <2>1, <2>7 DEF vars
  <2>8. QED
    BY <2>2, <2>3, <2>4, <2>5, <2>6, <2>7 DEF Next, HandlerStep
<1>3. TurnsInv /\ TypeOK' /\ [Next]_vars => TurnsInv'
  BY NextTurns
<1>4. QED
  BY <1>1, <1>2, <1>3, InitTurns, ProxyTypeCorrect, PTL
     DEF SafeSpec, ImplementsExchange, Exchange!Spec

\* All that was sent was handed to the capture or is still to be read.
AllCaptured ==
  WritePcap /\ alive =>
    \A s \in Side : captured[s] \o wire[s] = FlattenSeq(sent[s])

\* A prefix stays one when the sequence grows, and every sequence is its own.
LEMMA PrefixGrows ==
  ASSUME NEW S, NEW a \in Seq(S), NEW b \in Seq(S), NEW c \in Seq(S),
         IsPrefix(a, b)
  PROVE  IsPrefix(a, b \o c)
<1>1. /\ Len(a) \in Nat /\ Len(b) \in Nat /\ Len(c) \in Nat
      /\ Len(a) <= Len(b) /\ SubSeq(a, 1, Len(a)) = SubSeq(b, 1, Len(a))
  BY LenProperties DEF IsPrefix
<1>2. Len(b \o c) = Len(b) + Len(c)
  BY ConcatProperties
<1>3. SubSeq(b \o c, 1, Len(a)) = SubSeq(b, 1, Len(a))
  <2>1. CASE Len(a) = 0
    <3>1. SubSeq(b \o c, 1, 0) = << >> /\ SubSeq(b, 1, 0) = << >>
      BY SubSeqEmpty
    <3>2. QED
      BY <2>1, <3>1
  <2>2. CASE Len(a) # 0
    <3>1. 1 \in 1 .. Len(b) /\ Len(a) \in 1 .. Len(b)
      BY <1>1, <2>2
    <3>2. QED
      BY <3>1, SubSeqOfConcat1
  <2>3. QED
    BY <2>1, <2>2
<1>4. Len(a) <= Len(b \o c)
  BY <1>1, <1>2
<1>5. QED
  BY <1>1, <1>3, <1>4 DEF IsPrefix

\* ConcatAssociative for sequences of cells, in the form the provers use.
LEMMA ConcatAssociativeCells ==
  \A a, b, c \in Seq(Cell) : (a \o b) \o c = a \o (b \o c)
BY ConcatAssociative

\* The types of what is compared with the capture.
LEMMA StreamTypes ==
  ASSUME TypeOK, NEW s \in Side
  PROVE  /\ sent[s] \in Seq(Seq(Cell)) /\ out[s] \in Seq(Seq(Cell))
         /\ wire[s] \in Seq(Cell) /\ captured[s] \in Seq(Cell)
         /\ FlattenSeq(sent[s]) \in Seq(Cell)
         /\ FlattenSeq(out[s]) \in Seq(Cell)
<1>1. Packets \subseteq Seq(Cell)
  BY PacketsAssumption DEF WellFormed
<1>2. /\ sent[s] \in Seq(Packets) /\ out[s] \in Seq(Seq(Cell))
      /\ wire[s] \in Seq(Cell) /\ captured[s] \in Seq(Cell)
  BY DEF TypeOK
<1>3. sent[s] \in Seq(Seq(Cell))
  BY <1>1, <1>2, SeqMonotonic
<1>4. << >> \in Seq(Cell)
  BY EmptySeq
<1>5. QED
  BY <1>2, <1>3, <1>4, FlattenAppend

\* What has been captured grows only by what is read.
LEMMA CaptureInvariant ==
  ASSUME TypeOK, AllCaptured, [Next]_vars
  PROVE  AllCaptured'
<1> SUFFICES ASSUME WritePcap, alive'
             PROVE  \A s \in Side :
                      captured'[s] \o wire'[s] = FlattenSeq(sent'[s])
  BY DEF AllCaptured
<1>1. ASSUME alive
      PROVE  \A s \in Side : captured[s] \o wire[s] = FlattenSeq(sent[s])
  BY <1>1 DEF AllCaptured
<1>2. ASSUME alive' => alive, UNCHANGED <<sent, wire, captured>>
      PROVE  \A s \in Side : captured'[s] \o wire'[s] = FlattenSeq(sent'[s])
  BY <1>1, <1>2
<1>3. ASSUME NEW s \in Side, NEW p \in Packets, SendPacket(s, p)
      PROVE  \A t \in Side : captured'[t] \o wire'[t] = FlattenSeq(sent'[t])
  <2>1. /\ alive /\ captured' = captured
        /\ sent'[s] = Append(sent[s], p) /\ wire'[s] = wire[s] \o p
        /\ \A t \in Side \ {s} : sent'[t] = sent[t] /\ wire'[t] = wire[t]
    BY <1>3 DEF SendPacket, TypeOK
  <2>2. p \in Seq(Cell)
    BY PacketsAssumption DEF WellFormed
  <2>3. FlattenSeq(sent'[s]) = FlattenSeq(sent[s]) \o p
    BY <2>1, <2>2, StreamTypes, FlattenAppend
  <2>4. captured[s] \o (wire[s] \o p) = (captured[s] \o wire[s]) \o p
    <3>1. wire[s] \in Seq(Cell) /\ captured[s] \in Seq(Cell)
      BY StreamTypes
    <3>2. QED
      BY <2>2, <3>1, ConcatAssociativeCells
  <2>5. captured'[s] \o wire'[s] = FlattenSeq(sent'[s])
    BY <1>1, <2>1, <2>3, <2>4
  <2>6. QED
    BY <1>1, <2>1, <2>5
<1>4. ASSUME NEW s \in Side, NEW n \in 1 .. Len(wire[s]), OnData(s, n)
      PROVE  \A t \in Side : captured'[t] \o wire'[t] = FlattenSeq(sent'[t])
  <2> DEFINE chunk == SubSeq(wire[s], 1, n)
             rest  == SubSeq(wire[s], n + 1, Len(wire[s]))
  <2>1. /\ alive /\ sent' = sent
        /\ wire'[s] = rest /\ captured'[s] = captured[s] \o chunk
        /\ \A t \in Side \ {s} : /\ wire'[t] = wire[t]
                                 /\ captured'[t] = captured[t]
    BY <1>4 DEF OnData, Capture, TypeOK, control
  <2>2. /\ captured[s] \in Seq(Cell)
        /\ wire[s] \in Seq(Cell) /\ Len(wire[s]) \in Nat
    BY StreamTypes, LenProperties
  <2>3. chunk \in Seq(Cell) /\ rest \in Seq(Cell)
    BY <2>2, SubSeqProperties
  <2>4. chunk \o rest = wire[s]
    <3>1. /\ 1 \in 1 .. Len(wire[s]) + 1 /\ n \in 1 - 1 .. Len(wire[s])
          /\ Len(wire[s]) \in n .. Len(wire[s])
      BY <2>2
    <3>2. chunk \o rest = SubSeq(wire[s], 1, Len(wire[s]))
      BY <2>2, <3>1, ConcatAdjacentSubSeq
    <3>3. QED
      BY <2>2, <3>2, SubSeqFull
  <2> HIDE DEF chunk, rest
  <2>5. (captured[s] \o chunk) \o rest = captured[s] \o wire[s]
    <3>1. (captured[s] \o chunk) \o rest = captured[s] \o (chunk \o rest)
      BY <2>2, <2>3, ConcatAssociativeCells
    <3>2. QED
      BY <2>4, <3>1
  <2>6. captured'[s] \o wire'[s] = FlattenSeq(sent'[s])
    BY <1>1, <2>1, <2>5
  <2>7. QED
    BY <1>1, <2>1, <2>6
<1>5. ASSUME NEW s \in Side, SendControl(s) \/ DriverCloses(s) \/ OnControl(s)
      PROVE  (alive' => alive) /\ UNCHANGED <<sent, wire, captured>>
  BY <1>5 DEF SendControl, DriverCloses, OnControl, peers
<1>6. ASSUME NEW s \in Side, HandlerStep(s) \/ OnImmediate(s)
      PROVE  (alive' => alive) /\ UNCHANGED <<sent, wire, captured>>
  BY <1>6 DEF HandlerStep, HandlerWrites, HandlerResolves, HandlerRejects,
              OnImmediate
<1>7. CASE UNCHANGED vars
  BY <1>2, <1>7 DEF vars
<1>8. QED
  BY <1>2, <1>3, <1>4, <1>5, <1>6, <1>7 DEF Next, ReadData

\* A packet that is forwarded is the newest and has been read whole, so the
\* capture was handed the whole stream.
LEMMA CapturedInvariant ==
  ASSUME TurnsInv, AllCaptured, CapturedBeforeForwarded, [Next]_vars,
         TypeOK'
  PROVE  CapturedBeforeForwarded'
<1> SUFFICES ASSUME WritePcap
             PROVE  \A s \in Side : IsPrefix(FlattenSeq(out'[s]), captured'[s])
  BY DEF CapturedBeforeForwarded
<1>1. \A s \in Side : IsPrefix(FlattenSeq(out[s]), captured[s])
  BY DEF CapturedBeforeForwarded
<1>2. ASSUME UNCHANGED <<out, captured>>
      PROVE  \A s \in Side : IsPrefix(FlattenSeq(out'[s]), captured'[s])
  BY <1>1, <1>2
<1>3. ASSUME NEW s \in Side, NEW n \in 1 .. Len(wire[s]), OnData(s, n)
      PROVE  \A t \in Side : IsPrefix(FlattenSeq(out'[t]), captured'[t])
  <2> DEFINE chunk == SubSeq(wire[s], 1, n)
  <2>1. wire[s] \in Seq(Cell) /\ Len(wire[s]) \in Nat
    BY StreamTypes, LenProperties DEF TurnsInv
  <2>2. chunk \in Seq(Cell)
    BY <2>1, SubSeqProperties
  <2>3. /\ out' = out
        /\ \/ captured' = captured
           \/ captured' = [captured EXCEPT ![s] = @ \o chunk]
    BY <1>3 DEF OnData, Capture
  <2> HIDE DEF chunk
  <2>4. CASE captured' = captured
    BY <1>1, <2>3, <2>4
  <2>5. CASE captured' = [captured EXCEPT ![s] = @ \o chunk]
    <3>1. /\ captured'[s] = captured[s] \o chunk
          /\ \A t \in Side \ {s} : captured'[t] = captured[t]
      BY <2>5 DEF TurnsInv, TypeOK
    <3>2. captured[s] \in Seq(Cell) /\ FlattenSeq(out[s]) \in Seq(Cell)
      BY StreamTypes DEF TurnsInv
    <3>3. IsPrefix(FlattenSeq(out[s]), captured[s] \o chunk)
      BY <1>1, <2>2, <3>2, PrefixGrows
    <3>4. QED
      BY <1>1, <2>3, <3>1, <3>3
  <2>6. QED
    BY <2>3, <2>4, <2>5
<1>4. ASSUME NEW s \in Side, NEW i \in 1 .. Len(handlers[s]),
             HandlerWrites(s, i)
      PROVE  \A t \in Side : IsPrefix(FlattenSeq(out'[t]), captured'[t])
  <2>1. alive /\ captured' = captured
    BY <1>4 DEF HandlerWrites
  <2>2. /\ Len(sent[s]) = Len(out[s]) + 1
        /\ wire[s] = << >>
        /\ open[Other(s)] =>
             out' = [out EXCEPT ![s] = Append(@, sent[s][Len(out[s]) + 1])]
    BY <1>4, HandlerWritesTurns
  <2>3. CASE ~open[Other(s)]
    BY <1>2, <1>4, <2>1, <2>3 DEF HandlerWrites
  <2>4. CASE open[Other(s)]
    <3>1. /\ sent[s] \in Seq(Seq(Cell)) /\ out[s] \in Seq(Seq(Cell))
          /\ Len(out[s]) \in Nat /\ Len(sent[s]) \in Nat
          /\ captured[s] \in Seq(Cell)
      BY StreamTypes, LenProperties DEF TurnsInv
    <3>2. sent[s][Len(out[s]) + 1] \in Seq(Cell)
      BY <2>2, <3>1, ElementOfSeq
    <3>3. /\ out'[s] = Append(out[s], sent[s][Len(out[s]) + 1])
          /\ \A t \in Side \ {s} : out'[t] = out[t]
      BY <2>2, <2>4 DEF TurnsInv, TypeOK
    <3>4. /\ out'[s] \in Seq(Seq(Cell))
          /\ Len(out'[s]) = Len(out[s]) + 1
          /\ out'[s][Len(out[s]) + 1] = sent[s][Len(out[s]) + 1]
          /\ \A k \in 1 .. Len(out[s]) : out'[s][k] = out[s][k]
      BY <3>1, <3>2, <3>3, AppendProperties
    <3>5. out'[s] = sent[s]
      <4>1. ASSUME NEW k \in 1 .. Len(out[s]) + 1
            PROVE  out'[s][k] = sent[s][k]
        <5>1. CASE k = Len(out[s]) + 1
          BY <3>4, <5>1
        <5>2. CASE k # Len(out[s]) + 1
          <6>1. k \in 1 .. Len(out[s])
            BY <3>1, <5>2
          <6>2. QED
            BY <3>4, <6>1 DEF TurnsInv, Forwards
        <5>3. QED
          BY <5>1, <5>2
      <4>2. QED
        BY <2>2, <3>1, <3>4, <4>1, SeqEqual
    <3>6. captured[s] = FlattenSeq(sent[s])
      BY <2>1, <2>2, <3>1, ConcatEmptySeq DEF AllCaptured
    <3>7. IsPrefix(FlattenSeq(out'[s]), captured'[s])
      <4>1. IsPrefix(captured[s], captured[s])
        BY <3>1, LenProperties DEF IsPrefix
      <4>2. QED
        BY <2>1, <3>5, <3>6, <4>1
    <3>8. QED
      BY <1>1, <2>1, <3>3, <3>7
  <2>5. QED
    BY <2>3, <2>4
<1>5. ASSUME NEW s \in Side,
             \/ \E p \in Packets : SendPacket(s, p)
             \/ SendControl(s)
             \/ DriverCloses(s)
             \/ OnControl(s)
             \/ OnImmediate(s)
      PROVE  UNCHANGED <<out, captured>>
  BY <1>5 DEF SendPacket, SendControl, DriverCloses, OnControl, OnImmediate
<1>6. ASSUME NEW s \in Side, NEW i \in 1 .. Len(handlers[s]),
             HandlerResolves(s, i) \/ HandlerRejects(s, i)
      PROVE  UNCHANGED <<out, captured>>
  BY <1>6 DEF HandlerResolves, HandlerRejects
<1>7. CASE UNCHANGED vars
  BY <1>2, <1>7 DEF vars
<1>8. QED
  BY <1>2, <1>3, <1>4, <1>5, <1>6, <1>7 DEF Next, ReadData, HandlerStep

\* At the start nothing is captured and nothing forwarded.
LEMMA InitCaptured == Init => AllCaptured /\ CapturedBeforeForwarded
<1> SUFFICES ASSUME Init PROVE AllCaptured /\ CapturedBeforeForwarded
  OBVIOUS
<1>1. \A s \in Side : /\ sent[s] = << >> /\ out[s] = << >>
                      /\ wire[s] = << >> /\ captured[s] = << >>
  BY DEF Init
<1>2. FlattenSeq(<< >>) = << >> /\ << >> \o << >> = << >>
  BY DEF FlattenSeq
<1>3. IsPrefix(<< >>, << >>)
  BY DEF IsPrefix
<1>4. QED
  BY <1>1, <1>2, <1>3 DEF AllCaptured, CapturedBeforeForwarded

(***************************************************************************)
(* With peers that take turns, a packet is forwarded only when all its     *)
(* bytes have been handed to the capture's write(), behind those of the    *)
(* packets before it, for every way the stream is cut and even if captures *)
(* throw (proxy.ts:85-94, 104-113).  That they are in the file is not said.*)
(***************************************************************************)
THEOREM CapturesFirst ==
  ASSUME Pipelined = FALSE
  PROVE  SafeSpec => []CapturedBeforeForwarded
<1> DEFINE CInv == TurnsInv /\ AllCaptured /\ CapturedBeforeForwarded
<1>1. Init => CInv
  BY InitTurns, InitCaptured
<1>2. CInv /\ TypeOK' /\ [Next]_vars => CInv'
  <2>1. TurnsInv => TypeOK
    BY DEF TurnsInv
  <2>2. QED
    BY <2>1, NextTurns, CaptureInvariant, CapturedInvariant
<1>3. CInv => CapturedBeforeForwarded
  OBVIOUS
<1>4. QED
  BY <1>1, <1>2, <1>3, ProxyTypeCorrect, PTL DEF SafeSpec

=============================================================================
