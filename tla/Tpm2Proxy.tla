------------------------------ MODULE Tpm2Proxy ------------------------------
(***************************************************************************)
(* The event loop of packages/tpm2-proxy/src/proxy.ts between two drivers. *)
(* A step is one callback the loop runs: a driver's 'data' or 'control'    *)
(* listener, a handler's promise settling, a setImmediate callback; or a   *)
(* step of what surrounds the proxy: the peers and the user's handlers.    *)
(*                                                                         *)
(* The code writes everything twice, once for data from the upstream (the  *)
(* TPM) and once for data from the downstream (the client).  Here a side s *)
(* is where data comes from, and Other(s) is where it is forwarded to.     *)
(*                                                                         *)
(* The process runs under Node 16 (@types/node ^16), where an unhandled    *)
(* rejection or an exception in a listener ends it: alive becomes FALSE.   *)
(* Control messages are numbered; of what is handed to the capture stream  *)
(* the data is kept.  PcapGenerator has what becomes of it: it may still   *)
(* wait in the stream when the packet goes on or the process ends.         *)
(***************************************************************************)
EXTENDS Tpm2Tcti, SequencesExt

CONSTANTS
  Packets,      \* what the peers may send
  MaxPackets,   \* bound on the packets each peer sends
  MaxControl,   \* bound on the control messages each peer sends
  Pipelined,    \* may a peer send without waiting for its turn?
  Failures,     \* may drivers close, handlers reject, captures throw?
  WritePcap,    \* options.writePcap
  MaxCapture    \* longest chunk a pseudo UDP datagram holds: 65506

ASSUME PacketsAssumption ==
  \A p \in Packets : WellFormed(p) /\ Len(p) <= Capacity

ASSUME BoundsAssumption ==
  /\ MaxPackets \in Nat
  /\ MaxControl \in Nat
  /\ MaxCapture \in Nat

ASSUME SwitchesAssumption ==
  /\ Pipelined \in BOOLEAN
  /\ Failures \in BOOLEAN
  /\ WritePcap \in BOOLEAN

Side == {"upstream", "downstream"}

Other(s) == IF s = "upstream" THEN "downstream" ELSE "upstream"

(***************************************************************************)
(* A handler is one call of onUpstreamData or onDownstreamData that has    *)
(* not settled: "working" before it writes the packet to the other side,   *)
(* "writing" until the socket calls back, "failed" when the driver's write *)
(* was rejected.                                                           *)
(***************************************************************************)
Phase == {"working", "writing", "failed"}

VARIABLES
  alive,        \* the process runs
  open,         \* per side: the driver's sockets are open
  sent,         \* history, per side: the packets the peer has written
  wire,         \* per side: data bytes not yet read
  reader,       \* upstreamReader, downstreamReader: their receive buffers
  handlers,     \* per side: handler calls that have not settled
  immediates,   \* per side: setImmediate callbacks that have not run
  out,          \* history, per side: what was written to the other side
  controlSent,  \* per side: number of control messages written by the peer
  controlOut,   \* history, per side: control messages passed on
  captured      \* history, per side: data bytes handed to the capture's write()

peers == <<sent, controlSent>>
control == <<controlSent, controlOut>>
vars == <<alive, open, sent, wire, reader, handlers, immediates, out,
          controlSent, controlOut, captured>>

PacketRecord ==
  [tag : Cell, size : Cell, code : Cell, data : Seq(Cell), raw : Seq(Cell)]

TypeOK ==
  /\ alive \in BOOLEAN
  /\ open \in [Side -> BOOLEAN]
  /\ sent \in [Side -> Seq(Packets)]
  /\ wire \in [Side -> Seq(Cell)]
  /\ reader \in [Side -> Fifo]
  /\ handlers \in [Side -> Seq([packet : PacketRecord, phase : Phase])]
  /\ immediates \in [Side -> Nat]
  /\ out \in [Side -> Seq(Seq(Cell))]
  /\ controlSent \in [Side -> Nat]
  /\ controlOut \in [Side -> Seq(Nat)]
  /\ captured \in [Side -> Seq(Cell)]

Init ==
  /\ alive = TRUE
  /\ open = [s \in Side |-> TRUE]
  /\ sent = [s \in Side |-> << >>]
  /\ wire = [s \in Side |-> << >>]
  /\ reader = [s \in Side |-> EmptyFifo]
  /\ handlers = [s \in Side |-> << >>]
  /\ immediates = [s \in Side |-> 0]
  /\ out = [s \in Side |-> << >>]
  /\ controlSent = [s \in Side |-> 0]
  /\ controlOut = [s \in Side |-> << >>]
  /\ captured = [s \in Side |-> << >>]

-----------------------------------------------------------------------------
(* The peers. *)

\* The client sends a command when it has no response to wait for; the TPM
\* sends a response for every command that has reached it.
Turn(s) ==
  IF s = "downstream"
  THEN Len(sent["downstream"]) = Len(out["upstream"])
  ELSE Len(sent["upstream"]) < Len(out["downstream"])

SendPacket(s, p) ==
  /\ open[s]
  /\ Len(sent[s]) < MaxPackets
  /\ Pipelined \/ Turn(s)
  /\ sent' = [sent EXCEPT ![s] = Append(@, p)]
  /\ wire' = [wire EXCEPT ![s] = @ \o p]
  /\ UNCHANGED <<alive, open, reader, handlers, immediates, out, captured>>
  /\ UNCHANGED control

SendControl(s) ==
  /\ open[s]
  /\ controlSent[s] < MaxControl
  /\ controlSent' = [controlSent EXCEPT ![s] = @ + 1]
  /\ UNCHANGED <<alive, open, sent, wire, reader, handlers, immediates, out>>
  /\ UNCHANGED <<controlOut, captured>>

\* A driver's sockets close; the proxy listens to no 'close' event.
DriverCloses(s) ==
  /\ Failures
  /\ open[s]
  /\ open' = [open EXCEPT ![s] = FALSE]
  /\ UNCHANGED <<alive, sent, wire, reader, handlers, immediates, out>>
  /\ UNCHANGED <<control, captured>>

-----------------------------------------------------------------------------
(* The proxy. *)

\* generatePacket throws when the datagram's length does not fit 16 bits.
Capturable(chunk) == WritePcap => Len(chunk) <= MaxCapture

\* Mutant of Capture: nothing is handed to the capture.
CaptureNothing(s, chunk) == UNCHANGED captured

\* pcapGenerator.write(), which returns before the bytes are in the file.
Capture(s, chunk) ==
  captured' = IF WritePcap
              THEN [captured EXCEPT ![s] = @ \o chunk]
              ELSE captured

\* Mutant of Handle: the handler is called with the packet left in place.
HandleKeepsPacket(s, f) ==
  /\ reader' = [reader EXCEPT ![s] = f]
  /\ handlers' = IF CanParse(f)
                 THEN [handlers EXCEPT ![s] =
                         Append(@, [packet |-> ParsedPacket(f),
                                    phase  |-> "working"])]
                 ELSE handlers

\* handleUpstreamData, handleDownstreamData: take at most one packet out of
\* the buffer f and call the handler with it.
Handle(s, f) ==
  \/ /\ CanParse(f)
     /\ reader' = [reader EXCEPT ![s] = AfterParse(f)]
     /\ handlers' = [handlers EXCEPT ![s] =
                       Append(@, [packet |-> ParsedPacket(f),
                                  phase  |-> "working"])]
  \/ /\ ~CanParse(f)
     /\ reader' = [reader EXCEPT ![s] = f]
     /\ UNCHANGED handlers

\* The 'data' listener, called with the next n bytes.  It captures before
\* it pushes, and an exception in the capture ends the process.
OnData(s, n) ==
  LET chunk == SubSeq(wire[s], 1, n)
  IN  /\ alive
      /\ open[s]
      /\ n <= Len(wire[s])
      /\ wire' = [wire EXCEPT ![s] = SubSeq(@, n + 1, Len(@))]
      /\ \/ /\ Capturable(chunk)
            /\ Capture(s, chunk)
            /\ Handle(s, Push(reader[s], chunk))
            /\ UNCHANGED alive
         \/ /\ ~Capturable(chunk)
            /\ alive' = FALSE
            /\ UNCHANGED <<captured, reader, handlers>>
      /\ UNCHANGED <<open, sent, immediates, out, control>>

\* The 'control' listener.  A message may be too long to capture.  Nobody
\* looks at the promise of writeControlRaw, so a write to a closed driver
\* ends the process, too.
OnControl(s) ==
  /\ alive
  /\ open[s]
  /\ Len(controlOut[s]) < controlSent[s]
  /\ \/ /\ open[Other(s)]
        /\ controlOut' = [controlOut EXCEPT ![s] = Append(@, Len(@) + 1)]
        /\ UNCHANGED alive
     \/ /\ ~open[Other(s)] \/ (Failures /\ WritePcap)
        /\ alive' = FALSE
        /\ UNCHANGED controlOut
  /\ UNCHANGED <<open, wire, reader, handlers, immediates, out, captured>>
  /\ UNCHANGED peers

\* A handler calls writeToDownstream or writeToUpstream.
HandlerWrites(s, i) ==
  /\ alive
  /\ i <= Len(handlers[s])
  /\ handlers[s][i].phase = "working"
  /\ IF open[Other(s)]
     THEN /\ out' = [out EXCEPT ![s] =
                       Append(@, Serialize(handlers[s][i].packet))]
          /\ handlers' = [handlers EXCEPT ![s][i].phase = "writing"]
     ELSE /\ handlers' = [handlers EXCEPT ![s][i].phase = "failed"]
          /\ UNCHANGED out
  /\ UNCHANGED <<alive, open, wire, reader, immediates, captured>>
  /\ UNCHANGED <<sent, control>>

\* Mutant of LookAgain: the buffer is not looked at again.
LookNoMore(s) == UNCHANGED immediates

LookAgain(s) == immediates' = [immediates EXCEPT ![s] = @ + 1]

\* The promise of a handler resolves, and its then() asks for another look
\* at the buffer.
HandlerResolves(s, i) ==
  /\ alive
  /\ i <= Len(handlers[s])
  /\ handlers[s][i].phase = "writing"
  /\ handlers' = [handlers EXCEPT ![s] = RemoveAt(@, i)]
  /\ LookAgain(s)
  /\ UNCHANGED <<alive, open, wire, reader, out, captured>>
  /\ UNCHANGED <<sent, control>>

\* Mutant of Unhandled: the rejection is caught and forgotten.
Caught(s, i) ==
  /\ handlers' = [handlers EXCEPT ![s] = RemoveAt(@, i)]
  /\ UNCHANGED alive

\* A rejection without a catch() ends the process.
Unhandled(s, i) == alive' = FALSE /\ UNCHANGED handlers

\* The promise of a handler rejects: it failed of its own, or its write did.
HandlerRejects(s, i) ==
  /\ alive
  /\ i <= Len(handlers[s])
  /\ \/ Failures /\ handlers[s][i].phase = "working"
     \/ handlers[s][i].phase = "writing" /\ ~open[Other(s)]
     \/ handlers[s][i].phase = "failed"
  /\ Unhandled(s, i)
  /\ UNCHANGED <<open, wire, reader, immediates, out, captured>>
  /\ UNCHANGED <<sent, control>>

\* A setImmediate callback.
OnImmediate(s) ==
  /\ alive
  /\ immediates[s] > 0
  /\ immediates' = [immediates EXCEPT ![s] = @ - 1]
  /\ Handle(s, reader[s])
  /\ UNCHANGED <<alive, open, wire, out, captured>>
  /\ UNCHANGED <<sent, control>>

-----------------------------------------------------------------------------

ReadData(s) == \E n \in 1 .. Len(wire[s]) : OnData(s, n)

HandlerStep(s) ==
  \E i \in 1 .. Len(handlers[s]) :
    \/ HandlerWrites(s, i)
    \/ HandlerResolves(s, i)
    \/ HandlerRejects(s, i)

Next ==
  \E s \in Side :
    \/ \E p \in Packets : SendPacket(s, p)
    \/ SendControl(s)
    \/ DriverCloses(s)
    \/ ReadData(s)
    \/ OnControl(s)
    \/ HandlerStep(s)
    \/ OnImmediate(s)

(***************************************************************************)
(* The event loop reads what has arrived and runs what is due; the handler *)
(* writes and settles (README.md:47-54); the TPM answers.  The client need *)
(* not send anything.                                                      *)
(***************************************************************************)
Fairness ==
  /\ \A s \in Side :
       /\ WF_vars(ReadData(s))
       /\ WF_vars(OnControl(s))
       /\ WF_vars(HandlerStep(s))
       /\ WF_vars(OnImmediate(s))
  /\ WF_vars(\E p \in Packets : SendPacket("upstream", p))

SafeSpec == Init /\ [][Next]_vars

Spec == SafeSpec /\ Fairness

-----------------------------------------------------------------------------
(* Properties. *)

Exchange ==
  INSTANCE TpmExchange WITH Packet   <- Packets,
                            asked    <- sent["downstream"],
                            taken    <- out["downstream"],
                            answered <- sent["upstream"],
                            returned <- out["upstream"]

(***************************************************************************)
(* The pump never stops: while a whole packet lies in a reader, some       *)
(* handler call is still to settle or a setImmediate is still to run, so   *)
(* the packet will be looked at without waiting for more data              *)
(* (proxy.ts:124-140).  Nothing is assumed of the peers.                   *)
(***************************************************************************)
NoStall ==
  \A s \in Side :
    alive /\ CanParse(reader[s]) =>
      handlers[s] # << >> \/ immediates[s] > 0

(***************************************************************************)
(* With peers that take turns, the overlap of handler calls is harmless:   *)
(* a second call may start before the first has settled, because the       *)
(* answer can overtake the write's callback, but of all the calls of one   *)
(* side at most one has still to write.                                    *)
(***************************************************************************)
OneUnwritten ==
  \A s \in Side : \A i, j \in 1 .. Len(handlers[s]) :
    handlers[s][i].phase = "working" /\ handlers[s][j].phase = "working"
      => i = j

(***************************************************************************)
(* With peers that take turns the proxy is as if it were not there: a      *)
(* handler that forwards (README.md:47-54) passes every command and every  *)
(* response on once, unchanged, in order and to the right side, however    *)
(* the streams are cut and handlers overlap, and even when drivers close,  *)
(* handlers reject and captures throw.                                     *)
(***************************************************************************)
ImplementsExchange == Exchange!Spec

(***************************************************************************)
(* A packet is forwarded only after all its bytes were handed to the       *)
(* capture's write(), in the order they are forwarded, behind those of the *)
(* packets before it (proxy.ts:85-94, 104-113).  Nothing waits for the     *)
(* file: they may be in the stream's queue still, and are lost there when  *)
(* the process ends (PcapGenerator).                                       *)
(***************************************************************************)
CapturedBeforeForwarded ==
  WritePcap => \A s \in Side : IsPrefix(FlattenSeq(out[s]), captured[s])

(***************************************************************************)
(* Every command reaches the TPM and is followed by its response at the    *)
(* client, unless a driver closes or the process ends; no third outcome,   *)
(* such as a packet nobody looks at, leaves the client waiting.            *)
(***************************************************************************)
CommandsAnswered ==
  \A k \in 1 .. MaxPackets :
    Len(sent["downstream"]) >= k
      ~> Len(out["upstream"]) >= k \/ ~alive \/ \E s \in Side : ~open[s]

(***************************************************************************)
(* Once a driver has closed, a packet for it is not lost in silence: the   *)
(* handler that cannot deliver it brings the process down.                 *)
(***************************************************************************)
LossIsFatal ==
  \A s \in Side :
    (\E i \in 1 .. Len(handlers[s]) :
       handlers[s][i].phase = "working" /\ ~open[Other(s)])
      ~> ~alive

=============================================================================
