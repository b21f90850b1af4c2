--------------------------- MODULE ControlChannel ---------------------------
(***************************************************************************)
(* swtpm_ctrlchannel_recv_cmd of native/src/swtpm_protocol.cc: receiving   *)
(* one command of the swtpm control protocol from a stream, with a time    *)
(* limit for the whole of it.  The caller, handleFrontControlChannel in    *)
(* native/src/main.cc, calls it when the client's control socket has       *)
(* become readable and gives up on a result that is not positive.          *)
(*                                                                         *)
(* A command is a sequence of cells: its code, two cells wide so that the  *)
(* stream may be cut within it, then its body.  The fields of the body, in *)
(* swtpm_ioctl.h, are one cell each, and so is a byte of a command's data. *)
(***************************************************************************)
EXTENDS Naturals, Sequences, SequencesExt

CONSTANTS
  Fixed,         \* codes with a body of fixed size
  Counted,       \* codes with a body that says how long its data is
  BodySize,      \* cells of a fixed body, or of a counted one's head
  BufferLen,     \* sizeof(struct swtpm_ctrl_input)
  Commands,      \* what the client may send
  MaxCommands    \* bound on the commands sent in one behaviour

\* offsetof(struct swtpm_ctrl_input, body): the code is in the second cell.
CodeLen == 2

ASSUME CodesAssumption ==
  /\ Fixed \cup Counted \subseteq Nat
  /\ Fixed \cap Counted = {}
  /\ BodySize \in [Fixed \cup Counted -> Nat \ {0}]
  /\ BufferLen \in Nat \ {0}
  /\ MaxCommands \in Nat

\* Mutant of Needed: the data's length is not added.
NeededHead(input) ==
  LET code == input[CodeLen]
  IN  IF code \in Fixed \cup Counted THEN CodeLen + BodySize[code] ELSE CodeLen

(***************************************************************************)
(* needed, once the code has arrived: the length of the data, the last     *)
(* field of a counted body's head, is added as soon as it is there.        *)
(***************************************************************************)
Needed(input) ==
  LET code == input[CodeLen]
      head == CodeLen + BodySize[code]
  IN  CASE code \in Fixed   -> head
        [] code \in Counted -> IF Len(input) >= head THEN head + input[head]
                                                     ELSE head
        [] OTHER            -> CodeLen

\* Mutant of Complete: one cell more is waited for.
CompleteStrict(input) == Len(input) > CodeLen /\ Len(input) > Needed(input)

Complete(input) == Len(input) >= CodeLen /\ Len(input) >= Needed(input)

\* buffer_len - recvd
Room(input) == BufferLen - Len(input)

(***************************************************************************)
(* A command may be longer than what is needed of it, as the code has no   *)
(* case for some commands that have a body, and longer than the buffer, as *)
(* the protocol puts no limit on the data of a counted one.                *)
(***************************************************************************)
ASSUME CommandsAssumption ==
  \A m \in Commands : m \in Seq(Nat) /\ Len(m) >= Needed(m)

VARIABLES
  sent,      \* history: the commands the client has sent, or begun to
  unsent,    \* what is left to send of the last of them
  wire,      \* cells that can be read
  gone,      \* the client has closed the connection
  phase,     \* "idle", "reading", "polling", "failed"
  input,     \* the cells received by this call
  late,      \* the deadline of this call has passed
  results    \* history: what calls have returned, and whether late

client == <<sent, unsent, gone>>
vars == <<client, wire, phase, input, late, results>>

\* A call reads only while it has room: a read of no cells would be taken for
\* the end of the stream.
TypeOK ==
  /\ sent \in Seq(Commands)
  /\ unsent \in Seq(Nat)
  /\ wire \in Seq(Nat)
  /\ gone \in BOOLEAN
  /\ phase \in {"idle", "reading", "polling", "failed"}
  /\ input \in Seq(Nat) /\ Len(input) <= BufferLen
  /\ phase = "reading" => Room(input) > 0
  /\ late \in BOOLEAN
  /\ results \in Seq([bytes : Seq(Nat), late : BOOLEAN])

Init ==
  /\ sent = << >>
  /\ unsent = << >>
  /\ wire = << >>
  /\ gone = FALSE
  /\ phase = "idle"
  /\ input = << >>
  /\ late = FALSE
  /\ results = << >>

-----------------------------------------------------------------------------
(* The client, which takes turns, and the clock. *)

ClientBegins(m) ==
  /\ ~gone
  /\ Len(sent) < MaxCommands
  /\ unsent = << >> /\ Len(results) >= Len(sent)
  /\ sent' = Append(sent, m)
  /\ unsent' = m
  /\ UNCHANGED <<gone, wire, phase, input, late, results>>

\* The next n cells of the command arrive.
ClientSends(n) ==
  /\ ~gone
  /\ n <= Len(unsent)
  /\ wire' = wire \o SubSeq(unsent, 1, n)
  /\ unsent' = SubSeq(unsent, n + 1, Len(unsent))
  /\ UNCHANGED <<sent, gone, phase, input, late, results>>

ClientCloses ==
  /\ ~gone
  /\ gone' = TRUE
  /\ UNCHANGED <<sent, unsent, wire, phase, input, late, results>>

DeadlinePasses ==
  /\ phase \in {"reading", "polling"}
  /\ ~late
  /\ late' = TRUE
  /\ UNCHANGED <<client, wire, phase, input, results>>

-----------------------------------------------------------------------------
(* The call. *)

\* The caller was told that the socket is readable, and calls.  That it is
\* told once for what arrives at once is in SwtpmProxyProcess.
Call ==
  /\ phase = "idle"
  /\ wire # << >> \/ gone
  /\ phase' = "reading"
  /\ input' = << >>
  /\ late' = FALSE
  /\ UNCHANGED <<client, wire, results>>

Return(bytes) ==
  /\ results' = Append(results, [bytes |-> bytes, late |-> late])
  /\ phase' = "idle"

\* recvmsg or read takes what there is, as far as the buffer goes.  Then the
\* command is complete, or the deadline has passed, or the call waits.
Read ==
  LET n    == IF Len(wire) <= Room(input) THEN Len(wire) ELSE Room(input)
      have == input \o SubSeq(wire, 1, n)
  IN  /\ phase = "reading"
      /\ wire # << >>
      /\ wire' = SubSeq(wire, n + 1, Len(wire))
      /\ input' = have
      /\ IF Complete(have) \/ late
         THEN Return(have)
         ELSE phase' = "polling" /\ UNCHANGED results
      /\ UNCHANGED <<client, late>>

\* A read finds the end of the stream: the call returns 0.
ReadEnd ==
  /\ phase = "reading"
  /\ wire = << >> /\ gone
  /\ phase' = "failed"
  /\ UNCHANGED <<client, wire, input, late, results>>

\* Mutant of PollReady: the loop goes on with a full buffer.
PollReadyAlways ==
  /\ phase = "polling"
  /\ wire # << >> \/ gone
  /\ phase' = "reading"
  /\ UNCHANGED <<client, wire, input, late, results>>

\* poll() finds the socket readable.  A full buffer ends the loop: what it
\* holds is returned, and the rest is left for the next call.
PollReady ==
  /\ phase = "polling"
  /\ wire # << >> \/ gone
  /\ IF Room(input) > 0
     THEN phase' = "reading" /\ UNCHANGED results
     ELSE Return(input)
  /\ UNCHANGED <<client, wire, input, late>>

\* Mutant of PollTimesOut: the call waits for ever.
PollWaits == FALSE /\ UNCHANGED vars

\* poll() returns 0 after the time that was left, and so does the call.
PollTimesOut ==
  /\ phase = "polling"
  /\ wire = << >> /\ ~gone
  /\ phase' = "failed"
  /\ UNCHANGED <<client, wire, input, late, results>>

-----------------------------------------------------------------------------

Next ==
  \/ \E m \in Commands : ClientBegins(m)
  \/ \E n \in 1 .. Len(unsent) : ClientSends(n)
  \/ ClientCloses
  \/ DeadlinePasses
  \/ Call
  \/ Read
  \/ ReadEnd
  \/ PollReady
  \/ PollTimesOut

\* The process runs, and poll() returns when its time is over.
Fairness == WF_vars(Call \/ Read \/ ReadEnd \/ PollReady \/ PollTimesOut)

SafeSpec == Init /\ [][Next]_vars

Spec == SafeSpec /\ Fairness

-----------------------------------------------------------------------------
(* Properties. *)

\* The part of a command that the buffer has room for.
WhatFits(m) == IF Len(m) <= BufferLen THEN m ELSE SubSeq(m, 1, BufferLen)

(***************************************************************************)
(* As long as no call has run out of time and no command was longer than   *)
(* the buffer, each call returns exactly one of the client's commands, in  *)
(* order, wherever the stream is cut, also within the field that says how  *)
(* much is to come.  Of the first command that is longer it returns what   *)
(* fits, as if that were the command (swtpm_protocol.cc:74-169); what is   *)
(* returned after it is not claimed.                                       *)
(***************************************************************************)
ExactUnlessLate ==
  \A i \in 1 .. Len(results) :
    /\ \A j \in 1 .. i : ~results[j].late
    /\ \A j \in 1 .. Len(sent) : j < i => Len(sent[j]) <= BufferLen
    => i <= Len(sent) /\ results[i].bytes = WhatFits(sent[i])

(***************************************************************************)
(* A command that has arrived whole is never given up, however late it     *)
(* was: when a call fails, the client still owed something or is gone.     *)
(***************************************************************************)
FailsOnlyIncomplete ==
  phase = "failed" => gone \/ input # Last(sent)

\* A client that stops in the middle of a command does not hold up the
\* caller, which serves all the other connections (main.cc:216).
CallReturns == phase \in {"reading", "polling"} ~> phase \in {"idle", "failed"}

(***************************************************************************)
(* "Receive a command on the control channel" (swtpm_protocol.cc:33), for  *)
(* a command that has a body in swtpm_ioctl.h but is not read with it      *)
(* (swtpm_protocol.cc:143): what a call that is in time returns is the     *)
(* command, not a part of it.                                              *)
(***************************************************************************)
WholeUnlessLate ==
  \A i \in 1 .. Len(results) :
    ~results[i].late => results[i].bytes \in Commands

(***************************************************************************)
(* "This function returns 0 or a negative number if an error receiving the *)
(* command occurred, including a timeout" (swtpm_protocol.cc:39-40): what  *)
(* it returns as received is a whole command.                              *)
(***************************************************************************)
TimeoutIsError == \A i \in 1 .. Len(results) : Complete(results[i].bytes)

=============================================================================
