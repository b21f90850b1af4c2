------------------------- MODULE FrontControlProofs -------------------------
(***************************************************************************)
(* Proofs about the receiver of control commands and the handler that      *)
(* calls it, for any commands, any buffer and any way the stream is cut.   *)
(* The lemmas about joined sequences are those of Tpm2TctiProofs.          *)
(***************************************************************************)
EXTENDS FrontControl, Tpm2TctiProofs, FiniteSetTheorems

\* What the client has sent or will send of its last command and no call has
\* returned: a call that runs has a part of it in its buffer.
Held ==
  IF phase \in {"reading", "polling"}
  THEN input \o (wire \o unsent)
  ELSE wire \o unsent

\* The types, without the promise that a call reads only with room.
ReceiveTypes ==
  /\ sent \in Seq(Commands)
  /\ unsent \in Seq(Nat)
  /\ wire \in Seq(Nat)
  /\ gone \in BOOLEAN
  /\ phase \in {"idle", "reading", "polling", "failed"}
  /\ input \in Seq(Nat) /\ Len(input) <= BufferLen
  /\ late \in BOOLEAN
  /\ results \in Seq([bytes : Seq(Nat), late : BOOLEAN])

(***************************************************************************)
(* What is held is the end of the client's last command, and a call that   *)
(* waits has not got a whole command: so when it fails it has not got the  *)
(* last command either.                                                    *)
(***************************************************************************)
ReceiveInv ==
  /\ ReceiveTypes
  /\ sent = << >> => Held = << >>
  /\ sent # << >> => \E p \in Seq(Nat) : p \o Held = Last(sent)
  /\ phase = "reading" => Len(input) < BufferLen
  /\ phase = "polling" => input # << >> /\ ~Complete(input)
  /\ phase = "failed" => gone \/ (sent # << >> /\ ~Complete(input))

\* No call has returned after its deadline had passed.
InTime == \A i \in 1 .. Len(results) : ~results[i].late

\* All commands that calls may have returned fit into the buffer.
AllFit ==
  \A j \in 1 .. Len(sent) : j <= Len(results) => Len(sent[j]) <= BufferLen

\* As long as no call was late and no command too long, the commands were
\* returned one by one: the last one is held whole, or has been returned.
ExactInv ==
  /\ ExactUnlessLate
  /\ InTime /\ AllFit /\ phase # "failed" =>
       \/ Len(results) = Len(sent) /\ Held = << >>
       \/ Len(results) + 1 = Len(sent) /\ Held = Last(sent)

\* The part of a command that is for the back end: no CMD_SET_DATAFD is.
Other(m) == IF IsSetDataFd(m) THEN << >> ELSE m

\* The stream for the back end, command by command.
Others == [i \in 1 .. Len(sent) |-> Other(sent[i])]

\* What the back end is to get of the commands sent.
Stream == FlattenSeq(Others)

\* A call has returned the first cell of a CMD_SET_DATAFD alone.
Cut == \E i \in 1 .. Len(results) : results[i].bytes = <<Attached>>

\* The handler's own state; a call that failed has ended the process.
FrontTypes ==
  /\ forwarded \in Seq(Nat)
  /\ sets \in Nat
  /\ phase = "failed" => ~running

\* While the loop runs and the back end is there, what was forwarded and what
\* is held are the stream; a CMD_SET_DATAFD is held whole, or was counted.
Whole ==
  IF sent # << >> /\ IsSetDataFd(Last(sent))
  THEN /\ forwarded = Stream
       /\ \/ Held = Last(sent) /\ sets + 1 = SetsSent
          \/ Held = << >> /\ sets = SetsSent
  ELSE forwarded \o Held = Stream /\ sets = SetsSent

\* Unless a CMD_SET_DATAFD was cut, the back end got a prefix of the stream.
BackInv ==
  ~Cut => /\ running /\ ~backGone => Whole
          /\ \E rest \in Seq(Nat) : forwarded \o rest = Stream

-----------------------------------------------------------------------------
(* Sequences and commands. *)

\* ConcatAssociative, for the sequences of this module.
LEMMA ConcatAssociativeNat ==
  \A a, b, c \in Seq(Nat) : (a \o b) \o c = a \o (b \o c)
<1> TAKE a, b, c \in Seq(Nat)
<1> QED
  BY ConcatAssociative, SMTT(30)

\* A sequence is its first n members and the others.
LEMMA SplitSeq ==
  ASSUME NEW u \in Seq(Nat), NEW n \in 0 .. Len(u)
  PROVE  /\ SubSeq(u, 1, n) \in Seq(Nat)
         /\ Len(SubSeq(u, 1, n)) = n
         /\ SubSeq(u, n + 1, Len(u)) \in Seq(Nat)
         /\ SubSeq(u, 1, n) \o SubSeq(u, n + 1, Len(u)) = u
<1>1. Len(u) \in Nat /\ n \in Nat
  OBVIOUS
<1>2. \A i \in 1 .. Len(u) : u[i] \in Nat
  OBVIOUS
<1>3. SubSeq(u, 1, n) \in Seq(Nat) /\ Len(SubSeq(u, 1, n)) = n
  <2>1. \A i \in 1 .. n : u[i] \in Nat
    BY <1>1, <1>2
  <2>2. QED
    BY <1>1, <2>1, SubSeqProperties
<1>4. SubSeq(u, n + 1, Len(u)) \in Seq(Nat)
  <2>1. \A i \in n + 1 .. Len(u) : u[i] \in Nat
    BY <1>1, <1>2
  <2>2. QED
    BY <1>1, <2>1, SubSeqProperties
<1>5. SubSeq(u, 1, n) \o SubSeq(u, n + 1, Len(u)) = SubSeq(u, 1, Len(u))
  <2>1. 1 \in 1 .. Len(u) + 1 /\ n \in 1 - 1 .. Len(u) /\ Len(u) \in n .. Len(u)
    BY <1>1
  <2>2. QED
    BY <2>1, ConcatAdjacentSubSeq
<1>6. QED
  BY <1>3, <1>4, <1>5, SubSeqFull

\* A command code is a number of cells.
LEMMA CodeLenIsPositive == CodeLen \in Nat /\ CodeLen >= 1
BY DEF CodeLen

\* A command is whole, and has a code.
LEMMA CommandType ==
  ASSUME NEW m \in Commands
  PROVE  m \in Seq(Nat) /\ m # << >> /\ Complete(m)
<1>1. m \in Seq(Nat) /\ Len(m) >= Needed(m)
  BY CommandsAssumption
<1>2. Len(m) \in Nat
  BY <1>1, LenProperties
<1>3. Needed(m) \in Nat /\ Needed(m) >= CodeLen /\ Len(m) >= Needed(m)
  <2>1. CASE m[CodeLen] \in Fixed
    <3>1. Needed(m) = CodeLen + BodySize[m[CodeLen]]
      BY <2>1, CodesAssumption DEF Needed
    <3>2. BodySize[m[CodeLen]] \in Nat
      BY <2>1, CodesAssumption
    <3>3. QED
      BY <1>1, <1>2, <3>1, <3>2, CodesAssumption DEF CodeLen
  <2>2. CASE m[CodeLen] \notin Fixed /\ m[CodeLen] \in Counted
    <3> DEFINE head == CodeLen + BodySize[m[CodeLen]]
    <3>1. Needed(m) = IF Len(m) >= head THEN head + m[head] ELSE head
      BY <2>2 DEF Needed
    <3>2. head \in Nat /\ head >= CodeLen /\ head >= 1
      BY <2>2, CodesAssumption DEF CodeLen
    <3> HIDE DEF head
    <3>3. Len(m) >= head => m[head] \in Nat
      BY <1>1, <1>2, <3>2
    <3>4. Needed(m) \in Nat /\ Needed(m) >= CodeLen
      BY <1>2, <3>1, <3>2, <3>3 DEF CodeLen
    <3>5. QED
      BY <1>1, <1>2, <3>4, CodesAssumption DEF CodeLen
  <2>3. CASE m[CodeLen] \notin Fixed \cup Counted
    <3>1. Needed(m) = CodeLen
      BY <2>3 DEF Needed
    <3>2. QED
      BY <1>1, <3>1, CodesAssumption DEF CodeLen
  <2>4. QED
    BY <2>1, <2>2, <2>3
<1>4. Len(m) >= CodeLen /\ m # << >>
  BY <1>1, <1>2, <1>3 DEF CodeLen
<1>5. QED
  BY <1>1, <1>2, <1>3, <1>4 DEF Complete

-----------------------------------------------------------------------------
(* What the steps do to what is held. *)

\* Held is a sequence of cells.
LEMMA HeldType ==
  ASSUME ReceiveTypes
  PROVE  Held \in Seq(Nat) /\ wire \o unsent \in Seq(Nat)
<1>1. wire \o unsent \in Seq(Nat)
  BY ConcatProperties DEF ReceiveTypes
<1>2. input \o (wire \o unsent) \in Seq(Nat)
  BY <1>1, ConcatProperties DEF ReceiveTypes
<1>3. QED
  BY <1>1, <1>2 DEF Held

\* So it is after a step that keeps the types.
LEMMA NextHeldType ==
  ASSUME ReceiveTypes'
  PROVE  Held' \in Seq(Nat)
<1>1. wire' \o unsent' \in Seq(Nat)
  BY ConcatProperties DEF ReceiveTypes
<1>2. input' \o (wire' \o unsent') \in Seq(Nat)
  BY <1>1, ConcatProperties DEF ReceiveTypes
<1>3. QED
  BY <1>1, <1>2 DEF Held

\* The client's last command is one of its commands.
LEMMA LastIsCommand ==
  ASSUME ReceiveTypes, sent # << >>
  PROVE  Len(sent) \in Nat \ {0} /\ Last(sent) \in Commands
         /\ Last(sent) = sent[Len(sent)]
<1>1. Len(sent) \in Nat \ {0}
  BY EmptySeq DEF ReceiveTypes
<1>2. QED
  BY <1>1, ElementOfSeq DEF Last, ReceiveTypes

\* A read takes cells of the wire into the buffer; the call waits for more,
\* or returns the buffer when it is complete or late.
LEMMA ReadMoves ==
  ASSUME ReceiveInv, Read
  PROVE  /\ ReceiveTypes' /\ sent' = sent /\ gone' = gone
         /\ input' # << >>
         /\ \/ /\ phase' = "polling" /\ results' = results
               /\ ~Complete(input') /\ ~late /\ Held' = Held
            \/ /\ phase' = "idle" /\ (Complete(input') \/ late)
               /\ results' = Append(results, [bytes |-> input', late |-> late])
               /\ Held = input' \o Held'
<1> DEFINE n == IF Len(wire) <= Room(input) THEN Len(wire) ELSE Room(input)
           chunk == SubSeq(wire, 1, n)
           rest == SubSeq(wire, n + 1, Len(wire))
<1>1. /\ phase = "reading" /\ wire # << >>
      /\ wire' = rest /\ input' = input \o chunk
      /\ UNCHANGED <<sent, unsent, gone, late>>
  BY DEF Read, client
<1>2. IF Complete(input') \/ late
      THEN /\ phase' = "idle"
           /\ results' = Append(results, [bytes |-> input', late |-> late])
      ELSE phase' = "polling" /\ UNCHANGED results
  BY <1>1 DEF Read, Return
<1>3. /\ input \in Seq(Nat) /\ wire \in Seq(Nat) /\ unsent \in Seq(Nat)
      /\ Len(input) \in Nat /\ Len(wire) \in Nat \ {0}
      /\ Len(input) < BufferLen
  BY <1>1, EmptySeq DEF ReceiveInv, ReceiveTypes
<1>4. n \in 1 .. Len(wire) /\ n + Len(input) <= BufferLen
  BY <1>3, CodesAssumption DEF Room
<1> HIDE DEF n
<1>5. /\ chunk \in Seq(Nat) /\ Len(chunk) = n /\ rest \in Seq(Nat)
      /\ chunk \o rest = wire
  <2>1. n \in 0 .. Len(wire) /\ wire \in Seq(Nat)
    BY <1>3, <1>4
  <2>2. QED
    BY <2>1, SplitSeq
<1> HIDE DEF chunk, rest
<1>6. /\ input' \in Seq(Nat) /\ Len(input') = Len(input) + n
      /\ Len(input') <= BufferLen /\ input' # << >>
  <2>1. input' \in Seq(Nat) /\ Len(input') = Len(input) + n
    BY <1>1, <1>3, <1>5, ConcatProperties
  <2>2. Len(input') > 0 /\ Len(input') <= BufferLen
    BY <1>3, <1>4, <2>1, CodesAssumption
  <2>3. QED
    BY <2>1, <2>2, EmptySeq
<1>7. input \o (wire \o unsent) = input' \o (wire' \o unsent')
  <2>1. chunk \in Seq(Nat) /\ rest \in Seq(Nat)
    BY <1>5
  <2>2. input \in Seq(Nat) /\ unsent \in Seq(Nat)
    BY <1>3
  <2>3. rest \o unsent \in Seq(Nat)
    BY <2>1, <2>2, ConcatProperties
  <2>4. (chunk \o rest) \o unsent = chunk \o (rest \o unsent)
    BY <2>1, <2>2, ConcatAssociativeNat, ZenonT(40)
  <2>5. (input \o chunk) \o (rest \o unsent)
          = input \o (chunk \o (rest \o unsent))
    BY <2>1, <2>2, <2>3, ConcatAssociativeNat, ZenonT(40)
  <2>6. QED
    BY <1>1, <1>5, <2>4, <2>5
<1>8. results' \in Seq([bytes : Seq(Nat), late : BOOLEAN])
  <2>1. [bytes |-> input', late |-> late] \in [bytes : Seq(Nat), late : BOOLEAN]
    BY <1>6 DEF ReceiveInv, ReceiveTypes
  <2>2. results \in Seq([bytes : Seq(Nat), late : BOOLEAN])
    BY DEF ReceiveInv, ReceiveTypes
  <2>3. CASE Complete(input') \/ late
    <3>1. Append(results, [bytes |-> input', late |-> late])
            \in Seq([bytes : Seq(Nat), late : BOOLEAN])
      BY <2>1, <2>2, AppendProperties
    <3>2. QED
      BY <1>2, <2>3, <3>1
  <2>4. CASE ~(Complete(input') \/ late)
    BY <1>2, <2>2, <2>4
  <2>5. QED
    BY <2>3, <2>4
<1>9. ReceiveTypes'
  BY <1>1, <1>2, <1>5, <1>6, <1>8 DEF ReceiveInv, ReceiveTypes
<1>10. CASE Complete(input') \/ late
  <2>1. Held = input' \o Held'
    BY <1>1, <1>2, <1>7, <1>10 DEF Held
  <2>2. QED
    BY <1>1, <1>2, <1>6, <1>9, <1>10, <2>1
<1>11. CASE ~(Complete(input') \/ late)
  <2>1. Held = Held'
    BY <1>1, <1>2, <1>7, <1>11 DEF Held
  <2>2. QED
    BY <1>1, <1>2, <1>6, <1>9, <1>11, <2>1
<1>12. QED
  BY <1>10, <1>11

\* A call begins with an empty buffer.
LEMMA CallMoves ==
  ASSUME ReceiveInv, Call
  PROVE  /\ ReceiveTypes' /\ sent' = sent /\ gone' = gone
         /\ results' = results /\ phase = "idle" /\ phase' = "reading"
         /\ input' = << >> /\ Held' = Held
         /\ wire' = wire /\ (wire # << >> \/ gone)
<1>1. /\ phase = "idle" /\ phase' = "reading" /\ input' = << >>
      /\ UNCHANGED <<sent, unsent, gone, wire, results>> /\ late' = FALSE
      /\ wire # << >> \/ gone
  BY DEF Call, client
<1>2. << >> \in Seq(Nat) /\ Len(<< >>) = 0 /\ BufferLen \in Nat
  BY EmptySeq, CodesAssumption
<1>3. ReceiveTypes'
  <2>1. input' \in Seq(Nat) /\ Len(input') <= BufferLen
    BY <1>1, <1>2
  <2>2. late' \in BOOLEAN
    BY <1>1
  <2>3. QED
    BY <1>1, <2>1, <2>2 DEF ReceiveInv, ReceiveTypes
<1>4. Held' = << >> \o (wire \o unsent)
  BY <1>1 DEF Held
<1>5. wire \o unsent \in Seq(Nat) /\ Held = wire \o unsent
  BY <1>1, HeldType DEF ReceiveInv, Held
<1>6. QED
  BY <1>1, <1>3, <1>4, <1>5, ConcatEmptySeq

\* A call that has waited reads on if it has room, or returns a full buffer.
LEMMA PollReadyMoves ==
  ASSUME ReceiveInv, PollReady
  PROVE  /\ ReceiveTypes' /\ sent' = sent /\ gone' = gone
         /\ input' = input /\ input # << >> /\ phase = "polling"
         /\ \/ /\ phase' = "reading" /\ results' = results
               /\ Len(input) < BufferLen /\ Held' = Held
            \/ /\ phase' = "idle" /\ Len(input) = BufferLen
               /\ results' = Append(results, [bytes |-> input', late |-> late])
               /\ Held = input' \o Held'
<1>1. /\ phase = "polling" /\ UNCHANGED <<sent, unsent, gone, wire, input, late>>
      /\ input # << >>
  BY DEF PollReady, client, ReceiveInv
<1>2. /\ input \in Seq(Nat) /\ Len(input) \in Nat /\ Len(input) <= BufferLen
      /\ BufferLen \in Nat
  BY CodesAssumption, LenProperties DEF ReceiveInv, ReceiveTypes
<1>3. CASE Room(input) > 0
  <2>1. phase' = "reading" /\ results' = results
    BY <1>3 DEF PollReady
  <2>2. Len(input) < BufferLen
    BY <1>2, <1>3 DEF Room
  <2>3. QED
    BY <1>1, <2>1, <2>2 DEF ReceiveInv, ReceiveTypes, Held
<1>4. CASE ~(Room(input) > 0)
  <2> DEFINE result == [bytes |-> input, late |-> late]
  <2>1. results' = Append(results, result) /\ phase' = "idle"
    BY <1>4 DEF PollReady, Return
  <2>2. Len(input) = BufferLen
    BY <1>2, <1>4 DEF Room
  <2>3. results' \in Seq([bytes : Seq(Nat), late : BOOLEAN])
    <3>1. result \in [bytes : Seq(Nat), late : BOOLEAN]
      BY <1>2 DEF ReceiveInv, ReceiveTypes
    <3>2. results \in Seq([bytes : Seq(Nat), late : BOOLEAN])
      BY DEF ReceiveInv, ReceiveTypes
    <3> HIDE DEF result
    <3>3. QED
      BY <2>1, <3>1, <3>2, AppendProperties
  <2>4. ReceiveTypes'
    BY <1>1, <2>1, <2>3 DEF ReceiveInv, ReceiveTypes
  <2>5. Held = input' \o Held'
    BY <1>1, <2>1 DEF Held
  <2>6. QED
    BY <1>1, <2>1, <2>2, <2>4, <2>5
<1>5. QED
  BY <1>3, <1>4

\* A step that does not return keeps what is held; one that does returns a
\* part of it, which is a whole command unless it is late or fills the buffer.
LEMMA ReturnMoves ==
  ASSUME ReceiveInv, Read \/ PollReady
  PROVE  /\ ReceiveTypes' /\ sent' = sent /\ phase # "failed"
         /\ IF results' = results
            THEN Held' = Held /\ phase' # "failed"
            ELSE /\ phase' = "idle" /\ input' # << >>
                 /\ Complete(input') \/ late \/ Len(input') = BufferLen
                 /\ results' = Append(results,
                                      [bytes |-> input', late |-> late])
                 /\ Held = input' \o Held'
<1> DEFINE result == [bytes |-> input', late |-> late]
<1>1. /\ ReceiveTypes' /\ sent' = sent /\ phase # "failed" /\ input' # << >>
      /\ \/ results' = results /\ Held' = Held /\ phase' # "failed"
         \/ /\ phase' = "idle"
            /\ Complete(input') \/ late \/ Len(input') = BufferLen
            /\ results' = Append(results, result)
            /\ Held = input' \o Held'
  <2>1. CASE Read
    <3>1. phase = "reading"
      BY <2>1 DEF Read
    <3>2. QED
      BY <2>1, <3>1, ReadMoves
  <2>2. CASE PollReady
    BY <2>2, PollReadyMoves
  <2>3. QED
    BY <2>1, <2>2
<1>2. Append(results, result) # results
  <2>1. result \in [bytes : Seq(Nat), late : BOOLEAN]
    BY <1>1 DEF ReceiveInv, ReceiveTypes
  <2>2. results \in Seq([bytes : Seq(Nat), late : BOOLEAN])
    BY DEF ReceiveInv, ReceiveTypes
  <2> HIDE DEF result
  <2>3. /\ Len(Append(results, result)) = Len(results) + 1
        /\ Len(results) \in Nat
    BY <2>1, <2>2, AppendProperties, LenProperties
  <2>4. QED
    BY <2>3
<1> HIDE DEF result
<1>3. QED
  BY <1>1, <1>2 DEF result

\* A call that fails drops its buffer.
LEMMA FailMoves ==
  ASSUME ReceiveInv, ReadEnd \/ PollTimesOut
  PROVE  /\ ReceiveTypes' /\ sent' = sent /\ gone' = gone
         /\ results' = results /\ phase' = "failed"
         /\ input' = input /\ Held = input \o Held'
         /\ gone \/ phase = "polling"
<1>1. /\ UNCHANGED <<sent, unsent, gone, wire, input, late, results>>
      /\ phase \in {"reading", "polling"} /\ phase' = "failed"
      /\ gone \/ phase = "polling"
  BY DEF ReadEnd, PollTimesOut, client
<1>2. ReceiveTypes'
  BY <1>1 DEF ReceiveInv, ReceiveTypes
<1>3. QED
  BY <1>1, <1>2 DEF Held

\* The client sends what is held already.
LEMMA SendMoves ==
  ASSUME ReceiveInv, NEW n \in 1 .. Len(unsent), ClientSends(n)
  PROVE  /\ ReceiveTypes' /\ sent' = sent /\ gone' = gone
         /\ results' = results /\ phase' = phase /\ input' = input
         /\ late' = late /\ Held' = Held
<1> DEFINE chunk == SubSeq(unsent, 1, n)
           rest == SubSeq(unsent, n + 1, Len(unsent))
<1>1. /\ UNCHANGED <<sent, gone, phase, input, late, results>>
      /\ wire' = wire \o chunk /\ unsent' = rest
  BY DEF ClientSends
<1>2. unsent \in Seq(Nat) /\ wire \in Seq(Nat) /\ n \in 0 .. Len(unsent)
  BY DEF ReceiveInv, ReceiveTypes
<1>3. chunk \in Seq(Nat) /\ rest \in Seq(Nat) /\ chunk \o rest = unsent
  BY <1>2, SplitSeq
<1> HIDE DEF chunk, rest
<1>4. wire' \o unsent' = wire \o unsent
  BY <1>1, <1>2, <1>3, ConcatAssociativeNat
<1>5. wire' \in Seq(Nat)
  BY <1>1, <1>2, <1>3, ConcatProperties
<1>6. ReceiveTypes'
  BY <1>1, <1>3, <1>5 DEF ReceiveInv, ReceiveTypes
<1>7. QED
  BY <1>1, <1>4, <1>6 DEF Held

\* The client begins a command when nothing is held.
LEMMA BeginMoves ==
  ASSUME ReceiveInv, Quiet, NEW m \in Commands, ClientBegins(m)
  PROVE  /\ ReceiveTypes' /\ sent' = Append(sent, m) /\ gone' = gone
         /\ results' = results /\ phase = "idle" /\ phase' = phase
         /\ Held = << >> /\ Held' = m /\ sent' # << >> /\ Last(sent') = m
         /\ Len(results) >= Len(sent)
<1>1. /\ sent' = Append(sent, m) /\ unsent' = m
      /\ UNCHANGED <<gone, wire, phase, input, late, results>>
      /\ phase = "idle" /\ wire = << >> /\ unsent = << >>
      /\ Len(results) >= Len(sent)
  BY DEF ClientBegins, Quiet
<1>2. m \in Seq(Nat) /\ << >> \in Seq(Nat)
  BY CommandType
<1>3. Held = << >> \o << >> /\ Held' = << >> \o m
  BY <1>1 DEF Held
<1>4. Held = << >> /\ Held' = m
  BY <1>2, <1>3, ConcatEmptySeq
<1>5. sent \in Seq(Commands)
  BY DEF ReceiveInv, ReceiveTypes
<1>6. /\ sent' \in Seq(Commands) /\ sent' # << >>
      /\ Len(sent') = Len(sent) + 1 /\ sent'[Len(sent) + 1] = m
  BY <1>1, <1>5, AppendProperties
<1>7. Last(sent') = m
  BY <1>6 DEF Last
<1>8. ReceiveTypes'
  BY <1>1, <1>2, <1>6 DEF ReceiveInv, ReceiveTypes
<1>9. QED
  BY <1>1, <1>4, <1>6, <1>7, <1>8

-----------------------------------------------------------------------------
(* The receiver. *)

\* What is held after some of it was taken is still the end of the command.
LEMMA TakenFromHeld ==
  ASSUME ReceiveInv, ReceiveTypes', sent' = sent, sent # << >>,
         NEW taken \in Seq(Nat), Held = taken \o Held'
  PROVE  \E p \in Seq(Nat) : p \o Held' = Last(sent')
<1>1. PICK p \in Seq(Nat) : p \o Held = Last(sent)
  BY DEF ReceiveInv
<1>2. Held' \in Seq(Nat)
  BY NextHeldType
<1>3. (p \o taken) \o Held' = p \o (taken \o Held')
  BY <1>2, ConcatAssociativeNat, ZenonT(40)
<1>4. p \o taken \in Seq(Nat)
  BY ConcatProperties
<1>5. QED
  BY <1>1, <1>3, <1>4

\* What is held stays empty as long as there is no command.
LEMMA NothingTaken ==
  ASSUME ReceiveInv, ReceiveTypes', sent' = sent, sent = << >>,
         NEW taken \in Seq(Nat), Held = taken \o Held'
  PROVE  taken = << >> /\ Held' = << >>
<1>1. Held' \in Seq(Nat)
  BY NextHeldType
<1>2. Held = << >>
  BY DEF ReceiveInv
<1>3. taken \o Held' = << >> <=> taken = << >> /\ Held' = << >>
  BY <1>1, ConcatEqualIffEmpty
<1>4. QED
  BY <1>2, <1>3

\* Every step keeps the invariant of the receiver.
LEMMA ReceiveKept == ReceiveInv /\ [FrontNext]_frontVars => ReceiveInv'
<1> SUFFICES ASSUME ReceiveInv, [FrontNext]_frontVars PROVE ReceiveInv'
  OBVIOUS
<1>1. ASSUME ReceiveTypes', sent' = sent, Held' = Held
      PROVE  /\ sent' = << >> => Held' = << >>
             /\ sent' # << >> => \E p \in Seq(Nat) : p \o Held' = Last(sent')
  BY <1>1 DEF ReceiveInv
<1>2. ASSUME ReceiveTypes', sent' = sent, NEW taken \in Seq(Nat),
             Held = taken \o Held'
      PROVE  /\ sent' = << >> => Held' = << >>
             /\ sent' # << >> => \E p \in Seq(Nat) : p \o Held' = Last(sent')
  BY <1>2, TakenFromHeld, NothingTaken
<1>3. ASSUME NEW m \in Commands, Quiet, ClientBegins(m)
      PROVE  ReceiveInv'
  <2>1. << >> \in Seq(Nat) /\ m \in Seq(Nat)
    BY CommandType
  <2>2. << >> \o m = m
    BY <2>1, ConcatEmptySeq
  <2>3. /\ ReceiveTypes' /\ phase' = "idle" /\ sent' # << >>
        /\ Held' = m /\ Last(sent') = m
    BY <1>3, BeginMoves
  <2>4. QED
    BY <2>1, <2>2, <2>3 DEF ReceiveInv
<1>4. ASSUME NEW n \in 1 .. Len(unsent), ClientSends(n)
      PROVE  ReceiveInv'
  <2>1. /\ ReceiveTypes' /\ sent' = sent /\ Held' = Held
        /\ phase' = phase /\ input' = input /\ gone' = gone
    BY <1>4, SendMoves
  <2>2. Complete(input)' = Complete(input)
    BY <2>1 DEF Complete, Needed
  <2>3. QED
    BY <1>1, <2>1, <2>2 DEF ReceiveInv
<1>5. ASSUME ClientCloses \/ DeadlinePasses
      PROVE  ReceiveInv'
  <2>1. /\ UNCHANGED <<sent, unsent, wire, phase, input, results>>
        /\ gone \in BOOLEAN /\ (gone => gone') /\ gone' \in BOOLEAN
        /\ late' \in BOOLEAN
    BY <1>5 DEF ClientCloses, DeadlinePasses, client, ReceiveInv, ReceiveTypes
  <2>2. ReceiveTypes' /\ Held' = Held
    BY <2>1 DEF ReceiveInv, ReceiveTypes, Held
  <2>3. Complete(input)' = Complete(input)
    BY <2>1 DEF Complete, Needed
  <2>4. QED
    BY <1>1, <2>1, <2>2, <2>3 DEF ReceiveInv
<1>6. CASE Call
  <2>1. /\ ReceiveTypes' /\ sent' = sent /\ Held' = Held
        /\ phase' = "reading" /\ input' = << >>
    BY <1>6, CallMoves
  <2>2. Len(input') < BufferLen
    BY <2>1, EmptySeq, CodesAssumption
  <2>3. QED
    BY <1>1, <2>1, <2>2 DEF ReceiveInv
<1>7. CASE Read
  <2>1. /\ ReceiveTypes' /\ sent' = sent
        /\ input' # << >> /\ input' \in Seq(Nat)
    BY <1>7, ReadMoves DEF ReceiveTypes
  <2>2. CASE phase' = "polling" /\ ~Complete(input') /\ Held' = Held
    <3>1. Complete(input)' = Complete(input')
      BY DEF Complete, Needed
    <3>2. QED
      BY <1>1, <2>1, <2>2, <3>1 DEF ReceiveInv
  <2>3. CASE phase' = "idle" /\ Held = input' \o Held'
    BY <1>2, <2>1, <2>3 DEF ReceiveInv
  <2>4. QED
    BY <1>7, <2>2, <2>3, ReadMoves
<1>8. CASE PollReady
  <2>1. /\ ReceiveTypes' /\ sent' = sent /\ input' = input
        /\ input' \in Seq(Nat)
    BY <1>8, PollReadyMoves DEF ReceiveTypes
  <2>2. CASE phase' = "reading" /\ Len(input) < BufferLen /\ Held' = Held
    BY <1>1, <2>1, <2>2 DEF ReceiveInv
  <2>3. CASE phase' = "idle" /\ Held = input' \o Held'
    BY <1>2, <2>1, <2>3 DEF ReceiveInv
  <2>4. QED
    BY <1>8, <2>2, <2>3, PollReadyMoves
<1>9. CASE ReadEnd \/ PollTimesOut
  <2>1. /\ ReceiveTypes' /\ sent' = sent /\ phase' = "failed"
        /\ input' = input /\ gone' = gone /\ Held = input \o Held'
        /\ gone \/ phase = "polling"
    BY <1>9, FailMoves
  <2>2. input \in Seq(Nat)
    BY DEF ReceiveInv, ReceiveTypes
  <2>3. phase = "polling" => sent # << >> /\ ~Complete(input)
    <3>1. SUFFICES ASSUME phase = "polling", sent = << >> PROVE FALSE
      BY DEF ReceiveInv
    <3>2. input = << >>
      BY <2>1, <2>2, <3>1, NothingTaken
    <3>3. QED
      BY <3>1, <3>2 DEF ReceiveInv
  <2>4. Complete(input)' = Complete(input)
    BY <2>1 DEF Complete, Needed
  <2>5. QED
    BY <1>2, <2>1, <2>2, <2>3, <2>4 DEF ReceiveInv
<1>10. CASE UNCHANGED frontVars
  <2>1. UNCHANGED <<sent, unsent, gone, wire, phase, input, late, results>>
    BY <1>10 DEF frontVars, vars, client
  <2>2. QED
    BY <2>1 DEF ReceiveInv, ReceiveTypes, Held, Complete, Needed
<1>11. CASE Client
  BY <1>3, <1>4, <1>5, <1>11 DEF Client
<1>12. CASE Receive
  BY <1>6, <1>7, <1>8, <1>9, <1>12 DEF Receive
<1>13. CASE BackEndLeaves
  <2>1. UNCHANGED <<sent, unsent, gone, wire, phase, input, late, results>>
    BY <1>13 DEF BackEndLeaves, vars, client
  <2>2. QED
    BY <2>1 DEF ReceiveInv, ReceiveTypes, Held, Complete, Needed
<1>14. QED
  BY <1>5, <1>10, <1>11, <1>12, <1>13 DEF FrontNext

\* The receiver's invariant holds when a client takes turns.
LEMMA ReceiveHolds == FrontSafeSpec => []ReceiveInv
<1>1. FrontInit => ReceiveInv
  <2> SUFFICES ASSUME FrontInit PROVE ReceiveInv
    OBVIOUS
  <2>1. /\ sent = << >> /\ unsent = << >> /\ wire = << >> /\ gone = FALSE
        /\ phase = "idle" /\ input = << >> /\ late = FALSE
        /\ results = << >>
    BY DEF FrontInit, Init
  <2>2. \A S : << >> \in Seq(S)
    BY EmptySeq
  <2>3. Len(<< >>) <= BufferLen
    BY EmptySeq, CodesAssumption
  <2>4. ReceiveTypes
    BY <2>1, <2>2, <2>3 DEF ReceiveTypes
  <2>5. Held = << >>
    <3>1. Held = << >> \o << >>
      BY <2>1 DEF Held
    <3>2. << >> \in Seq(Nat)
      BY <2>2
    <3>3. QED
      BY <3>1, <3>2, ConcatEmptySeq
  <2>6. QED
    BY <2>1, <2>4, <2>5 DEF ReceiveInv
<1>2. QED
  BY <1>1, ReceiveKept, PTL DEF FrontSafeSpec

(***************************************************************************)
(* The receiver's state has its types: whatever commands are sent, longer  *)
(* than the buffer or not, and however they are cut, a call never writes   *)
(* behind its buffer, and never reads with no room left, which it would    *)
(* take for the end of the stream (swtpm_protocol.cc:74-168).              *)
(***************************************************************************)
THEOREM ReceiverTypeCorrect == FrontSafeSpec => []TypeOK
<1>1. ReceiveInv => TypeOK
  <2> SUFFICES ASSUME ReceiveInv PROVE TypeOK
    OBVIOUS
  <2>1. phase = "reading" => Room(input) > 0
    <3>1. Len(input) \in Nat /\ BufferLen \in Nat
      BY CodesAssumption, LenProperties DEF ReceiveInv, ReceiveTypes
    <3>2. QED
      BY <3>1 DEF ReceiveInv, Room
  <2>2. QED
    BY <2>1 DEF ReceiveInv, ReceiveTypes, TypeOK
<1>2. QED
  BY <1>1, ReceiveHolds, PTL

(***************************************************************************)
(* A command that has arrived whole is never given up: when a call fails,  *)
(* the client still owed something or is gone (swtpm_protocol.cc:74-168).  *)
(***************************************************************************)
THEOREM WholeIsNotGivenUp == FrontSafeSpec => []FailsOnlyIncomplete
<1>1. ReceiveInv => FailsOnlyIncomplete
  <2> SUFFICES ASSUME ReceiveInv, phase = "failed", ~gone
               PROVE  input # Last(sent)
    BY DEF FailsOnlyIncomplete
  <2>1. sent # << >> /\ ~Complete(input)
    BY DEF ReceiveInv
  <2>2. Complete(Last(sent))
    BY <2>1, LastIsCommand, CommandType DEF ReceiveInv
  <2>3. QED
    BY <2>1, <2>2
<1>2. QED
  BY <1>1, ReceiveHolds, PTL

\* The beginning of a command that is complete is the command, if all of the
\* command is needed.
LEMMA CompletePrefix ==
  ASSUME NEW m \in Commands, Len(m) = Needed(m),
         NEW h \in Seq(Nat), NEW t \in Seq(Nat), m = h \o t, Complete(h)
  PROVE  h = m /\ t = << >>
<1>1. /\ Len(h) \in Nat /\ Len(t) \in Nat /\ Len(m) = Len(h) + Len(t)
      /\ \A i \in 1 .. Len(h) : m[i] = h[i] /\ h[i] \in Nat
  BY ConcatProperties, ElementOfSeq, LenProperties
<1>2. Len(h) >= CodeLen /\ Len(h) >= Needed(h)
  BY DEF Complete
<1> DEFINE code == m[CodeLen]
<1>3. m[CodeLen] = code /\ h[CodeLen] = code
  BY <1>1, <1>2 DEF CodeLen
<1> HIDE DEF code
<1>4. Needed(h) = Needed(m) /\ Needed(h) \in Nat
  <2>1. CASE code \in Fixed
    <3>1. Needed(m) = CodeLen + BodySize[code]
      BY <1>3, <2>1, CodesAssumption DEF Needed
    <3>2. Needed(h) = CodeLen + BodySize[code]
      BY <1>3, <2>1, CodesAssumption DEF Needed
    <3>3. BodySize[code] \in Nat
      BY <2>1, CodesAssumption
    <3>4. CodeLen + BodySize[code] \in Nat
      BY <3>3, CodeLenIsPositive
    <3>5. QED
      BY <3>1, <3>2, <3>4
  <2>2. CASE code \notin Fixed /\ code \in Counted
    <3> DEFINE head == CodeLen + BodySize[code]
    <3>1. Needed(m) = IF Len(m) >= head THEN head + m[head] ELSE head
      BY <1>3, <2>2 DEF Needed
    <3>2. Needed(h) = IF Len(h) >= head THEN head + h[head] ELSE head
      BY <1>3, <2>2 DEF Needed
    <3>3. head \in Nat /\ head >= 1
      <4>1. BodySize[code] \in Nat \ {0}
        BY <2>2, CodesAssumption
      <4>2. QED
        BY <4>1, CodeLenIsPositive
    <3> HIDE DEF head
    <3>4. Len(h) >= head
      BY <1>2, <3>2
    <3>5. h[head] = m[head] /\ h[head] \in Nat /\ Len(m) >= head
      BY <1>1, <3>3, <3>4
    <3>6. QED
      BY <3>1, <3>2, <3>3, <3>4, <3>5
  <2>3. CASE code \notin Fixed \cup Counted
    BY <1>3, <2>3 DEF Needed, CodeLen
  <2>4. QED
    BY <2>1, <2>2, <2>3
<1>5. Len(t) = 0
  BY <1>1, <1>2, <1>4
<1>6. t = << >>
  BY <1>5, EmptySeq
<1>7. QED
  BY <1>6, ConcatEmptySeq

\* What a call in time returns of the command that is held whole: the command
\* if it fits, and else what fits of it.
LEMMA ReturnsWhatFits ==
  ASSUME NEW m \in Commands, Len(m) = Needed(m),
         NEW h \in Seq(Nat), NEW t \in Seq(Nat), m = h \o t,
         Len(h) <= BufferLen, Complete(h) \/ Len(h) = BufferLen
  PROVE  h = WhatFits(m) /\ (Len(m) <= BufferLen => h = m /\ t = << >>)
<1>1. /\ Len(h) \in Nat /\ Len(t) \in Nat /\ Len(m) = Len(h) + Len(t)
      /\ \A i \in 1 .. Len(h) : m[i] = h[i]
      /\ m \in Seq(Nat) /\ Len(m) \in Nat /\ BufferLen \in Nat
  BY ConcatProperties, LenProperties, CommandType, CodesAssumption
<1>2. CASE Complete(h)
  <2>1. h = m /\ t = << >>
    BY <1>2, CompletePrefix
  <2>2. QED
    BY <2>1 DEF WhatFits
<1>3. CASE Len(h) = BufferLen /\ Len(m) <= BufferLen
  <2>1. Len(t) = 0
    BY <1>1, <1>3
  <2>2. t = << >>
    BY <2>1, EmptySeq
  <2>3. h = m
    BY <2>2, ConcatEmptySeq
  <2>4. QED
    BY <2>2, <2>3, <1>3 DEF WhatFits
<1>4. CASE Len(h) = BufferLen /\ ~(Len(m) <= BufferLen)
  <2>1. /\ SubSeq(m, 1, BufferLen) \in Seq(Nat)
        /\ Len(SubSeq(m, 1, BufferLen)) = BufferLen
        /\ \A i \in 1 .. BufferLen : SubSeq(m, 1, BufferLen)[i] = m[i]
    BY <1>1, <1>4
  <2>2. SubSeq(m, 1, BufferLen) = h
    BY <1>1, <1>4, <2>1, SeqEqual
  <2>3. QED
    BY <1>4, <2>2 DEF WhatFits
<1>5. QED
  BY <1>2, <1>3, <1>4

\* A call that returns keeps the exactness.
LEMMA ExactReturns ==
  ASSUME \A m \in Commands : Len(m) = Needed(m),
         ReceiveInv, ExactInv, Read \/ PollReady, results' # results
  PROVE  ExactInv'
<1> DEFINE result == [bytes |-> input', late |-> late]
           k == Len(results) + 1
<1>1. /\ sent' = sent /\ phase # "failed" /\ phase' = "idle"
      /\ input' \in Seq(Nat) /\ input' # << >> /\ Held' \in Seq(Nat)
      /\ Len(input') <= BufferLen
      /\ Complete(input') \/ late \/ Len(input') = BufferLen
      /\ results' = Append(results, result) /\ Held = input' \o Held'
  BY ReturnMoves, NextHeldType DEF ReceiveTypes
<1>2. result \in [bytes : Seq(Nat), late : BOOLEAN]
  BY <1>1 DEF ReceiveInv, ReceiveTypes
<1>3. result.bytes = input' /\ result.late = late
  OBVIOUS
<1> HIDE DEF result
<1>4. /\ Len(results) \in Nat /\ Len(sent) \in Nat
      /\ Len(results') = k /\ results'[k] = result
      /\ \A i \in 1 .. Len(results) : results'[i] = results[i]
  BY <1>1, <1>2, AppendProperties, LenProperties DEF ReceiveInv, ReceiveTypes
<1>5. Held # << >>
  <2>1. input' \o Held' = << >> <=> input' = << >> /\ Held' = << >>
    BY <1>1, ConcatEqualIffEmpty
  <2>2. QED
    BY <1>1, <2>1
<1>6. ASSUME InTime', AllFit
      PROVE  /\ k = Len(sent) /\ results'[k].bytes = WhatFits(sent[k])
             /\ Len(sent[k]) <= BufferLen => Held' = << >>
  <2>1. ~late /\ InTime
    BY <1>3, <1>4, <1>6 DEF InTime
  <2>2. k = Len(sent) /\ Held = Last(sent)
    BY <1>1, <1>5, <1>6, <2>1 DEF ExactInv
  <2>3. Last(sent) \in Commands /\ Last(sent) = sent[k]
    <3>1. sent # << >>
      BY <1>4, <2>2, EmptySeq
    <3>2. QED
      BY <2>2, <3>1, LastIsCommand DEF ReceiveInv
  <2> DEFINE m == Last(sent)
  <2>4. m \in Commands /\ Len(m) = Needed(m) /\ m = input' \o Held'
    BY <1>1, <2>2, <2>3
  <2> HIDE DEF m
  <2>5. input' = WhatFits(m) /\ (Len(m) <= BufferLen => Held' = << >>)
    BY <1>1, <2>1, <2>4, ReturnsWhatFits
  <2>6. m = sent[k]
    BY <2>3 DEF m
  <2>7. QED
    BY <1>3, <1>4, <2>2, <2>5, <2>6
<1>7. ExactUnlessLate'
  <2>1. SUFFICES ASSUME NEW i \in 1 .. k,
                        \A j \in 1 .. i : ~results'[j].late,
                        \A j \in 1 .. Len(sent) :
                          j < i => Len(sent[j]) <= BufferLen
                 PROVE  i <= Len(sent) /\ results'[i].bytes = WhatFits(sent[i])
    BY <1>1, <1>4 DEF ExactUnlessLate, WhatFits
  <2>2. CASE i \in 1 .. Len(results)
    <3>1. \A j \in 1 .. i : ~results[j].late
      BY <1>4, <2>1, <2>2
    <3>2. QED
      BY <1>4, <2>1, <2>2, <3>1 DEF ExactInv, ExactUnlessLate
  <2>3. CASE i = k
    <3>1. InTime'
      BY <1>4, <2>1, <2>3 DEF InTime
    <3>2. AllFit
      <4>1. SUFFICES ASSUME NEW j \in 1 .. Len(sent), j <= Len(results)
                     PROVE  Len(sent[j]) <= BufferLen
        BY DEF AllFit
      <4>2. j < i
        BY <1>4, <2>3, <4>1
      <4>3. QED
        BY <2>1, <4>2
    <3>3. QED
      BY <1>4, <1>6, <2>3, <3>1, <3>2
  <2>4. QED
    BY <1>4, <2>2, <2>3
<1>8. ASSUME InTime', AllFit'
      PROVE  Len(results') = Len(sent') /\ Held' = << >>
  <2>1. \A j \in 1 .. Len(sent) : j <= k => Len(sent[j]) <= BufferLen
    BY <1>1, <1>4, <1>8 DEF AllFit
  <2>2. AllFit
    <3>1. SUFFICES ASSUME NEW j \in 1 .. Len(sent), j <= Len(results)
                   PROVE  Len(sent[j]) <= BufferLen
      BY DEF AllFit
    <3>2. j <= k
      BY <1>4, <3>1
    <3>3. QED
      BY <2>1, <3>2
  <2>3. k = Len(sent) /\ (Len(sent[k]) <= BufferLen => Held' = << >>)
    BY <1>6, <1>8, <2>2
  <2>4. Len(sent[k]) <= BufferLen
    BY <1>4, <2>1, <2>3
  <2>5. QED
    BY <1>1, <1>4, <2>3, <2>4
<1>9. QED
  BY <1>7, <1>8 DEF ExactInv

\* Every step keeps the exactness of calls that are in time, if no command is
\* longer than what is needed of it.
LEMMA ExactKept ==
  ASSUME \A m \in Commands : Len(m) = Needed(m)
  PROVE  ReceiveInv /\ ExactInv /\ [FrontNext]_frontVars => ExactInv'
<1> SUFFICES ASSUME ReceiveInv, ExactInv, [FrontNext]_frontVars PROVE ExactInv'
  OBVIOUS
<1>1. /\ Len(sent) \in Nat /\ Len(results) \in Nat /\ sent \in Seq(Commands)
      /\ results \in Seq([bytes : Seq(Nat), late : BOOLEAN])
  BY LenProperties DEF ReceiveInv, ReceiveTypes
<1>2. ASSUME sent' = sent, results' = results,
             phase' # "failed" => phase # "failed" /\ Held' = Held
      PROVE  ExactInv'
  <2>1. ExactUnlessLate' /\ (InTime' <=> InTime) /\ (AllFit' <=> AllFit)
    BY <1>2 DEF ExactInv, ExactUnlessLate, WhatFits, InTime, AllFit
  <2>2. QED
    BY <1>2, <2>1 DEF ExactInv, Last
<1>3. ASSUME NEW m \in Commands, Quiet, ClientBegins(m)
      PROVE  ExactInv'
  <2>1. /\ sent' = Append(sent, m) /\ results' = results /\ phase = "idle"
        /\ Held = << >> /\ Held' = m /\ Last(sent') = m
    BY <1>3, BeginMoves
  <2>2. /\ Len(sent') = Len(sent) + 1
        /\ \A i \in 1 .. Len(sent) : sent'[i] = sent[i]
    BY <1>1, <2>1, AppendProperties
  <2>3. \A j \in 1 .. Len(sent) : j \in 1 .. Len(sent') /\ sent'[j] = sent[j]
    BY <1>1, <2>2
  <2>4. ExactUnlessLate'
    <3>1. SUFFICES ASSUME NEW i \in 1 .. Len(results),
                          \A j \in 1 .. i : ~results[j].late,
                          \A j \in 1 .. Len(sent') :
                            j < i => Len(sent'[j]) <= BufferLen
                   PROVE  /\ i <= Len(sent')
                          /\ results[i].bytes = WhatFits(sent'[i])
      BY <2>1 DEF ExactUnlessLate, WhatFits
    <3>2. \A j \in 1 .. Len(sent) : j < i => Len(sent[j]) <= BufferLen
      BY <2>3, <3>1
    <3>3. i <= Len(sent) /\ results[i].bytes = WhatFits(sent[i])
      BY <3>1, <3>2 DEF ExactInv, ExactUnlessLate
    <3>4. QED
      BY <1>1, <2>2, <3>1, <3>3
  <2>5. ASSUME InTime', AllFit'
        PROVE  Len(results') + 1 = Len(sent')
    <3>1. InTime
      BY <2>1, <2>5 DEF InTime
    <3>2. AllFit
      BY <2>1, <2>3, <2>5 DEF AllFit
    <3>3. sent # << >> => Last(sent) # << >>
      BY LastIsCommand, CommandType DEF ReceiveInv
    <3>4. Len(results) + 1 = Len(sent) => sent # << >>
      BY <1>1, EmptySeq
    <3>5. Len(results) = Len(sent)
      BY <2>1, <3>1, <3>2, <3>3, <3>4 DEF ExactInv
    <3>6. QED
      BY <2>1, <2>2, <3>5
  <2>6. QED
    BY <2>1, <2>4, <2>5 DEF ExactInv
<1>4. ASSUME NEW n \in 1 .. Len(unsent), ClientSends(n)
      PROVE  ExactInv'
  BY <1>2, <1>4, SendMoves
<1>5. ASSUME ClientCloses \/ DeadlinePasses
      PROVE  ExactInv'
  <2>1. UNCHANGED <<sent, unsent, wire, phase, input, results>>
    BY <1>5 DEF ClientCloses, DeadlinePasses, client
  <2>2. QED
    BY <1>2, <2>1 DEF Held
<1>6. CASE Call
  <2>1. /\ sent' = sent /\ results' = results
        /\ phase # "failed" /\ Held' = Held
    BY <1>6, CallMoves
  <2>2. QED
    BY <1>2, <2>1
<1>7. CASE Read \/ PollReady
  <2>1. CASE results' = results
    <3>1. sent' = sent /\ phase # "failed" /\ Held' = Held
      BY <1>7, <2>1, ReturnMoves
    <3>2. QED
      BY <1>2, <2>1, <3>1
  <2>2. CASE results' # results
    BY <1>7, <2>2, ExactReturns
  <2>3. QED
    BY <2>1, <2>2
<1>8. CASE ReadEnd \/ PollTimesOut
  <2>1. sent' = sent /\ results' = results /\ phase' = "failed"
    BY <1>8, FailMoves
  <2>2. QED
    BY <1>2, <2>1
<1>9. CASE UNCHANGED frontVars \/ BackEndLeaves
  <2>1. UNCHANGED <<sent, unsent, wire, phase, input, results>>
    BY <1>9 DEF BackEndLeaves, frontVars, vars, client
  <2>2. QED
    BY <1>2, <2>1 DEF Held
<1>10. CASE Client
  BY <1>3, <1>4, <1>5, <1>10 DEF Client
<1>11. CASE Receive
  BY <1>6, <1>7, <1>8, <1>11 DEF Receive
<1>12. QED
  BY <1>5, <1>9, <1>10, <1>11 DEF FrontNext

(***************************************************************************)
(* As long as no call has run out of time, each call returns exactly one   *)
(* command, in order, wherever the stream is cut, up to the first command  *)
(* that is longer than the buffer, of which what fits is returned; if no   *)
(* command is longer than what the receiver knows to be needed of it       *)
(* (swtpm_protocol.cc:74-168).                                             *)
(***************************************************************************)
THEOREM CallsAreExact ==
  ASSUME \A m \in Commands : Len(m) = Needed(m)
  PROVE  FrontSafeSpec => []ExactUnlessLate
<1>1. FrontInit => ExactInv
  <2> SUFFICES ASSUME FrontInit PROVE ExactInv
    OBVIOUS
  <2>1. sent = << >> /\ results = << >> /\ wire = << >> /\ unsent = << >>
          /\ phase = "idle"
    BY DEF FrontInit, Init
  <2>2. Held = << >> \o << >> /\ << >> \in Seq(Nat)
    BY <2>1 DEF Held
  <2>3. Held = << >>
    BY <2>2, ConcatEmptySeq
  <2>4. QED
    BY <2>1, <2>3 DEF ExactInv, ExactUnlessLate
<1>2. ExactInv => ExactUnlessLate
  BY DEF ExactInv
<1>3. ReceiveInv /\ ExactInv /\ [FrontNext]_frontVars => ExactInv'
  BY ExactKept
<1>4. QED
  BY <1>1, <1>2, <1>3, ReceiveHolds, PTL DEF FrontSafeSpec

-----------------------------------------------------------------------------
(* The handler. *)

\* The client's stream is a sequence of cells.
LEMMA StreamType ==
  ASSUME ReceiveTypes
  PROVE  Others \in Seq(Seq(Nat)) /\ Stream \in Seq(Nat)
<1>1. sent \in Seq(Commands) /\ Len(sent) \in Nat /\ << >> \in Seq(Nat)
  BY LenProperties, EmptySeq DEF ReceiveTypes
<1>2. \A i \in 1 .. Len(sent) : Other(sent[i]) \in Seq(Nat)
  BY <1>1, CommandType DEF Other
<1>3. Others \in Seq(Seq(Nat))
  BY <1>1, <1>2 DEF Others
<1>4. QED
  BY <1>1, <1>3, FlattenAppend DEF Stream

\* What a command that is begun adds to the stream.
LEMMA StreamGrows ==
  ASSUME ReceiveTypes, NEW m \in Commands, sent' = Append(sent, m)
  PROVE  Stream' = Stream \o Other(m)
<1>1. sent \in Seq(Commands) /\ Len(sent) \in Nat /\ << >> \in Seq(Nat)
  BY LenProperties, EmptySeq DEF ReceiveTypes
<1>2. Others \in Seq(Seq(Nat)) /\ Other(m) \in Seq(Nat)
  BY <1>1, StreamType, CommandType DEF Other
<1>3. /\ Len(sent') = Len(sent) + 1 /\ sent'[Len(sent) + 1] = m
      /\ \A i \in 1 .. Len(sent) : sent'[i] = sent[i]
  BY <1>1, AppendProperties
<1> DEFINE more == Append(Others, Other(m))
<1>4. /\ Len(Others) = Len(sent)
      /\ \A i \in 1 .. Len(sent) : Others[i] = Other(sent[i])
  BY <1>1, <1>2 DEF Others
<1>5. /\ more \in Seq(Seq(Nat)) /\ Len(more) = Len(sent) + 1
      /\ more[Len(sent) + 1] = Other(m)
      /\ \A i \in 1 .. Len(sent) : more[i] = Other(sent[i])
  BY <1>2, <1>4, AppendProperties
<1>6. Others' = [i \in 1 .. Len(sent') |-> Other(sent'[i])]
  BY DEF Others, Other, IsSetDataFd
<1> HIDE DEF more
<1>7. Others' = more
  <2>1. \A i \in 1 .. Len(sent) + 1 : Other(sent'[i]) = more[i]
    BY <1>1, <1>3, <1>5
  <2>2. more = [i \in 1 .. Len(sent) + 1 |-> more[i]]
    BY <1>5
  <2>3. QED
    BY <1>3, <1>6, <2>1, <2>2
<1>8. QED
  BY <1>2, <1>7, FlattenAppend DEF Stream, more

\* What it adds to the number of CMD_SET_DATAFDs.
LEMMA SetsGrow ==
  ASSUME ReceiveTypes, NEW m \in Commands, sent' = Append(sent, m)
  PROVE  /\ SetsSent \in Nat
         /\ SetsSent' = IF IsSetDataFd(m) THEN SetsSent + 1 ELSE SetsSent
<1> DEFINE at == {i \in DOMAIN sent : IsSetDataFd(sent[i])}
<1>1. /\ sent \in Seq(Commands) /\ Len(sent) \in Nat
      /\ DOMAIN sent = 1 .. Len(sent)
  BY LenProperties DEF ReceiveTypes
<1>2. /\ Len(sent') = Len(sent) + 1 /\ sent'[Len(sent) + 1] = m
      /\ DOMAIN sent' = 1 .. Len(sent) + 1
      /\ \A i \in 1 .. Len(sent) : sent'[i] = sent[i]
  BY <1>1, AppendProperties, LenProperties
<1>3. IsFiniteSet(at) /\ Cardinality(at) \in Nat
  <2>1. IsFiniteSet(1 .. Len(sent)) /\ at \subseteq 1 .. Len(sent)
    BY <1>1, FS_Interval
  <2>2. QED
    BY <2>1, FS_Subset, FS_CardinalityType
<1>4. SetsSent = Cardinality(at)
  BY DEF SetsSent
<1>5. SetsSent' = Cardinality({i \in DOMAIN sent' : IsSetDataFd(sent'[i])})
  BY DEF SetsSent, IsSetDataFd
<1>6. CASE IsSetDataFd(m)
  <2>1. {i \in DOMAIN sent' : IsSetDataFd(sent'[i])} = at \cup {Len(sent) + 1}
    BY <1>1, <1>2, <1>6
  <2>2. Len(sent) + 1 \notin at
    BY <1>1
  <2> HIDE DEF at
  <2>3. Cardinality(at \cup {Len(sent) + 1}) = Cardinality(at) + 1
    BY <1>3, <2>2, FS_AddElement
  <2>4. QED
    BY <1>3, <1>4, <1>5, <1>6, <2>1, <2>3
<1>7. CASE ~IsSetDataFd(m)
  <2>1. {i \in DOMAIN sent' : IsSetDataFd(sent'[i])} = at
    BY <1>1, <1>2, <1>7
  <2>2. QED
    BY <1>3, <1>4, <1>5, <1>7, <2>1
<1>8. QED
  BY <1>6, <1>7

\* The first cells of a CMD_SET_DATAFD are its first cell or all of it.
LEMMA SetDataFdParts ==
  ASSUME NEW m \in Commands, IsSetDataFd(m),
         NEW h \in Seq(Nat), NEW t \in Seq(Nat), m = h \o t, h # << >>
  PROVE  \/ h = <<Attached>>
         \/ h = m /\ t = << >> /\ Len(h) = CodeLen /\ h[CodeLen] = SetDataFd
<1>1. Len(m) = CodeLen /\ m[CodeLen] = SetDataFd /\ m[1] = Attached
  BY SetDataFdAssumption DEF IsSetDataFd
<1>2. /\ Len(h) \in Nat \ {0} /\ Len(t) \in Nat /\ Len(m) = Len(h) + Len(t)
      /\ \A i \in 1 .. Len(h) : m[i] = h[i]
  BY ConcatProperties, EmptySeq, LenProperties
<1>3. CASE Len(h) = 1
  <2>1. h[1] = Attached
    BY <1>1, <1>2, <1>3
  <2>2. h = <<Attached>>
    BY <1>3, <2>1
  <2>3. QED
    BY <2>2
<1>4. CASE Len(h) # 1
  <2>1. Len(h) = CodeLen /\ Len(t) = 0
    <3>1. CodeLen = 2
      BY DEF CodeLen
    <3>2. Len(h) \in Nat \ {0, 1} /\ Len(t) \in Nat /\ Len(h) + Len(t) = CodeLen
      BY <1>1, <1>2, <1>4
    <3>3. \A a, b \in Nat : a # 0 /\ a # 1 /\ a + b = 2 => a = 2 /\ b = 0
      OBVIOUS
    <3>4. QED
      BY <3>1, <3>2, <3>3
  <2>2. t = << >>
    BY <2>1, EmptySeq
  <2>3. h = m
    BY <2>2, ConcatEmptySeq
  <2>4. QED
    BY <1>1, <2>1, <2>2, <2>3
<1>5. QED
  BY <1>3, <1>4

\* No part of another command is taken for a CMD_SET_DATAFD with a descriptor.
LEMMA OtherParts ==
  ASSUME NEW m \in Commands, ~IsSetDataFd(m), NEW p \in Seq(Nat),
         NEW h \in Seq(Nat), NEW t \in Seq(Nat), m = p \o (h \o t), h # << >>
  PROVE  ~IsSetDataFd(h)
<1>1. /\ Len(h) \in Nat \ {0} /\ Len(t) \in Nat /\ Len(p) \in Nat
      /\ h \o t \in Seq(Nat) /\ Len(h \o t) = Len(h) + Len(t)
      /\ (h \o t)[1] = h[1]
  BY ConcatProperties, EmptySeq, LenProperties
<1> DEFINE u == h \o t
<1> HIDE DEF u
<1>2. /\ u \in Seq(Nat) /\ Len(u) \in Nat \ {0} /\ u[1] = h[1]
      /\ m = p \o u
  BY <1>1 DEF u
<1>3. Len(m) = Len(p) + Len(u) /\ m[Len(p) + 1] = u[1]
  BY <1>1, <1>2, ConcatProperties
<1>4. m[1] # Attached /\ \A i \in 2 .. Len(m) : m[i] # Attached
  BY SetDataFdAssumption DEF IsSetDataFd
<1>5. Len(p) + 1 \in 1 .. Len(m)
  BY <1>1, <1>2, <1>3
<1>6. m[Len(p) + 1] # Attached
  <2>1. CASE Len(p) = 0
    BY <1>4, <2>1
  <2>2. CASE Len(p) # 0
    <3>1. Len(p) + 1 \in 2 .. Len(m)
      BY <1>1, <1>5, <2>2
    <3>2. QED
      BY <1>4, <3>1
  <2>3. QED
    BY <2>1, <2>2
<1>7. QED
  BY <1>2, <1>3, <1>6 DEF IsSetDataFd

\* Steps that hand nothing to the handler and begin no command.
LEMMA BackUnmoved ==
  ASSUME BackInv, UNCHANGED <<sent, results, forwarded, sets>>,
         running' /\ ~backGone' => running /\ ~backGone /\ Held' = Held
  PROVE  BackInv'
<1>1. Stream' = Stream /\ SetsSent' = SetsSent /\ Cut' = Cut
  BY DEF Stream, Others, Other, IsSetDataFd, SetsSent, Cut
<1>2. running' /\ ~backGone' => (Whole' <=> Whole)
  BY <1>1 DEF Whole, Last, IsSetDataFd
<1>3. QED
  BY <1>1, <1>2 DEF BackInv

\* A command that is begun lengthens the stream.
LEMMA BackBegins ==
  ASSUME ReceiveInv, FrontTypes, BackInv, Quiet, sets = SetsSent,
         NEW m \in Commands, ClientBegins(m), UNCHANGED front
  PROVE  BackInv'
<1>1. /\ sent' = Append(sent, m) /\ results' = results /\ Held = << >>
      /\ Held' = m /\ sent' # << >> /\ Last(sent') = m
  BY BeginMoves
<1>2. UNCHANGED <<running, backGone, forwarded, sets>>
  BY DEF front
<1>3. /\ Stream' = Stream \o Other(m) /\ SetsSent \in Nat
      /\ SetsSent' = IF IsSetDataFd(m) THEN SetsSent + 1 ELSE SetsSent
  BY <1>1, StreamGrows, SetsGrow DEF ReceiveInv
<1>4. Cut' = Cut
  BY <1>1 DEF Cut
<1>5. /\ forwarded \in Seq(Nat) /\ Stream \in Seq(Nat) /\ m \in Seq(Nat)
      /\ << >> \in Seq(Nat) /\ Other(m) \in Seq(Nat) /\ m # << >>
  BY StreamType, CommandType, EmptySeq DEF ReceiveInv, FrontTypes, Other
<1>6. SUFFICES ASSUME ~Cut
               PROVE  /\ running /\ ~backGone => Whole'
                      /\ \E rest \in Seq(Nat) : forwarded \o rest = Stream'
  BY <1>2, <1>4 DEF BackInv
<1>7. PICK rest \in Seq(Nat) : forwarded \o rest = Stream
  BY <1>6 DEF BackInv
<1>8. \E longer \in Seq(Nat) : forwarded \o longer = Stream'
  <2>1. rest \o Other(m) \in Seq(Nat)
    BY <1>5, ConcatProperties
  <2>2. (forwarded \o rest) \o Other(m) = forwarded \o (rest \o Other(m))
    <3>1. forwarded \in Seq(Nat) /\ Other(m) \in Seq(Nat)
      BY <1>5
    <3>2. QED
      BY <3>1, ConcatAssociativeNat, ZenonT(40)
  <2>3. QED
    BY <1>3, <1>7, <2>1, <2>2
<1>9. ASSUME running, ~backGone PROVE Whole'
  <2>1. Whole
    BY <1>6, <1>9 DEF BackInv
  <2>2. forwarded = Stream
    <3>1. forwarded \o << >> = forwarded
      BY <1>5, ConcatEmptySeq
    <3>2. QED
      BY <1>1, <2>1, <3>1 DEF Whole
  <2>3. CASE IsSetDataFd(m)
    <3>1. Stream' = Stream
      <4>1. Stream \o << >> = Stream
        BY <1>5, ConcatEmptySeq
      <4>2. QED
        BY <1>3, <2>3, <4>1 DEF Other
    <3>2. sets' + 1 = SetsSent'
      BY <1>2, <1>3, <2>3
    <3>3. IsSetDataFd(Last(sent'))
      BY <1>1, <2>3
    <3>4. QED
      BY <1>1, <1>2, <2>2, <3>1, <3>2, <3>3 DEF Whole, IsSetDataFd, Last
  <2>4. CASE ~IsSetDataFd(m)
    <3>1. forwarded' \o Held' = Stream'
      BY <1>1, <1>2, <1>3, <2>2, <2>4 DEF Other
    <3>2. sets' = SetsSent'
      BY <1>2, <1>3, <2>4
    <3>3. ~IsSetDataFd(Last(sent'))
      BY <1>1, <2>4
    <3>4. QED
      BY <3>1, <3>2, <3>3 DEF Whole, IsSetDataFd, Last
  <2>5. QED
    BY <2>3, <2>4
<1>10. QED
  BY <1>8, <1>9

\* What a call returns goes to the handler.
LEMMA BackReturns ==
  ASSUME ReceiveInv, FrontTypes, BackInv, Read \/ PollReady, running,
         results' # results,
         HandleCommand(Last(results').bytes)
  PROVE  FrontTypes' /\ BackInv'
<1> DEFINE bytes == input'
           result == [bytes |-> input', late |-> late]
<1>1. /\ ReceiveTypes' /\ sent' = sent /\ bytes # << >> /\ bytes \in Seq(Nat)
      /\ Held' \in Seq(Nat) /\ phase' = "idle" /\ Held = bytes \o Held'
      /\ results' = Append(results, result)
  BY ReturnMoves, NextHeldType DEF ReceiveTypes
<1>2. /\ Len(results') = Len(results) + 1
      /\ \A i \in 1 .. Len(results) : results'[i] = results[i]
      /\ results'[Len(results) + 1] = result /\ Len(results) \in Nat
  <2>1. result \in [bytes : Seq(Nat), late : BOOLEAN]
    BY <1>1 DEF ReceiveInv, ReceiveTypes
  <2>2. results \in Seq([bytes : Seq(Nat), late : BOOLEAN])
    BY DEF ReceiveInv, ReceiveTypes
  <2> HIDE DEF result
  <2>3. QED
    BY <1>1, <2>1, <2>2, AppendProperties, LenProperties
<1>3. Last(results').bytes = bytes
  BY <1>2 DEF Last
<1>4. Cut => Cut'
  BY <1>2 DEF Cut
<1>5. bytes = <<Attached>> => Cut'
  <2>1. results'[Len(results) + 1].bytes = bytes
    BY <1>2
  <2>2. Len(results) + 1 \in 1 .. Len(results')
    BY <1>2
  <2>3. QED
    BY <2>1, <2>2 DEF Cut
<1> HIDE DEF bytes, result
<1>6. HandleCommand(bytes)
  BY <1>3
<1>7. Stream' = Stream /\ SetsSent' = SetsSent /\ Last(sent') = Last(sent)
  BY <1>1 DEF Stream, Others, Other, IsSetDataFd, SetsSent, Last
<1>8. /\ forwarded \in Seq(Nat) /\ sets \in Nat /\ Held \in Seq(Nat)
      /\ << >> \in Seq(Nat) /\ Held # << >>
  <2>1. bytes \o Held' = << >> <=> bytes = << >> /\ Held' = << >>
    BY <1>1, ConcatEqualIffEmpty
  <2>2. QED
    BY <1>1, <2>1, HeldType, EmptySeq DEF ReceiveInv, FrontTypes
<1>9. PICK p \in Seq(Nat) : sent # << >> /\ p \o Held = Last(sent)
  BY <1>8 DEF ReceiveInv
<1>10. Last(sent) \in Commands
  BY <1>9, LastIsCommand DEF ReceiveInv
<1>11. FrontTypes'
  <2>1. forwarded' \in Seq(Nat)
    <3>1. forwarded \o bytes \in Seq(Nat)
      BY <1>1, <1>8, ConcatProperties
    <3>2. QED
      BY <1>6, <1>8, <3>1
      DEF HandleCommand, HandleSetDataFd, ForwardCommand, Forwarded
  <2>2. sets' \in Nat
    <3>1. sets' = sets \/ sets' = sets + 1
      BY <1>6 DEF HandleCommand, HandleSetDataFd, ForwardCommand
    <3>2. QED
      BY <1>8, <3>1
  <2>3. QED
    BY <1>1, <2>1, <2>2 DEF FrontTypes
<1>12. backGone' = backGone
  BY <1>6 DEF HandleCommand, HandleSetDataFd, ForwardCommand
<1>13. SUFFICES ASSUME ~Cut'
                PROVE  /\ running' /\ ~backGone => Whole'
                       /\ \E rest \in Seq(Nat) : forwarded' \o rest = Stream'
  BY <1>11, <1>12 DEF BackInv
<1>14. PICK rest \in Seq(Nat) : forwarded \o rest = Stream
  BY <1>4, <1>13 DEF BackInv
<1>15. CASE backGone
  <2>1. forwarded' = forwarded
    BY <1>6, <1>15 DEF HandleCommand, HandleSetDataFd, ForwardCommand
  <2>2. QED
    BY <1>7, <1>14, <1>15, <2>1
<1>16. ASSUME ~backGone
       PROVE  Whole
  BY <1>4, <1>13, <1>16 DEF BackInv
<1>17. CASE ~backGone /\ IsSetDataFd(Last(sent))
  <2>1. forwarded = Stream /\ Held = Last(sent) /\ sets + 1 = SetsSent
    BY <1>8, <1>9, <1>16, <1>17 DEF Whole
  <2>2. /\ bytes = Last(sent) /\ Held' = << >>
        /\ Len(bytes) = CodeLen /\ bytes[CodeLen] = SetDataFd
    <3>1. Last(sent) = bytes \o Held'
      BY <1>1, <2>1
    <3>2. QED
      BY <1>1, <1>5, <1>10, <1>13, <1>17, <3>1, SetDataFdParts
  <2>3. Len(bytes) >= CodeLen
    BY <2>2, CodeLenIsPositive
  <2>4. sets' = sets + 1 /\ forwarded' = forwarded
    BY <1>6, <1>17, <2>2, <2>3 DEF HandleCommand, HandleSetDataFd
  <2>5. Whole'
    <3>1. IsSetDataFd(Last(sent'))
      BY <1>7, <1>17
    <3>2. forwarded' = Stream' /\ sets' = SetsSent'
      BY <1>7, <2>1, <2>4
    <3>3. QED
      BY <1>1, <1>9, <2>2, <3>1, <3>2 DEF Whole, IsSetDataFd, Last
  <2>6. forwarded' \o << >> = Stream'
    BY <1>7, <1>8, <2>1, <2>4, ConcatEmptySeq
  <2>7. QED
    BY <1>8, <2>5, <2>6
<1>18. CASE ~backGone /\ ~IsSetDataFd(Last(sent))
  <2>1. forwarded \o Held = Stream /\ sets = SetsSent
    BY <1>16, <1>18 DEF Whole
  <2>2. ~IsSetDataFd(bytes)
    <3>1. Last(sent) = p \o (bytes \o Held')
      BY <1>1, <1>9
    <3>2. QED
      BY <1>1, <1>10, <1>18, <3>1, OtherParts
  <2>3. CASE Len(bytes) >= CodeLen /\ bytes[CodeLen] = SetDataFd
    <3>1. running' = FALSE /\ forwarded' = forwarded
      BY <1>6, <2>2, <2>3 DEF HandleCommand, HandleSetDataFd
    <3>2. QED
      BY <1>7, <1>8, <2>1, <3>1
  <2>4. CASE ~(Len(bytes) >= CodeLen /\ bytes[CodeLen] = SetDataFd)
    <3>1. forwarded' = forwarded \o bytes /\ sets' = sets
      BY <1>6, <1>18, <2>4 DEF HandleCommand, ForwardCommand, Forwarded
    <3>2. (forwarded \o bytes) \o Held' = forwarded \o (bytes \o Held')
      <4>1. forwarded \in Seq(Nat) /\ bytes \in Seq(Nat) /\ Held' \in Seq(Nat)
        BY <1>1, <1>8
      <4>2. QED
        BY <4>1, ConcatAssociativeNat, ZenonT(40)
    <3>3. forwarded' \o Held' = Stream' /\ sets' = SetsSent'
      BY <1>1, <1>7, <2>1, <3>1, <3>2
    <3>4. ~IsSetDataFd(Last(sent'))
      BY <1>7, <1>18
    <3>5. Whole'
      BY <3>3, <3>4 DEF Whole, IsSetDataFd, Last
    <3>6. QED
      BY <1>1, <3>3, <3>5
  <2>5. QED
    BY <2>3, <2>4
<1>19. QED
  BY <1>15, <1>17, <1>18

\* Every step keeps the invariant of the handler.
LEMMA BackKept ==
  ReceiveInv /\ FrontTypes /\ BackInv /\ [FrontNext]_frontVars
    => FrontTypes' /\ BackInv'
<1> SUFFICES ASSUME ReceiveInv, FrontTypes, BackInv, [FrontNext]_frontVars
             PROVE  FrontTypes' /\ BackInv'
  OBVIOUS
<1>1. ASSUME UNCHANGED <<sent, results, front>>, Held' = Held,
             phase' = "failed" => phase = "failed"
      PROVE  FrontTypes' /\ BackInv'
  BY <1>1, BackUnmoved DEF front, FrontTypes
<1>2. ASSUME NEW m \in Commands, Quiet, sets = SetsSent, ClientBegins(m),
             UNCHANGED front
      PROVE  FrontTypes' /\ BackInv'
  <2>1. phase' = "idle"
    BY <1>2, BeginMoves
  <2>2. BackInv'
    BY <1>2, BackBegins
  <2>3. QED
    BY <1>2, <2>1, <2>2 DEF front, FrontTypes
<1>3. ASSUME NEW n \in 1 .. Len(unsent), ClientSends(n), UNCHANGED front
      PROVE  FrontTypes' /\ BackInv'
  BY <1>1, <1>3, SendMoves
<1>4. ASSUME ClientCloses \/ DeadlinePasses, UNCHANGED front
      PROVE  FrontTypes' /\ BackInv'
  <2>1. UNCHANGED <<sent, unsent, wire, phase, input, results>>
    BY <1>4 DEF ClientCloses, DeadlinePasses, client
  <2>2. Held' = Held
    BY <2>1 DEF Held
  <2>3. QED
    BY <1>1, <1>4, <2>1, <2>2
<1>5. CASE Client
  BY <1>2, <1>3, <1>4, <1>5 DEF Client
<1>6. CASE Receive
  <2>1. CASE Call /\ UNCHANGED front
    <3>1. UNCHANGED <<sent, results>> /\ Held' = Held /\ phase' = "reading"
      BY <2>1, CallMoves
    <3>2. QED
      BY <1>1, <2>1, <3>1
  <2>2. CASE /\ Read \/ PollReady
             /\ results' = results /\ UNCHANGED front
    <3>1. sent' = sent /\ phase' # "failed" /\ Held' = Held
      BY <2>2, ReturnMoves
    <3>2. QED
      BY <1>1, <2>2, <3>1
  <2>3. CASE /\ running /\ results' # results
             /\ Read \/ PollReady
             /\ HandleCommand(Last(results').bytes)
    BY <2>3, BackReturns
  <2>4. CASE /\ ReadEnd \/ PollTimesOut
             /\ running' = FALSE /\ UNCHANGED <<backGone, forwarded, sets>>
    <3>1. sent' = sent /\ results' = results
      BY <2>4, FailMoves
    <3>2. QED
      BY <2>4, <3>1, BackUnmoved DEF FrontTypes
  <2>5. QED
    BY <1>6, <2>1, <2>2, <2>3, <2>4 DEF Receive
<1>7. CASE UNCHANGED frontVars
  <2>1. UNCHANGED <<sent, unsent, wire, phase, input, results, front>>
    BY <1>7 DEF frontVars, vars, client
  <2>2. Held' = Held
    BY <2>1 DEF Held
  <2>3. QED
    BY <1>1, <2>1, <2>2
<1>8. CASE BackEndLeaves
  <2>1. /\ UNCHANGED <<sent, unsent, wire, phase, input, results>>
        /\ UNCHANGED <<running, forwarded, sets>> /\ backGone'
    BY <1>8 DEF BackEndLeaves, vars, client
  <2>2. BackInv'
    BY <2>1, BackUnmoved
  <2>3. QED
    BY <2>1, <2>2 DEF FrontTypes
<1>9. QED
  BY <1>4, <1>5, <1>6, <1>7, <1>8 DEF FrontNext

(***************************************************************************)
(* The back end, as long as it is there, sees the client's stream without  *)
(* its CMD_SET_DATAFDs, however late or long commands are and however they *)
(* are cut, unless a CMD_SET_DATAFD was cut off itself (main.cc:216-262).  *)
(***************************************************************************)
THEOREM BackEndSeesTheStream == FrontSafeSpec => []BackEndSeesClient
<1>1. FrontInit => FrontTypes /\ BackInv
  <2> SUFFICES ASSUME FrontInit PROVE FrontTypes /\ BackInv
    OBVIOUS
  <2>1. /\ sent = << >> /\ results = << >> /\ wire = << >> /\ unsent = << >>
        /\ phase = "idle" /\ forwarded = << >> /\ sets = 0
    BY DEF FrontInit, Init
  <2>2. << >> \in Seq(Nat) /\ << >> \o << >> = << >>
    BY EmptySeq, ConcatEmptySeq
  <2>3. Held = << >>
    BY <2>1, <2>2 DEF Held
  <2>4. Stream = << >>
    <3>1. Others = << >>
      BY <2>1 DEF Others
    <3>2. QED
      BY <3>1 DEF Stream, FlattenSeq
  <2>5. SetsSent = 0
    <3>1. {i \in DOMAIN sent : IsSetDataFd(sent[i])} = {}
      BY <2>1
    <3>2. QED
      BY <3>1, FS_EmptySet DEF SetsSent
  <2>6. QED
    BY <2>1, <2>2, <2>3, <2>4, <2>5 DEF FrontTypes, BackInv, Whole
<1>2. ReceiveInv /\ FrontTypes /\ BackInv => BackEndSeesClient
  <2> SUFFICES ASSUME ReceiveInv, FrontTypes, BackInv, ~Cut
               PROVE  /\ IsPrefix(forwarded, Stream)
                      /\ Quiet /\ running /\ ~backGone =>
                           forwarded = Stream /\ sets = SetsSent
    BY DEF BackEndSeesClient, Cut, Stream, Others, Other
  <2>1. PICK rest \in Seq(Nat) : forwarded \o rest = Stream
    BY DEF BackInv
  <2>2. forwarded \in Seq(Nat) /\ Stream \in Seq(Nat)
    BY StreamType DEF ReceiveInv, FrontTypes
  <2>3. IsPrefix(forwarded, Stream)
    <3>1. /\ Len(Stream) = Len(forwarded) + Len(rest)
          /\ Len(forwarded) \in Nat /\ Len(rest) \in Nat
          /\ \A i \in 1 .. Len(forwarded) : Stream[i] = forwarded[i]
      BY <2>1, <2>2, ConcatProperties, LenProperties
    <3>2. SubSeq(forwarded, 1, Len(forwarded))
            = SubSeq(Stream, 1, Len(forwarded))
      <4>1. /\ SubSeq(Stream, 1, Len(forwarded)) \in Seq(Nat)
            /\ Len(SubSeq(Stream, 1, Len(forwarded))) = Len(forwarded)
            /\ \A i \in 1 .. Len(forwarded) :
                 SubSeq(Stream, 1, Len(forwarded))[i] = Stream[i]
        BY <2>2, <3>1
      <4>2. SubSeq(Stream, 1, Len(forwarded)) = forwarded
        BY <2>2, <3>1, <4>1, SeqEqual
      <4>3. QED
        BY <2>2, <4>2, SubSeqFull
    <3>3. QED
      BY <3>1, <3>2 DEF IsPrefix
  <2>4. ASSUME Quiet, running, ~backGone
        PROVE  forwarded = Stream /\ sets = SetsSent
    <3>1. Held = << >>
      <4>1. Held = << >> \o << >> /\ << >> \in Seq(Nat)
        BY <2>4 DEF Quiet, Held
      <4>2. QED
        BY <4>1, ConcatEmptySeq
    <3>2. Whole
      BY <2>4 DEF BackInv
    <3>3. sent # << >> => Last(sent) # << >>
      BY LastIsCommand, CommandType DEF ReceiveInv
    <3>4. forwarded \o << >> = forwarded
      BY <2>2, ConcatEmptySeq
    <3>5. QED
      BY <3>1, <3>2, <3>3, <3>4 DEF Whole
  <2>5. QED
    BY <2>3, <2>4
<1>3. QED
  BY <1>1, <1>2, BackKept, ReceiveHolds, PTL DEF FrontSafeSpec

=============================================================================
