--------------------------- MODULE PcapGenerator ---------------------------
(***************************************************************************)
(* The capture file: packages/tpm2-proxy/src/pcap/pcap-generator.ts, a     *)
(* Transform stream that the proxy writes packets to and that is piped     *)
(* into the file (src/proxy.ts:21-48, 68-74).                              *)
(*                                                                         *)
(* Node's part: what _transform pushes waits in the stream until the pipe  *)
(* takes it, chunk by chunk.  When HighWater bytes or more wait after a    *)
(* packet, its callback is withheld, and further packets queue up, until   *)
(* so much has been taken that the stream asks for more; nobody looks at   *)
(* what write() returns.  The file grows whenever the disk is ready, and   *)
(* is what there is of it when the process ends.                           *)
(***************************************************************************)
EXTENDS PseudoUdp

CONSTANTS
  Packets,       \* what may be captured: records of channel, data and time
  RoundedDown,   \* milliseconds whose microseconds are rounded down by one
  HighWater,     \* readableHighWaterMark
  MaxPackets     \* bound on the packets captured

Channel == {"upstreamControl", "upstreamData",
            "downstreamControl", "downstreamData"}

ASSUME BoundsAssumption == HighWater \in Nat \ {0} /\ MaxPackets \in Nat

\* The options of the four PseudoIPv4Udp of the proxy.
OptionsOf(channel) ==
  LET options(src, dest, id) ==
        [srcIp |-> <<127, 0, 0, 1>>, srcPort |-> src,
         destIp |-> <<127, 0, 0, 1>>, destPort |-> dest,
         identification |-> id]
  IN  CASE channel = "upstreamControl"   -> options(2321, 10001, 1)
        [] channel = "upstreamData"      -> options(2322, 10002, 2)
        [] channel = "downstreamControl" -> options(10001, 2321, 1)
        [] channel = "downstreamData"    -> options(10002, 2322, 2)

-----------------------------------------------------------------------------
(* The format of the file. *)

\* writeUInt32BE
Word(n) == Half(n \div 65536) \o Half(n % 65536)

\* The constructor's header; its first number is 2712847316.
GlobalHeader ==
  <<161, 178, 195, 212>> \o Half(2) \o Half(4) \o Word(0) \o Word(0)
    \o Word(65536) \o Word(101)

IsMicroseconds(time) == time.digits # << >>

\* Number() of the text behind the point.
Number(digits) ==
  LET number[i \in 0 .. Len(digits)] ==
        IF i = 0 THEN 0 ELSE 10 * number[i - 1] + digits[i]
  IN  number[Len(digits)]

\* One digit less until it is no more than a million.
MakeLessThanAMillion(i) ==
  LET less[n \in Nat] == IF n > 1000000 THEN less[n \div 10] ELSE n
  IN  less[i]

\* [seconds, microseconds]: a whole number is in milliseconds.
SplitTimestamp(time) ==
  IF IsMicroseconds(time)
  THEN <<time.whole, Number(time.digits)>>
  ELSE <<time.whole \div 1000,
         1000 * (time.whole % 1000) - (IF time.whole \in RoundedDown
                                       THEN 1 ELSE 0)>>

\* A packet is captured without a RangeError: its chunk fits into a datagram
\* and its seconds into 32 bits.  A timestamp is the number whole, or
\* whole.digits if there are any.
ASSUME PacketsAssumption ==
  \A p \in Packets :
    /\ p.channel \in Channel
    /\ p.data \in Seq(Byte) /\ Fits(p.data)
    /\ p.time.whole \in Nat /\ p.time.digits \in Seq(0 .. 9)
    /\ SplitTimestamp(p.time)[1] \div 65536 < 65536

\* A quotient without a remainder is not rounded.
ASSUME RoundingAssumption == \A n \in RoundedDown : n % 1000 # 0

Datagram(packet) == GeneratePacket(OptionsOf(packet.channel), packet.data)

RecordHeader(packet) ==
  LET length == PacketLength(packet.data)
      split  == SplitTimestamp(packet.time)
  IN  Word(split[1]) \o Word(MakeLessThanAMillion(split[2]))
        \o Word(length) \o Word(length)

-----------------------------------------------------------------------------

VARIABLES
  written,    \* history: the packets given to write()
  queue,      \* those of them _transform has not been called with
  readable,   \* the chunks pushed that the pipe has not taken
  withheld,   \* the callback of the last _transform has not been called
  file        \* the chunks in the file

vars == <<written, queue, readable, withheld, file>>

\* The chunks a stream is made of: the file's header, and for each packet the
\* header of its record and its datagram.
Header == [part |-> "file"]

\* Mutant of Records: a datagram goes before its header.
RecordsReversed(packets) ==
  [i \in 1 .. 2 * Len(packets) |->
     [part   |-> IF i % 2 = 1 THEN "datagram" ELSE "record",
      packet |-> packets[(i + 1) \div 2]]]

\* _transform: the chunks that it pushes for each of the packets.
Records(packets) ==
  [i \in 1 .. 2 * Len(packets) |->
     [part   |-> IF i % 2 = 1 THEN "record" ELSE "datagram",
      packet |-> packets[(i + 1) \div 2]]]

\* What a chunk holds, and how much that is.
Bytes(chunk) ==
  CASE chunk.part = "file"     -> GlobalHeader
    [] chunk.part = "record"   -> RecordHeader(chunk.packet)
    [] chunk.part = "datagram" -> Datagram(chunk.packet)

LengthOf(chunk) ==
  CASE chunk.part = "file"     -> 24
    [] chunk.part = "record"   -> 16
    [] chunk.part = "datagram" -> PacketLength(chunk.packet.data)

Chunk == {Header} \cup [part : {"record", "datagram"}, packet : Packets]

TypeOK ==
  /\ written \in Seq(Packets)
  /\ queue \in Seq(Packets)
  /\ readable \in Seq(Chunk)
  /\ withheld \in BOOLEAN
  /\ file \in Seq(Chunk)
  /\ \A i \in DOMAIN readable :
       LET bytes == Bytes(readable[i])
       IN  bytes \in Seq(Byte) /\ Len(bytes) = LengthOf(readable[i])

Init ==
  /\ written = << >>
  /\ queue = << >>
  /\ readable = <<Header>>
  /\ withheld = FALSE
  /\ file = << >>

\* The bytes in a sequence of chunks.
Size(chunks) ==
  LET size[i \in 0 .. Len(chunks)] ==
        IF i = 0 THEN 0 ELSE size[i - 1] + LengthOf(chunks[i])
  IN  size[Len(chunks)]

\* write(): a packet is transformed at once, or queued.
Write(packet) ==
  /\ Len(written) < MaxPackets
  /\ written' = Append(written, packet)
  /\ IF withheld
     THEN /\ queue' = Append(queue, packet)
          /\ UNCHANGED <<readable, withheld>>
     ELSE /\ readable' = readable \o Records(<<packet>>)
          /\ withheld' = (Size(readable') >= HighWater)
          /\ UNCHANGED queue
  /\ UNCHANGED file

\* What waits after the first n queued packets have been transformed.
Refilled(n) == readable \o Records(SubSeq(queue, 1, n))

\* Mutant of Transforms: the callback is called and the queue left alone.
TransformsNone(n) == n = 0

\* The withheld callback, when it is called, has n queued packets transformed:
\* all, or up to the one that makes HighWater bytes wait.
Transforms(n) ==
  /\ \A m \in 1 .. n - 1 : Size(Refilled(m)) < HighWater
  /\ \/ n = Len(queue)
     \/ n > 0 /\ Size(Refilled(n)) >= HighWater

\* The pipe takes the first chunk, which still counts as waiting when the
\* stream, seeing less than HighWater bytes behind it, asks for more.
Pipe ==
  /\ readable # << >>
  /\ file' = Append(file, Head(readable))
  /\ IF withheld /\ Size(Tail(readable)) < HighWater
     THEN \E n \in 0 .. Len(queue) :
            /\ Transforms(n)
            /\ readable' = Tail(Refilled(n))
            /\ queue' = SubSeq(queue, n + 1, Len(queue))
            /\ withheld' = (n > 0 /\ Size(Refilled(n)) >= HighWater)
     ELSE /\ readable' = Tail(readable)
          /\ UNCHANGED <<queue, withheld>>
  /\ UNCHANGED written

Next == Pipe \/ \E packet \in Packets : Write(packet)

SafeSpec == Init /\ [][Next]_vars

\* The disk takes what it is given (fs.createWriteStream, proxy.ts:72-73).
Spec == SafeSpec /\ WF_vars(Pipe)

-----------------------------------------------------------------------------
(* Properties. *)

(***************************************************************************)
(* However writes and the pipe interleave, the file holds the header and   *)
(* then, for each packet in the order of the writes, its record's header   *)
(* and its datagram: wherever the process ends, what is lost is the end    *)
(* (pcap-generator.ts:58, 72-74; proxy.ts:68-112).                         *)
(***************************************************************************)
InWriteOrder ==
  /\ Len(file) > 0 => file[1] = Header
  /\ Len(file) <= 1 + 2 * Len(written)
  /\ \A k \in 1 .. Len(written) :
       /\ 2 * k <= Len(file) =>
            file[2 * k] = [part |-> "record", packet |-> written[k]]
       /\ 2 * k + 1 <= Len(file) =>
            file[2 * k + 1] = [part |-> "datagram", packet |-> written[k]]

\* How a reader of the file reads numbers.
HalfAt(bytes, i) == 256 * bytes[i] + bytes[i + 1]
WordAt(bytes, i) == 65536 * HalfAt(bytes, i) + HalfAt(bytes, i + 2)

(***************************************************************************)
(* The time in the file is that of the packet: within a microsecond when   *)
(* it was in milliseconds, to six digits when it had that many.  A seventh *)
(* digit is cut off unless there are zeros at the front.                   *)
(***************************************************************************)
Told(time, seconds, micros) ==
  LET first == Number(SubSeq(time.digits, 1, 6))
  IN  /\ ~IsMicroseconds(time) =>
           /\ micros < 1000000
           /\ 1000 * time.whole - (1000000 * seconds + micros) \in {0, 1}
      /\ (\/ Len(time.digits) = 6
          \/ Len(time.digits) > 6 /\ first > 100000)
           => seconds = time.whole /\ micros = first

(***************************************************************************)
(* A reader that knows pcap, IPv4 and UDP gets back from every complete    *)
(* record the channel, the time and exactly the chunk that was captured,   *)
(* of odd length or even (pcap-generator.ts:61-75, pseudo-udp.ts:33-83).   *)
(***************************************************************************)
Readable ==
  \A k \in 1 .. Len(written) : 2 * k + 1 <= Len(file) =>
    LET header == Bytes(file[2 * k])
        packet == Bytes(file[2 * k + 1])
        ports  == <<HalfAt(packet, 21), HalfAt(packet, 23)>>
        told   == written[k]
    IN  /\ WordAt(header, 9) = Len(packet)
        /\ HalfAt(packet, 3) = Len(packet)
        /\ {c \in Channel : ports = <<OptionsOf(c).srcPort,
                                      OptionsOf(c).destPort>>}
             = {told.channel}
        /\ SubSeq(packet, 29, 20 + HalfAt(packet, 25)) = told.data
        /\ Told(told.time, WordAt(header, 1), WordAt(header, 5))

\* Every packet gets into the file, although nobody waits for the stream
\* (proxy.ts:78, 87, 97, 106).
Drains ==
  \A k \in 1 .. MaxPackets : Len(written) = k ~> Len(file) >= 2 * k + 1

=============================================================================
