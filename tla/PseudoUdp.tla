----------------------------- MODULE PseudoUdp -----------------------------
(***************************************************************************)
(* packages/tpm2-proxy/src/pcap/pseudo-udp.ts: the IPv4 and UDP headers    *)
(* that are put before a captured chunk.  A buffer is a sequence of bytes. *)
(***************************************************************************)
EXTENDS Naturals, Sequences

Byte == 0 .. 255

\* writeUint16BE
Half(n) == <<n \div 256, n % 256>>

\* readUint16LE at the i-th pair of bytes.
LittleEndian(bytes, i) == bytes[2 * i - 1] + 256 * bytes[2 * i]

SumOfWords(bytes) ==
  LET sum[i \in 0 .. Len(bytes) \div 2] ==
        IF i = 0 THEN 0 ELSE sum[i - 1] + LittleEndian(bytes, i)
  IN  sum[Len(bytes) \div 2]

\* Mutant of ComputeChecksum: the complement is not cut to 16 bits.
ComputeChecksumUncut(bytes) == 65535 - SumOfWords(bytes)

\* computeChecksum of an even number of bytes: the carries of the sum are
\* added to it, once, and the result is complemented.
ComputeChecksum(bytes) ==
  LET sum    == SumOfWords(bytes)
      folded == (sum \div 65536) + (sum % 65536)
  IN  65535 - (folded % 65536)

Padding(data) == IF Len(data) % 2 = 1 THEN <<0>> ELSE << >>

\* Mutant of UdpLength: the padding is counted.
UdpLengthPadded(data) == 8 + Len(data) + Len(Padding(data))

UdpLength(data) == 8 + Len(data)

PacketLength(data) == 28 + Len(data) + Len(Padding(data))

\* A chunk that generatePacket writes without a RangeError.
Fits(data) == PacketLength(data) <= 65535

(***************************************************************************)
(* generatePacket, with the options of the constructor.  The destination   *)
(* stands before the source, each checksum is that of its part with 0 for  *)
(* the checksum, and the words summed as little-endian are written as      *)
(* big-endian.                                                             *)
(***************************************************************************)
GeneratePacket(options, data) ==
  LET ip(sum) == <<69, 0>> \o Half(PacketLength(data))
                   \o Half(options.identification)
                   \o <<64, 0, 64, 17>> \o Half(sum)
                   \o options.destIp \o options.srcIp
      udp(sum) == Half(options.srcPort) \o Half(options.destPort)
                    \o Half(UdpLength(data)) \o Half(sum)
                    \o data \o Padding(data)
  IN  ip(ComputeChecksum(ip(0))) \o udp(ComputeChecksum(udp(0)))

=============================================================================
