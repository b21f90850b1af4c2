------------------------------ MODULE Tpm2Tcti ------------------------------
(***************************************************************************)
(* Framing of TPM 2.0 commands and responses, as in                        *)
(* packages/tpm2-proxy/src/tpm2/tpm2-tcti.ts.  The header fields tag, size *)
(* and code, 2, 4 and 4 bytes wide in the code, are one cell each.  A      *)
(* packet on the wire is a sequence of cells whose second cell is its      *)
(* whole length.                                                           *)
(***************************************************************************)
EXTENDS FifoBuffer

HeaderSize == 3

WellFormed(p) ==
  /\ p \in Seq(Cell)
  /\ Len(p) >= HeaderSize
  /\ p[2] = Len(p)

Header(f) ==
  LET raw == Peek(f, HeaderSize)
  IN  [tag |-> raw[1], size |-> raw[2], code |-> raw[3]]

\* Mutant of CanParse: the length in the header is not waited for.
CanParseHeaderOnly(f) == GetLength(f) >= HeaderSize

\* Mutant of CanParse: a packet is kept until a byte of the next one is there.
CanParseStrict(f) ==
  /\ GetLength(f) >= HeaderSize
  /\ GetLength(f) > Header(f).size

\* parse() returns a packet, rather than null.
CanParse(f) ==
  /\ GetLength(f) >= HeaderSize
  /\ GetLength(f) >= Header(f).size

\* The packet parse() returns; subarray(Header_SIZE) of a datagram shorter
\* than a header is empty.
ParsedPacket(f) ==
  LET header   == Header(f)
      datagram == Peek(f, header.size)
  IN  [tag  |-> header.tag,
       size |-> header.size,
       code |-> header.code,
       data |-> SubSeq(datagram, HeaderSize + 1, header.size),
       raw  |-> datagram]

\* The buffer parse() leaves behind when it returns a packet.
AfterParse(f) == Pop(f, Header(f).size)

\* Mutant of Serialize: the size field counts the data only.
SerializeDataLength(packet) ==
  <<packet.tag, Len(packet.data), packet.code>> \o packet.data

Serialize(packet) ==
  <<packet.tag, HeaderSize + Len(packet.data), packet.code>> \o packet.data

=============================================================================
