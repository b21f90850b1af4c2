--------------------------- MODULE Tpm2TctiProofs ---------------------------
(***************************************************************************)
(* Lemmas about the receive buffer, the framing and streams of packets,    *)
(* for every capacity.                                                     *)
(***************************************************************************)
EXTENDS Tpm2Tcti, SequencesExt, SequenceTheorems, WellFoundedInduction, TLAPS

\* push keeps the buffer a buffer, even when the chunk does not fit.
LEMMA PushType ==
  ASSUME NEW f \in Fifo, NEW chunk \in Seq(Cell)
  PROVE  Push(f, chunk) \in Fifo
BY CapacityAssumption DEF Fifo, Push, Cell

\* push leaves the bytes in use alone and puts the chunk behind them, as far
\* as it fits.
LEMMA PushContents ==
  ASSUME NEW f \in Fifo, NEW chunk \in Seq(Cell),
         f.position + Len(chunk) <= Capacity
  PROVE  /\ Push(f, chunk).position = f.position + Len(chunk)
         /\ \A i \in 1 .. f.position : Push(f, chunk).buffer[i] = f.buffer[i]
         /\ \A i \in 1 .. Len(chunk) :
              Push(f, chunk).buffer[f.position + i] = chunk[i]
<1>1. f.position \in Nat /\ Len(chunk) \in Nat /\ Capacity \in Nat
  BY CapacityAssumption DEF Fifo
<1>2. Push(f, chunk).position = f.position + Len(chunk)
  BY DEF Push
<1>3. ASSUME NEW i \in 1 .. Capacity
      PROVE  Push(f, chunk).buffer[i] =
               IF i \in (f.position + 1) .. (f.position + Len(chunk))
               THEN chunk[i - f.position] ELSE f.buffer[i]
  BY DEF Push
<1>4. ASSUME NEW i \in 1 .. f.position
      PROVE  Push(f, chunk).buffer[i] = f.buffer[i]
  BY <1>1, <1>3
<1>5. ASSUME NEW i \in 1 .. Len(chunk)
      PROVE  Push(f, chunk).buffer[f.position + i] = chunk[i]
  <2>1. /\ f.position + i \in 1 .. Capacity
        /\ f.position + i \in (f.position + 1) .. (f.position + Len(chunk))
        /\ (f.position + i) - f.position = i
    BY <1>1
  <2>2. QED
    BY <2>1, <1>3
<1>6. QED
  BY <1>2, <1>4, <1>5

\* peek returns as many cells as it is asked for.
LEMMA PeekType ==
  ASSUME NEW f \in Fifo, NEW n \in Nat
  PROVE  /\ Peek(f, n) \in Seq(Cell)
         /\ Len(Peek(f, n)) = n
         /\ \A i \in 1 .. n : i <= Capacity => Peek(f, n)[i] = f.buffer[i]
BY CapacityAssumption DEF Fifo, Peek, Cell

\* pop of no more than is there keeps the buffer a buffer.
LEMMA PopType ==
  ASSUME NEW f \in Fifo, NEW n \in Nat, n <= f.position
  PROVE  /\ Pop(f, n) \in Fifo
         /\ Pop(f, n).position = f.position - n
BY CapacityAssumption DEF Fifo, Pop, CopyToFront, Cell

\* The size field of the header is a number parse() may pop.
LEMMA HeaderSizeType ==
  ASSUME NEW f \in Fifo
  PROVE  /\ Header(f).size \in Nat
         /\ CanParse(f) => Header(f).size <= f.position
BY CapacityAssumption
   DEF Fifo, Header, Peek, HeaderSize, CanParse, GetLength, Cell

\* What parse() returns and leaves behind when there is a packet.
LEMMA ParseType ==
  ASSUME NEW f \in Fifo, CanParse(f)
  PROVE  /\ AfterParse(f) \in Fifo
         /\ Header(f).tag \in Cell /\ Header(f).size \in Cell
         /\ Header(f).code \in Cell
         /\ ParsedPacket(f).raw \in Seq(Cell)
         /\ ParsedPacket(f).data \in Seq(Cell)
<1>1. Header(f).size \in Nat /\ Header(f).size <= f.position
  BY HeaderSizeType
<1>2. AfterParse(f) \in Fifo
  BY <1>1, PopType DEF AfterParse
<1>3. /\ Header(f).tag \in Cell /\ Header(f).size \in Cell
      /\ Header(f).code \in Cell
  BY CapacityAssumption DEF Header, Peek, HeaderSize, Fifo, Cell
<1>4. /\ ParsedPacket(f).raw \in Seq(Cell)
      /\ Len(ParsedPacket(f).raw) = Header(f).size
      /\ ParsedPacket(f).data =
           SubSeq(ParsedPacket(f).raw, HeaderSize + 1, Header(f).size)
  BY <1>1, PeekType DEF ParsedPacket
<1>5. ParsedPacket(f).data \in Seq(Cell)
  BY <1>1, <1>4, SubSeqProperties DEF HeaderSize
<1>6. QED
  BY <1>2, <1>3, <1>4, <1>5

-----------------------------------------------------------------------------

(***************************************************************************)
(* The packet p lies at the front of the stream: its first cells are all   *)
(* that the buffer f holds, and the others all that is on the wire.        *)
(***************************************************************************)
Holds(f, w, p) ==
  /\ f.position + Len(w) = Len(p)
  /\ \A i \in 1 .. f.position : f.buffer[i] = p[i]
  /\ \A i \in 1 .. Len(w) : w[i] = p[f.position + i]

\* A packet that has just been written to an empty stream.
LEMMA WrittenHolds ==
  ASSUME NEW f \in Fifo, f.position = 0, NEW p \in Seq(Cell)
  PROVE  Holds(f, p, p)
BY LenProperties DEF Holds

\* A chunk moves cells from the wire to the end of the bytes in use.
LEMMA PushHolds ==
  ASSUME NEW f \in Fifo, NEW w \in Seq(Cell), NEW p \in Seq(Cell),
         Len(p) <= Capacity, Holds(f, w, p), NEW n \in 1 .. Len(w)
  PROVE  Holds(Push(f, SubSeq(w, 1, n)), SubSeq(w, n + 1, Len(w)), p)
<1> DEFINE chunk == SubSeq(w, 1, n)
           rest  == SubSeq(w, n + 1, Len(w))
           g     == Push(f, chunk)
<1>1. /\ Len(w) \in Nat /\ Len(p) \in Nat /\ f.position \in Nat
      /\ Capacity \in Nat
  BY CapacityAssumption DEF Fifo
<1>2. /\ chunk \in Seq(Cell)
      /\ Len(chunk) = n
      /\ \A i \in 1 .. n : chunk[i] = w[i]
  BY <1>1, SubSeqProperties
<1>3. /\ Len(rest) = Len(w) - n
      /\ \A i \in 1 .. Len(rest) : rest[i] = w[n + i]
  BY <1>1, SubSeqProperties
<1>4. /\ f.position + Len(w) = Len(p)
      /\ \A i \in 1 .. f.position : f.buffer[i] = p[i]
      /\ \A i \in 1 .. Len(w) : w[i] = p[f.position + i]
  BY DEF Holds
<1> HIDE DEF chunk, rest, g
<1>5. /\ g.position = f.position + n
      /\ \A i \in 1 .. f.position : g.buffer[i] = f.buffer[i]
      /\ \A i \in 1 .. n : g.buffer[f.position + i] = w[i]
  <2>1. f.position + Len(chunk) <= Capacity
    BY <1>1, <1>2, <1>4
  <2>2. QED
    BY <1>2, <2>1, PushContents DEF g
<1>6. ASSUME NEW i \in 1 .. g.position
      PROVE  g.buffer[i] = p[i]
  <2>1. CASE i <= f.position
    BY <1>1, <1>4, <1>5, <2>1
  <2>2. CASE i > f.position
    <3> DEFINE j == i - f.position
    <3>1. j \in 1 .. n /\ j \in 1 .. Len(w) /\ i = f.position + j
      BY <1>1, <1>5, <2>2
    <3>2. g.buffer[i] = w[j]
      BY <1>5, <3>1
    <3>3. w[j] = p[i]
      BY <1>4, <3>1
    <3>4. QED
      BY <3>2, <3>3
  <2>3. QED
    BY <1>1, <1>5, <2>1, <2>2
<1>7. ASSUME NEW i \in 1 .. Len(rest)
      PROVE  rest[i] = p[g.position + i]
  <2>1. /\ n + i \in 1 .. Len(w)
        /\ g.position + i = f.position + (n + i)
    BY <1>1, <1>3, <1>5
  <2>2. w[n + i] = p[f.position + (n + i)]
    BY <1>4, <2>1
  <2>3. QED
    BY <1>3, <2>1, <2>2
<1>8. g.position + Len(rest) = Len(p)
  BY <1>1, <1>3, <1>4, <1>5
<1>9. Holds(g, rest, p)
  BY <1>6, <1>7, <1>8 DEF Holds
<1>10. QED
  BY <1>9 DEF g, chunk, rest

\* When parse() returns a packet, it is the one at the front of the stream
\* and all of it, and serialising it gives the same cells again.
LEMMA ParseHolds ==
  ASSUME NEW f \in Fifo, NEW w \in Seq(Cell), NEW p, WellFormed(p),
         Len(p) <= Capacity, Holds(f, w, p), CanParse(f)
  PROVE  /\ w = << >>
         /\ ParsedPacket(f).raw = p
         /\ Serialize(ParsedPacket(f)) = p
         /\ AfterParse(f).position = 0
<1>1. /\ Len(w) \in Nat /\ f.position \in Nat /\ f.position >= HeaderSize
      /\ p \in Seq(Cell) /\ Len(p) \in Nat
      /\ p[2] = Len(p) /\ Len(p) >= HeaderSize
  BY DEF Fifo, CanParse, GetLength, WellFormed
<1>2. /\ f.position + Len(w) = Len(p)
      /\ \A i \in 1 .. f.position : f.buffer[i] = p[i]
  BY DEF Holds
<1>3. /\ Header(f).tag = p[1] /\ Header(f).size = p[2]
      /\ Header(f).code = p[3]
  BY <1>1, <1>2, CapacityAssumption DEF Header, Peek, HeaderSize
<1>4. Header(f).size = Len(p)
  BY <1>1, <1>3
<1>5. f.position = Len(p) /\ w = << >>
  <2>1. f.position >= Len(p)
    BY <1>4 DEF CanParse, GetLength
  <2>2. QED
    BY <1>1, <1>2, <2>1, EmptySeq
<1>6. Peek(f, Len(p)) = p
  <2>1. /\ Peek(f, Len(p)) \in Seq(Cell)
        /\ Len(Peek(f, Len(p))) = Len(p)
        /\ \A i \in 1 .. Len(p) :
             i <= Capacity => Peek(f, Len(p))[i] = f.buffer[i]
    BY <1>1, PeekType
  <2>2. \A i \in 1 .. Len(p) : Peek(f, Len(p))[i] = p[i]
    BY <1>1, <1>2, <1>5, <2>1, CapacityAssumption
  <2>3. QED
    BY <1>1, <2>1, <2>2, SeqEqual
<1>7. /\ ParsedPacket(f).raw = p
      /\ ParsedPacket(f).tag = p[1] /\ ParsedPacket(f).code = p[3]
      /\ ParsedPacket(f).data = SubSeq(p, HeaderSize + 1, Len(p))
  BY <1>3, <1>4, <1>6 DEF ParsedPacket
<1>8. Serialize(ParsedPacket(f)) = p
  <2> DEFINE data == SubSeq(p, 4, Len(p))
             head == <<p[1], 3 + Len(data), p[3]>>
  <2>1. /\ data \in Seq(Cell) /\ Len(data) = Len(p) - 3
        /\ \A i \in 1 .. Len(data) : data[i] = p[3 + i]
    <3>1. /\ Len(p) \in Int
          /\ \A i \in 4 .. Len(p) : p[i] \in Cell
      BY <1>1, ElementOfSeq
    <3>2. /\ data \in Seq(Cell)
          /\ Len(data) = IF 4 <= Len(p) THEN Len(p) - 4 + 1 ELSE 0
          /\ \A i \in 1 .. Len(p) - 4 + 1 : data[i] = p[4 + i - 1]
      BY <3>1, SubSeqProperties
    <3> HIDE DEF data
    <3>3. Len(data) = Len(p) - 3
      <4>1. Len(p) \in Nat /\ Len(p) >= 3
        BY <1>1 DEF HeaderSize
      <4>2. Len(data) = IF 4 <= Len(p) THEN Len(p) - 4 + 1 ELSE 0
        BY <3>2
      <4>3. CASE 4 <= Len(p)
        BY <4>1, <4>2, <4>3
      <4>4. CASE ~(4 <= Len(p))
        BY <4>1, <4>2, <4>4, SMTT(30)
      <4>5. QED
        BY <4>3, <4>4
    <3>4. ASSUME NEW i \in 1 .. Len(data) PROVE data[i] = p[3 + i]
      <4>1. i \in 1 .. Len(p) - 4 + 1 /\ 4 + i - 1 = 3 + i
        BY <1>1, <3>3
      <4>2. data[i] = p[4 + i - 1]
        BY <3>2, <4>1
      <4>3. QED
        BY <4>1, <4>2
    <3>5. QED
      BY <3>2, <3>3, <3>4
  <2> HIDE DEF data
  <2>2. /\ p[1] \in Cell /\ p[2] \in Cell /\ p[3] \in Cell
        /\ p[2] = 3 + Len(data)
    BY <1>1, <2>1, ElementOfSeq DEF HeaderSize
  <2>3. head \in Seq(Cell) /\ Len(head) = 3
        /\ head[1] = p[1] /\ head[2] = p[2] /\ head[3] = p[3]
    BY <2>2
  <2> HIDE DEF head
  <2>4. /\ head \o data \in Seq(Cell)
        /\ Len(head \o data) = Len(p)
        /\ \A i \in 1 .. Len(p) :
             (head \o data)[i] = IF i <= Len(head) THEN head[i]
                                 ELSE data[i - Len(head)]
    <3>1. Len(head) + Len(data) = Len(p)
      BY <1>1, <2>1, <2>3
    <3>2. /\ head \o data \in Seq(Cell)
          /\ Len(head \o data) = Len(head) + Len(data)
          /\ \A i \in 1 .. Len(head) + Len(data) :
               (head \o data)[i] = IF i <= Len(head) THEN head[i]
                                   ELSE data[i - Len(head)]
      <4>1. head \in Seq(Cell) /\ data \in Seq(Cell)
        BY <2>1, <2>3
      <4>2. QED
        BY <4>1, ConcatProperties
    <3>3. QED
      BY <3>1, <3>2
  <2>5. ASSUME NEW i \in 1 .. Len(p)
        PROVE  (head \o data)[i] = p[i]
    <3>1. CASE i <= 3
      BY <2>3, <2>4, <3>1
    <3>2. CASE ~(i <= 3)
      <4>1. i - 3 \in 1 .. Len(data) /\ 3 + (i - 3) = i
        BY <1>1, <2>1, <3>2
      <4>2. (head \o data)[i] = data[i - 3]
        BY <2>3, <2>4, <3>2
      <4>3. QED
        BY <2>1, <4>1, <4>2
    <3>3. QED
      BY <3>1, <3>2
  <2>6. head \o data = p
    BY <1>1, <2>4, <2>5, SeqEqual
  <2>7. ParsedPacket(f).data = data
    BY <1>7 DEF HeaderSize, data
  <2>8. QED
    BY <1>7, <2>6, <2>7 DEF Serialize, HeaderSize, head
<1>9. AfterParse(f).position = 0
  BY <1>1, <1>4, <1>5, PopType DEF AfterParse
<1>10. QED
  BY <1>5, <1>7, <1>8, <1>9

-----------------------------------------------------------------------------
(* Streams of packets. *)

\* Induction over the natural numbers, for a set and so without an operator
\* for a parameter: a smallest number outside the set is 0 or a successor.
LEMMA NatSubset ==
  ASSUME NEW S, 0 \in S, \A n \in Nat : n \in S => n + 1 \in S
  PROVE  \A n \in Nat : n \in S
<1> DEFINE T == Nat \ S
           R == OpToRel(<, Nat)
<1>1. IsWellFoundedOn(R, Nat)
  BY NatLessThanWellFounded
<1>2. \A n \in Nat : <<n, n + 1>> \in R
  BY DEF OpToRel
<1> HIDE DEF R
<1>3. SUFFICES ASSUME T # {} PROVE FALSE
  OBVIOUS
<1>4. T \subseteq Nat
  OBVIOUS
<1>5. PICK x \in T : \A y \in T : ~(<<y, x>> \in R)
  BY <1>1, <1>3, <1>4, WFMin
<1>6. x \in Nat /\ x # 0 /\ x - 1 \in Nat /\ x = (x - 1) + 1
  BY <1>5
<1>7. x - 1 \in T
  BY <1>5, <1>6
<1>8. QED
  BY <1>2, <1>5, <1>6, <1>7

\* f is the function FlattenSeq defines by recursion: f[i] joins the first i
\* members of seqs.
Joined(seqs, n, f) ==
  f = [i \in 1 .. n |-> IF i = 1 THEN seqs[i] ELSE f[i - 1] \o seqs[i]]

\* Such a function there is for every length.
LEMMA JoinedExists ==
  ASSUME NEW seqs
  PROVE  \A n \in Nat : \E f : Joined(seqs, n, f)
<1> DEFINE S == {n \in Nat : \E f : Joined(seqs, n, f)}
<1>1. 0 \in S
  <2>1. Joined(seqs, 0, [i \in 1 .. 0 |-> 0])
    BY DEF Joined
  <2>2. QED
    BY <2>1
<1>2. ASSUME NEW n \in Nat, n \in S PROVE n + 1 \in S
  <2>1. PICK f : Joined(seqs, n, f)
    BY <1>2
  <2> DEFINE last == IF n = 0 THEN seqs[1] ELSE f[n] \o seqs[n + 1]
             g == [i \in 1 .. n + 1 |-> IF i <= n THEN f[i] ELSE last]
  <2>2. ASSUME NEW i \in 1 .. n + 1
        PROVE  g[i] = IF i = 1 THEN seqs[i] ELSE g[i - 1] \o seqs[i]
    <3>1. CASE i <= n
      <4>1. f[i] = IF i = 1 THEN seqs[i] ELSE f[i - 1] \o seqs[i]
        <5>1. i \in 1 .. n
          BY <3>1
        <5>2. QED
          BY <2>1, <5>1 DEF Joined
      <4>2. g[i] = f[i] /\ (i # 1 => g[i - 1] = f[i - 1])
        BY <3>1
      <4>3. QED
        BY <4>1, <4>2
    <3>2. CASE i = n + 1
      <4>1. g[i] = last
        BY <3>2
      <4>2. CASE n = 0
        BY <3>2, <4>1, <4>2
      <4>3. CASE n # 0
        <5>1. g[n] = f[n]
          BY <4>3
        <5>2. i # 1 /\ i - 1 = n
          BY <3>2, <4>3
        <5>3. QED
          BY <3>2, <4>1, <4>3, <5>1, <5>2
      <4>4. QED
        BY <4>2, <4>3
    <3>3. QED
      BY <3>1, <3>2
  <2>3. g = [i \in 1 .. n + 1 |-> g[i]]
    OBVIOUS
  <2> HIDE DEF g
  <2>4. Joined(seqs, n + 1, g)
    BY <2>2, <2>3 DEF Joined
  <2>5. QED
    BY <2>4
<1>3. \A n \in Nat : n \in S
  BY <1>1, <1>2, NatSubset
<1>4. QED
  BY <1>3

\* Two of them agree as far as their sequences do.
LEMMA JoinedAgree ==
  ASSUME NEW r, NEW s, NEW f, NEW g, NEW n \in Nat, NEW m \in Nat, n <= m,
         Joined(r, n, f), Joined(s, m, g), \A i \in 1 .. n : r[i] = s[i]
  PROVE  \A i \in 1 .. n : f[i] = g[i]
<1> DEFINE S == {i \in Nat : i \in 1 .. n => f[i] = g[i]}
<1>1. 0 \in S
  OBVIOUS
<1>2. ASSUME NEW i \in Nat, i \in S PROVE i + 1 \in S
  <2>1. SUFFICES ASSUME i + 1 \in 1 .. n PROVE f[i + 1] = g[i + 1]
    OBVIOUS
  <2>2. i + 1 \in 1 .. m
    BY <2>1
  <2> DEFINE j == i + 1
  <2>3. f[j] = IF j = 1 THEN r[j] ELSE f[j - 1] \o r[j]
    BY <2>1 DEF Joined
  <2>4. g[j] = IF j = 1 THEN s[j] ELSE g[j - 1] \o s[j]
    BY <2>2 DEF Joined
  <2>5. r[j] = s[j] /\ j - 1 = i
    BY <2>1
  <2>6. j # 1 => f[i] = g[i]
    BY <1>2, <2>1
  <2>7. QED
    BY <2>3, <2>4, <2>5, <2>6
<1>3. \A i \in Nat : i \in S
  BY <1>1, <1>2, NatSubset
<1>4. QED
  BY <1>3

\* Its values are sequences over what the joined sequences are over.
LEMMA JoinedType ==
  ASSUME NEW D, NEW seqs \in Seq(Seq(D)), NEW f, Joined(seqs, Len(seqs), f)
  PROVE  \A i \in 1 .. Len(seqs) : f[i] \in Seq(D)
<1> DEFINE n == Len(seqs)
           S == {i \in Nat : i \in 1 .. n => f[i] \in Seq(D)}
<1>1. n \in Nat /\ \A i \in 1 .. n : seqs[i] \in Seq(D)
  BY ElementOfSeq, LenProperties
<1> HIDE DEF n
<1>2. ASSUME NEW i \in Nat, i \in S PROVE i + 1 \in S
  <2>1. SUFFICES ASSUME i + 1 \in 1 .. n PROVE f[i + 1] \in Seq(D)
    OBVIOUS
  <2> DEFINE j == i + 1
  <2>2. f[j] = IF j = 1 THEN seqs[j] ELSE f[j - 1] \o seqs[j]
    BY <2>1 DEF Joined, n
  <2>3. seqs[j] \in Seq(D) /\ j - 1 = i
    BY <1>1, <2>1
  <2>4. CASE j = 1
    BY <2>2, <2>3, <2>4
  <2>5. CASE j # 1
    <3>1. f[i] \in Seq(D)
      BY <1>1, <1>2, <2>1, <2>5
    <3>2. QED
      BY <2>2, <2>3, <2>5, <3>1, ConcatProperties
  <2>6. QED
    BY <2>4, <2>5
<1>3. 0 \in S
  OBVIOUS
<1>4. \A i \in Nat : i \in S
  BY <1>2, <1>3, NatSubset
<1>5. QED
  BY <1>1, <1>4 DEF n

\* So FlattenSeq, which chooses one, is the value of any.
LEMMA FlattenIsJoined ==
  ASSUME NEW D, NEW seqs \in Seq(D), Len(seqs) # 0
  PROVE  \E f : Joined(seqs, Len(seqs), f) /\ FlattenSeq(seqs) = f[Len(seqs)]
<1> DEFINE f == CHOOSE f : Joined(seqs, Len(seqs), f)
<1>1. Joined(seqs, Len(seqs), f)
  BY JoinedExists, LenProperties
<1>2. FlattenSeq(seqs) = f[Len(seqs)]
  BY DEF FlattenSeq, Joined
<1>3. QED
  BY <1>1, <1>2

\* What a further packet adds to a stream of packets.
LEMMA FlattenAppend ==
  ASSUME NEW D, NEW seqs \in Seq(Seq(D)), NEW x \in Seq(D)
  PROVE  /\ FlattenSeq(seqs) \in Seq(D)
         /\ FlattenSeq(Append(seqs, x)) = FlattenSeq(seqs) \o x
<1> DEFINE n == Len(seqs)
           more == Append(seqs, x)
<1>1. /\ n \in Nat
      /\ more \in Seq(Seq(D)) /\ Len(more) = n + 1 /\ more[n + 1] = x
      /\ \A i \in 1 .. n : seqs[i] = more[i]
  BY AppendProperties, LenProperties
<1> HIDE DEF n, more
<1>2. PICK g : Joined(more, n + 1, g) /\ FlattenSeq(more) = g[n + 1]
  BY <1>1, FlattenIsJoined
<1>3. CASE n = 0
  <2>1. seqs = << >>
    BY <1>3, EmptySeq DEF n
  <2>2. FlattenSeq(seqs) = << >>
    BY <2>1 DEF FlattenSeq
  <2>3. g[1] = x
    BY <1>1, <1>2, <1>3 DEF Joined
  <2>4. QED
    BY <1>2, <1>3, <2>2, <2>3, ConcatEmptySeq DEF more
<1>4. CASE n # 0
  <2>1. PICK f : Joined(seqs, n, f) /\ FlattenSeq(seqs) = f[n]
    BY <1>4, FlattenIsJoined DEF n
  <2>2. f[n] = g[n]
    <3>1. n + 1 \in Nat /\ n <= n + 1 /\ n \in 1 .. n
      BY <1>1, <1>4
    <3>2. Joined(seqs, n, f) /\ Joined(more, n + 1, g) /\ n \in Nat
      BY <1>1, <1>2, <2>1
    <3>3. \A i \in 1 .. n : seqs[i] = more[i]
      BY <1>1
    <3>4. \A i \in 1 .. n : f[i] = g[i]
      BY <3>1, <3>2, <3>3, JoinedAgree
    <3>5. QED
      BY <3>1, <3>4
  <2>3. f[n] \in Seq(D)
    BY <1>1, <1>4, <2>1, JoinedType DEF n
  <2>4. g[n + 1] = g[n] \o x
    <3>1. n + 1 \in 1 .. n + 1 /\ n + 1 # 1 /\ (n + 1) - 1 = n
      BY <1>1, <1>4
    <3>2. g[n + 1] = IF n + 1 = 1 THEN more[n + 1]
                     ELSE g[(n + 1) - 1] \o more[n + 1]
      BY <1>2, <3>1 DEF Joined
    <3>3. QED
      BY <1>1, <3>1, <3>2
  <2>5. QED
    BY <1>2, <2>1, <2>2, <2>3, <2>4 DEF more
<1>5. QED
  BY <1>3, <1>4

=============================================================================
