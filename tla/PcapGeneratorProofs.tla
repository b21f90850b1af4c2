------------------------ MODULE PcapGeneratorProofs ------------------------
(***************************************************************************)
(* Proofs about the capture file: for any packets, any number of them and  *)
(* any size of the stream's buffer, its chunks stand in the order of the   *)
(* writes, and a reader of the file gets back every packet that is there;  *)
(* and what the checksums of its headers are worth.                        *)
(*                                                                         *)
(* The proofs come in four parts: the order of the chunks in the stream;   *)
(* what the functions that are defined by recursion compute, which takes   *)
(* induction; what bytes a packet and its record consist of, and what is   *)
(* read from them; and the theorems.                                       *)
(***************************************************************************)
EXTENDS PcapGenerator, SequenceTheorems, WellFoundedInduction, TLAPS

\* The chunk at a place of the stream, counted from the beginning of the file.
ChunkAt(i) ==
  IF i = 1 THEN Header
  ELSE [part   |-> IF i % 2 = 0 THEN "record" ELSE "datagram",
        packet |-> written[i \div 2]]

(***************************************************************************)
(* What InWriteOrder rests on: the file and what waits behind it are one   *)
(* stream, which ends with the last packet that is not queued, and the     *)
(* queue holds the packets written after that one.                         *)
(***************************************************************************)
TypeInv ==
  /\ written \in Seq(Packets) /\ queue \in Seq(Packets)
  /\ readable \in Seq(Chunk) /\ file \in Seq(Chunk)
  /\ withheld \in BOOLEAN
  /\ ~withheld => queue = << >>

CountInv ==
  /\ Len(file) \in Nat /\ Len(readable) \in Nat
  /\ Len(queue) \in Nat /\ Len(written) \in Nat
  /\ Len(queue) <= Len(written)
  /\ Len(file) + Len(readable) = 1 + 2 * (Len(written) - Len(queue))

FileInv == \A i \in 1 .. Len(file) : file[i] = ChunkAt(i)

ReadableInv ==
  \A i \in 1 .. Len(readable) : readable[i] = ChunkAt(Len(file) + i)

QueueInv ==
  \A i \in 1 .. Len(queue) :
    queue[i] = written[Len(written) - Len(queue) + i]

StreamInv == TypeInv /\ CountInv /\ FileInv /\ ReadableInv /\ QueueInv

-----------------------------------------------------------------------------

\* The chunks of packets are two for each.
LEMMA RecordsType ==
  ASSUME NEW packets \in Seq(Packets)
  PROVE  /\ Records(packets) \in Seq(Chunk)
         /\ Len(Records(packets)) = 2 * Len(packets)
         /\ \A i \in 1 .. 2 * Len(packets) :
              Records(packets)[i] =
                [part   |-> IF i % 2 = 1 THEN "record" ELSE "datagram",
                 packet |-> packets[(i + 1) \div 2]]
<1>1. \A i \in 1 .. 2 * Len(packets) : (i + 1) \div 2 \in 1 .. Len(packets)
  OBVIOUS
<1>2. \A i \in 1 .. 2 * Len(packets) : packets[(i + 1) \div 2] \in Packets
  BY <1>1
<1>3. \A i \in 1 .. 2 * Len(packets) :
        [part   |-> IF i % 2 = 1 THEN "record" ELSE "datagram",
         packet |-> packets[(i + 1) \div 2]] \in Chunk
  BY <1>2 DEF Chunk
<1>4. QED
  BY <1>3 DEF Records

\* The elements of a concatenation.
LEMMA ConcatElements ==
  ASSUME NEW S, NEW s \in Seq(S), NEW t \in Seq(S)
  PROVE  /\ s \o t \in Seq(S)
         /\ Len(s \o t) = Len(s) + Len(t)
         /\ \A i \in 1 .. Len(s) : (s \o t)[i] = s[i]
         /\ \A i \in Len(s) + 1 .. Len(s) + Len(t) :
              (s \o t)[i] = t[i - Len(s)]
OBVIOUS

\* Where the chunks of a packet stand.
LEMMA Places ==
  ASSUME NEW done \in Nat, NEW n \in Nat, NEW i \in 1 .. 2 * n
  PROVE  /\ (1 + 2 * done + i) \div 2 = done + (i + 1) \div 2
         /\ (1 + 2 * done + i) % 2 = 0 <=> i % 2 = 1
         /\ (i + 1) \div 2 \in 1 .. n
OBVIOUS

\* Growing the history changes nothing about the stream there is.
LEMMA HistoryGrows ==
  ASSUME written \in Seq(Packets), NEW p \in Packets,
         written' = Append(written, p)
  PROVE  /\ \A i \in 1 .. 1 + 2 * Len(written) : ChunkAt(i)' = ChunkAt(i)
         /\ Len(written') = Len(written) + 1
         /\ written' \in Seq(Packets)
         /\ \A i \in 1 .. Len(written) : written'[i] = written[i]
         /\ written'[Len(written) + 1] = p
<1>1. \A i \in 1 .. Len(written) : written'[i] = written[i]
  OBVIOUS
<1>2. \A i \in 1 .. 1 + 2 * Len(written) :
        i # 1 => i \div 2 \in 1 .. Len(written)
  OBVIOUS
<1>3. QED
  BY <1>1, <1>2 DEF ChunkAt

(***************************************************************************)
(* The chunks of the first n queued packets continue the stream behind     *)
(* what waits, and the rest of the queue still comes after them.           *)
(***************************************************************************)
LEMMA RefillContinues ==
  ASSUME StreamInv, NEW n \in 0 .. Len(queue)
  PROVE  /\ Refilled(n) \in Seq(Chunk)
         /\ Len(Refilled(n)) = Len(readable) + 2 * n
         /\ \A i \in 1 .. Len(readable) + 2 * n :
              Refilled(n)[i] = ChunkAt(Len(file) + i)
<1> DEFINE first == SubSeq(queue, 1, n)
<1>1. /\ first \in Seq(Packets)
      /\ Len(first) = n
      /\ \A i \in 1 .. n : first[i] = queue[i]
  BY DEF StreamInv, TypeInv
<1> HIDE DEF first
<1>2. /\ Records(first) \in Seq(Chunk)
      /\ Len(Records(first)) = 2 * n
      /\ \A i \in 1 .. 2 * n :
           Records(first)[i] =
             [part   |-> IF i % 2 = 1 THEN "record" ELSE "datagram",
              packet |-> first[(i + 1) \div 2]]
  BY <1>1, RecordsType
<1>3. n \in Nat /\ n <= Len(queue) /\ CountInv
  BY DEF StreamInv, CountInv
<1>4. ASSUME NEW i \in 1 .. 2 * n
      PROVE  Records(first)[i] = ChunkAt(Len(file) + Len(readable) + i)
  <2> DEFINE done  == Len(written) - Len(queue)
             place == 1 + 2 * done + i
             j     == (i + 1) \div 2
  <2>1. done \in Nat /\ Len(file) + Len(readable) + i = place
    BY <1>3 DEF CountInv
  <2>2. /\ place \div 2 = done + j
        /\ place % 2 = 0 <=> i % 2 = 1
        /\ j \in 1 .. n
        /\ place # 1
    BY <1>3, <2>1, Places
  <2>3. first[j] = written[done + j]
    <3>1. j \in 1 .. Len(queue)
      BY <1>3, <2>2 DEF CountInv
    <3>2. queue[j] = written[done + j]
      BY <3>1 DEF StreamInv, QueueInv
    <3>3. QED
      BY <1>1, <2>2, <3>2
  <2> HIDE DEF place, j, done
  <2>4. Records(first)[i] =
          [part |-> IF i % 2 = 1 THEN "record" ELSE "datagram",
           packet |-> first[j]]
    BY <1>2 DEF j
  <2>5. ChunkAt(place) =
          [part |-> IF place % 2 = 0 THEN "record" ELSE "datagram",
           packet |-> written[place \div 2]]
    BY <2>2 DEF ChunkAt
  <2>6. QED
    BY <2>1, <2>2, <2>3, <2>4, <2>5
<1>5. /\ Refilled(n) \in Seq(Chunk)
      /\ Len(Refilled(n)) = Len(readable) + 2 * n
      /\ \A i \in 1 .. Len(readable) : Refilled(n)[i] = readable[i]
      /\ \A i \in Len(readable) + 1 .. Len(readable) + 2 * n :
           Refilled(n)[i] = Records(first)[i - Len(readable)]
  <2>1. readable \in Seq(Chunk)
    BY DEF StreamInv, TypeInv
  <2>2. Refilled(n) = readable \o Records(first)
    BY DEF Refilled, first
  <2>3. QED
    BY <1>2, <2>1, <2>2, ConcatElements
<1>6. ASSUME NEW i \in 1 .. Len(readable) + 2 * n
      PROVE  Refilled(n)[i] = ChunkAt(Len(file) + i)
  <2>1. CASE i \in 1 .. Len(readable)
    BY <1>5, <2>1 DEF StreamInv, ReadableInv
  <2>2. CASE i \in Len(readable) + 1 .. Len(readable) + 2 * n
    <3> DEFINE j == i - Len(readable)
    <3>1. j \in 1 .. 2 * n /\ Len(file) + Len(readable) + j = Len(file) + i
      BY <1>3, <2>2 DEF CountInv
    <3>2. QED
      BY <1>4, <1>5, <2>2, <3>1
  <2>3. QED
    BY <1>3, <2>1, <2>2 DEF CountInv
<1>7. QED
  BY <1>5, <1>6

-----------------------------------------------------------------------------

\* write() puts the packet where the stream, or else the queue, ends.
LEMMA WriteKeepsInv ==
  ASSUME StreamInv, NEW p \in Packets, Write(p)
  PROVE  StreamInv'
<1>1. TypeInv /\ CountInv /\ FileInv /\ ReadableInv /\ QueueInv
  BY DEF StreamInv
<1>2. /\ \A i \in 1 .. 1 + 2 * Len(written) : ChunkAt(i)' = ChunkAt(i)
      /\ Len(written') = Len(written) + 1
      /\ written' \in Seq(Packets)
      /\ \A i \in 1 .. Len(written) : written'[i] = written[i]
      /\ written'[Len(written) + 1] = p
      /\ UNCHANGED file
  BY <1>1, HistoryGrows DEF TypeInv, Write
<1>3. FileInv'
  BY <1>1, <1>2 DEF FileInv, CountInv
<1>4. CASE withheld
  <2>1. UNCHANGED <<readable, withheld>> /\ queue' = Append(queue, p)
    BY <1>4 DEF Write
  <2>2. /\ queue' \in Seq(Packets)
        /\ Len(queue') = Len(queue) + 1
        /\ \A i \in 1 .. Len(queue) : queue'[i] = queue[i]
        /\ queue'[Len(queue) + 1] = p
    BY <1>1, <2>1 DEF TypeInv
  <2>3. TypeInv' /\ CountInv'
    BY <1>1, <1>2, <1>4, <2>1, <2>2 DEF TypeInv, CountInv
  <2>4. ReadableInv'
    BY <1>1, <1>2, <2>1 DEF ReadableInv, CountInv
  <2>5. ASSUME NEW i \in 1 .. Len(queue')
        PROVE  queue'[i] = written'[Len(written') - Len(queue') + i]
    <3>1. Len(written') - Len(queue') = Len(written) - Len(queue)
      BY <1>1, <1>2, <2>2 DEF CountInv
    <3>2. CASE i \in 1 .. Len(queue)
      <4>1. Len(written) - Len(queue) + i \in 1 .. Len(written)
        BY <1>1, <3>2 DEF CountInv
      <4>2. QED
        BY <1>1, <1>2, <2>2, <3>1, <3>2, <4>1 DEF QueueInv
    <3>3. CASE i = Len(queue) + 1
      BY <1>1, <1>2, <2>2, <3>1, <3>3 DEF CountInv
    <3>4. QED
      BY <1>1, <2>2, <3>2, <3>3 DEF CountInv
  <2>6. QED
    BY <1>3, <2>3, <2>4, <2>5 DEF StreamInv, QueueInv
<1>5. CASE ~withheld
  <2>1. queue = << >> /\ queue' = queue
    BY <1>1, <1>5 DEF Write, TypeInv
  <2>2. readable' = readable \o Records(<<p>>)
    BY <1>5 DEF Write
  <2>3. withheld' \in BOOLEAN
    BY <1>5 DEF Write
  <2>4. /\ <<p>> \in Seq(Packets)
        /\ Len(<<p>>) = 1
        /\ <<p>>[1] = p
    OBVIOUS
  <2>5. /\ Records(<<p>>) \in Seq(Chunk)
        /\ Len(Records(<<p>>)) = 2
        /\ \A i \in 1 .. 2 :
             Records(<<p>>)[i] =
               [part   |-> IF i % 2 = 1 THEN "record" ELSE "datagram",
                packet |-> <<p>>[(i + 1) \div 2]]
    BY <2>4, RecordsType, 2 * 1 = 2
  <2>6. /\ readable' \in Seq(Chunk)
        /\ Len(readable') = Len(readable) + 2
        /\ \A i \in 1 .. Len(readable) : readable'[i] = readable[i]
        /\ \A i \in Len(readable) + 1 .. Len(readable) + 2 :
             readable'[i] = Records(<<p>>)[i - Len(readable)]
    <3>1. readable \in Seq(Chunk)
      BY <1>1 DEF TypeInv
    <3> DEFINE new == Records(<<p>>)
    <3>2. /\ new \in Seq(Chunk)
          /\ Len(new) = 2
          /\ readable' = readable \o new
      BY <2>2, <2>5
    <3> HIDE DEF new
    <3>3. /\ readable' \in Seq(Chunk)
          /\ Len(readable') = Len(readable) + Len(new)
          /\ \A i \in 1 .. Len(readable) : readable'[i] = readable[i]
          /\ \A i \in Len(readable) + 1 .. Len(readable) + Len(new) :
               readable'[i] = new[i - Len(readable)]
      BY <3>1, <3>2, ConcatElements, Zenon
    <3>4. QED
      BY <3>2, <3>3 DEF new
  <2>7. /\ Len(queue) = 0
        /\ Len(file) + Len(readable) = 1 + 2 * Len(written)
    BY <1>1, <2>1 DEF CountInv
  <2>8. TypeInv' /\ CountInv' /\ QueueInv'
    <3>1. TypeInv'
      BY <1>1, <1>2, <2>1, <2>3, <2>6 DEF TypeInv
    <3>2. CountInv'
      <4>1. /\ Len(queue') = 0
            /\ Len(file') = Len(file)
            /\ Len(written') = Len(written) + 1
            /\ Len(readable') = Len(readable) + 2
        BY <1>2, <2>1, <2>6, <2>7
      <4>2. /\ Len(file) \in Nat /\ Len(readable) \in Nat
            /\ Len(written) \in Nat
        BY <1>1 DEF CountInv
      <4>3. QED
        BY <2>7, <4>1, <4>2 DEF CountInv
    <3>3. QueueInv'
      BY <2>1, <2>7 DEF QueueInv
    <3>4. QED
      BY <3>1, <3>2, <3>3
  <2>9. ASSUME NEW i \in 1 .. Len(readable) + 2
        PROVE  readable'[i] = ChunkAt(Len(file) + i)'
    <3>1. CASE i \in 1 .. Len(readable)
      <4>1. Len(file) + i \in 1 .. 1 + 2 * Len(written)
        BY <1>1, <2>7, <3>1 DEF CountInv
      <4>2. QED
        BY <1>1, <1>2, <2>6, <3>1, <4>1 DEF ReadableInv
    <3>2. CASE i \in Len(readable) + 1 .. Len(readable) + 2
      <4> DEFINE j     == i - Len(readable)
                 place == 1 + 2 * Len(written) + j
      <4>1. j \in 1 .. 2 /\ Len(file) + i = place
        BY <1>1, <2>7, <3>2 DEF CountInv
      <4>2. /\ (j + 1) \div 2 = 1
            /\ place \div 2 = Len(written) + 1
            /\ place # 1
            /\ place % 2 = 0 <=> j % 2 = 1
        BY <1>1, <4>1, SMTT(30) DEF CountInv
      <4> HIDE DEF j, place
      <4>3. readable'[i] = [part |-> IF j % 2 = 1 THEN "record" ELSE "datagram",
                            packet |-> p]
        BY <2>4, <2>5, <2>6, <3>2, <4>1, <4>2 DEF j
      <4>4. ChunkAt(Len(file) + i)' =
              [part |-> IF place % 2 = 0 THEN "record" ELSE "datagram",
               packet |-> written'[Len(written) + 1]]
        BY <1>2, <4>1, <4>2 DEF ChunkAt
      <4>5. QED
        BY <1>2, <4>1, <4>2, <4>3, <4>4
    <3>3. QED
      BY <1>1, <3>1, <3>2 DEF CountInv
  <2>10. ReadableInv'
    BY <1>2, <2>6, <2>9 DEF ReadableInv
  <2>11. QED
    BY <1>3, <2>8, <2>10 DEF StreamInv
<1>6. QED
  BY <1>1, <1>4, <1>5 DEF TypeInv

\* What the pipe takes moves from the front of the one to the end of the
\* other, and the queue moves up behind it.
LEMMA PipeKeepsInv ==
  ASSUME StreamInv, Pipe
  PROVE  StreamInv'
<1>1. TypeInv /\ CountInv /\ FileInv /\ ReadableInv /\ QueueInv
  BY DEF StreamInv
<1>2. /\ written' = written
      /\ readable # << >>
      /\ file' = Append(file, Head(readable))
  BY DEF Pipe
<1>3. PICK n \in 0 .. Len(queue) :
        /\ readable' = Tail(Refilled(n))
        /\ queue' = SubSeq(queue, n + 1, Len(queue))
        /\ withheld' \in BOOLEAN
        /\ ~withheld' => queue' = << >>
  <2>1. CASE withheld /\ Size(Tail(readable)) < HighWater
    <3>1. PICK n \in 0 .. Len(queue) :
            /\ Transforms(n)
            /\ readable' = Tail(Refilled(n))
            /\ queue' = SubSeq(queue, n + 1, Len(queue))
            /\ withheld' = (n > 0 /\ Size(Refilled(n)) >= HighWater)
      BY <2>1 DEF Pipe
    <3>2. ASSUME ~withheld' PROVE queue' = << >>
      <4>1. n = Len(queue)
        BY <3>1, <3>2 DEF Transforms
      <4>2. QED
        BY <1>1, <3>1, <4>1 DEF TypeInv
    <3>3. QED
      BY <3>1, <3>2
  <2>2. CASE ~(withheld /\ Size(Tail(readable)) < HighWater)
    <3>1. readable' = Tail(readable) /\ UNCHANGED <<queue, withheld>>
      BY <2>2 DEF Pipe
    <3>2. Refilled(0) = readable
      <4>1. SubSeq(queue, 1, 0) = << >>
        BY <1>1 DEF TypeInv
      <4>2. Records(<< >>) = << >>
        BY DEF Records
      <4>3. Refilled(0) = readable \o << >>
        BY <4>1, <4>2 DEF Refilled
      <4>4. QED
        BY <1>1, <4>3, ConcatEmptySeq DEF TypeInv
    <3>3. queue = SubSeq(queue, 0 + 1, Len(queue))
      BY <1>1 DEF TypeInv
    <3>4. 0 \in 0 .. Len(queue)
      BY <1>1 DEF CountInv
    <3>5. withheld' \in BOOLEAN /\ (~withheld' => queue' = << >>)
      BY <1>1, <3>1 DEF TypeInv
    <3>6. QED
      BY <3>1, <3>2, <3>3, <3>4, <3>5
  <2>3. QED
    BY <2>1, <2>2
<1> DEFINE filled == Refilled(n)
<1>4. /\ filled \in Seq(Chunk)
      /\ Len(filled) = Len(readable) + 2 * n
      /\ \A i \in 1 .. Len(readable) + 2 * n :
           filled[i] = ChunkAt(Len(file) + i)
  BY RefillContinues
<1>5. readable' = Tail(filled)
  BY <1>3
<1> HIDE DEF filled
<1>6. Len(readable) >= 1 /\ n \in Nat /\ Head(readable) = readable[1]
  BY <1>1, <1>2 DEF TypeInv, CountInv
<1>7. /\ readable' \in Seq(Chunk)
      /\ Len(readable') = Len(readable) + 2 * n - 1
      /\ \A i \in 1 .. Len(readable) + 2 * n - 1 :
           readable'[i] = filled[i + 1]
  <2>1. Len(filled) >= 1 /\ Len(filled) \in Nat
    BY <1>1, <1>4, <1>6 DEF CountInv
  <2>2. filled # << >>
    BY <2>1
  <2>3. /\ Tail(filled) \in Seq(Chunk)
        /\ Len(Tail(filled)) = Len(filled) - 1
        /\ \A i \in 1 .. Len(filled) - 1 : Tail(filled)[i] = filled[i + 1]
    BY <1>4, <2>1, <2>2
  <2>4. QED
    BY <1>4, <1>5, <2>3
<1>8. /\ file' \in Seq(Chunk)
      /\ Len(file') = Len(file) + 1
      /\ \A i \in 1 .. Len(file) : file'[i] = file[i]
      /\ file'[Len(file) + 1] = readable[1]
  <2>1. readable[1] \in Chunk /\ file \in Seq(Chunk)
    BY <1>1, <1>6 DEF TypeInv
  <2>2. QED
    BY <1>2, <1>6, <2>1
<1>9. /\ queue' \in Seq(Packets)
      /\ Len(queue') = Len(queue) - n
      /\ \A i \in 1 .. Len(queue) - n : queue'[i] = queue[n + i]
  BY <1>1, <1>3 DEF TypeInv
<1>10. TypeInv'
  BY <1>1, <1>2, <1>3, <1>7, <1>8, <1>9 DEF TypeInv
<1>11. CountInv'
  <2>1. Len(written') = Len(written)
    BY <1>2
  <2>2. n <= Len(queue)
    OBVIOUS
  <2>3. /\ Len(readable') = Len(readable) + 2 * n - 1
        /\ Len(file') = Len(file) + 1
        /\ Len(queue') = Len(queue) - n
    BY <1>7, <1>8, <1>9
  <2>4. /\ Len(file) \in Nat /\ Len(readable) \in Nat
        /\ Len(queue) \in Nat /\ Len(written) \in Nat
        /\ Len(queue) <= Len(written)
        /\ Len(file) + Len(readable) = 1 + 2 * (Len(written) - Len(queue))
    BY <1>1 DEF CountInv
  <2>5. QED
    BY <1>6, <2>1, <2>2, <2>3, <2>4, SMTT(30) DEF CountInv
<1>12. \A i \in Nat : ChunkAt(i)' = ChunkAt(i)
  BY <1>2 DEF ChunkAt
<1>13. FileInv'
  <2>1. file'[Len(file) + 1] = ChunkAt(Len(file) + 1)
    BY <1>1, <1>6, <1>8 DEF ReadableInv, CountInv
  <2>2. ASSUME NEW i \in 1 .. Len(file) + 1
        PROVE  file'[i] = ChunkAt(i)
    BY <1>1, <1>8, <2>1, <2>2 DEF FileInv, CountInv
  <2>3. QED
    BY <1>1, <1>8, <1>12, <2>2 DEF FileInv, CountInv
<1>14. ReadableInv'
  <2>1. ASSUME NEW i \in 1 .. Len(readable) + 2 * n - 1
        PROVE  readable'[i] = ChunkAt(Len(file) + 1 + i)
    <3>1. i + 1 \in 1 .. Len(readable) + 2 * n
      BY <1>1, <1>6 DEF CountInv
    <3>2. filled[i + 1] = ChunkAt(Len(file) + (i + 1))
      BY <1>4, <3>1
    <3>3. Len(file) + (i + 1) = Len(file) + 1 + i
      BY <1>1 DEF CountInv
    <3>4. QED
      BY <1>7, <3>2, <3>3
  <2>2. ASSUME NEW i \in 1 .. Len(readable')
        PROVE  readable'[i] = ChunkAt(Len(file) + i)'
    <3>1. ChunkAt(Len(file) + i)' = ChunkAt(Len(file) + 1 + i)
      BY <1>2, <1>8 DEF ChunkAt
    <3>2. i \in 1 .. Len(readable) + 2 * n - 1
      BY <1>7
    <3>3. QED
      BY <2>1, <3>1, <3>2
  <2>3. QED
    BY <2>2 DEF ReadableInv
<1>15. QueueInv'
  <2>1. ASSUME NEW i \in 1 .. Len(queue) - n
        PROVE  queue'[i] = written[Len(written) - (Len(queue) - n) + i]
    <3>1. n + i \in 1 .. Len(queue)
      BY <1>1, <1>6 DEF CountInv
    <3>2. queue[n + i] = written[Len(written) - Len(queue) + (n + i)]
      BY <1>1, <3>1 DEF QueueInv
    <3>3. Len(written) - Len(queue) + (n + i)
            = Len(written) - (Len(queue) - n) + i
      BY <1>1, <1>6 DEF CountInv
    <3>4. QED
      BY <1>9, <3>2, <3>3
  <2>2. QED
    BY <1>2, <1>9, <2>1 DEF QueueInv
<1>16. QED
  BY <1>10, <1>11, <1>13, <1>14, <1>15 DEF StreamInv

\* The stream is in order from the beginning.
LEMMA InOrderAtFirst == Init => StreamInv
<1> SUFFICES ASSUME Init PROVE StreamInv
  OBVIOUS
<1>1. /\ written = << >> /\ queue = << >> /\ file = << >>
      /\ readable = <<Header>> /\ withheld = FALSE
  BY DEF Init
<1>2. Header \in Chunk /\ ChunkAt(1) = Header
  BY DEF Chunk, ChunkAt
<1>3. TypeInv
  <2>1. /\ written \in Seq(Packets) /\ queue \in Seq(Packets)
        /\ file \in Seq(Chunk)
    BY <1>1
  <2>2. readable \in Seq(Chunk)
    BY <1>1, <1>2
  <2>3. QED
    BY <1>1, <2>1, <2>2 DEF TypeInv
<1>4. CountInv
  BY <1>1 DEF CountInv
<1>5. FileInv /\ QueueInv
  BY <1>1 DEF FileInv, QueueInv
<1>6. ReadableInv
  <2>1. /\ Len(readable) = 1 /\ Len(file) = 0
        /\ readable[1] = Header
    BY <1>1
  <2>2. \A i \in 1 .. 1 : readable[i] = ChunkAt(0 + i)
    BY <1>2, <2>1
  <2>3. QED
    BY <2>1, <2>2 DEF ReadableInv
<1>7. QED
  BY <1>3, <1>4, <1>5, <1>6 DEF StreamInv

\* No step puts it out of order.
LEMMA StaysInOrder == StreamInv /\ [Next]_vars => StreamInv'
<1> SUFFICES ASSUME StreamInv, [Next]_vars PROVE StreamInv'
  OBVIOUS
<1>1. CASE Pipe
  BY <1>1, PipeKeepsInv
<1>2. ASSUME NEW p \in Packets, Write(p) PROVE StreamInv'
  BY <1>2, WriteKeepsInv
<1>3. CASE UNCHANGED vars
  BY <1>3 DEF vars, StreamInv, TypeInv, CountInv, FileInv, ReadableInv,
              QueueInv, ChunkAt
<1>4. QED
  BY <1>1, <1>2, <1>3 DEF Next

\* So it is in order always.
LEMMA AlwaysInOrder == SafeSpec => []StreamInv
BY InOrderAtFirst, StaysInOrder, PTL DEF SafeSpec

\* Then what the file holds is in the order of the writes.
LEMMA FileInOrder == StreamInv => InWriteOrder
<1> SUFFICES ASSUME StreamInv PROVE InWriteOrder
  OBVIOUS
<1>1. CountInv /\ FileInv
  BY DEF StreamInv
<1>2. Len(file) > 0 => file[1] = Header
  <2>1. ChunkAt(1) = Header
    BY DEF ChunkAt
  <2>2. QED
    BY <1>1, <2>1 DEF FileInv, CountInv
<1>3. Len(file) <= 1 + 2 * Len(written)
  BY <1>1 DEF CountInv
<1>4. ASSUME NEW k \in 1 .. Len(written)
      PROVE  /\ ChunkAt(2 * k) = [part |-> "record", packet |-> written[k]]
             /\ ChunkAt(2 * k + 1)
                  = [part |-> "datagram", packet |-> written[k]]
  <2>1. /\ 2 * k # 1 /\ 2 * k + 1 # 1
        /\ (2 * k) \div 2 = k /\ (2 * k + 1) \div 2 = k
        /\ (2 * k) % 2 = 0 /\ (2 * k + 1) % 2 = 1
    OBVIOUS
  <2>2. QED
    BY <2>1 DEF ChunkAt
<1>5. ASSUME NEW k \in 1 .. Len(written)
      PROVE  /\ 2 * k <= Len(file) => file[2 * k] = ChunkAt(2 * k)
             /\ 2 * k + 1 <= Len(file) =>
                  file[2 * k + 1] = ChunkAt(2 * k + 1)
  BY <1>1 DEF FileInv, CountInv
<1>6. QED
  BY <1>2, <1>3, <1>4, <1>5 DEF InWriteOrder

(***************************************************************************)
(* However writes and the pipe interleave, whatever the packets are and    *)
(* however much may wait, the file holds the packets in the order of the   *)
(* writes, each behind its record's header (pcap-generator.ts:58-75).      *)
(***************************************************************************)
THEOREM FileInWriteOrder == SafeSpec => []InWriteOrder
BY AlwaysInOrder, FileInOrder, PTL

-----------------------------------------------------------------------------
(* Functions defined by recursion. *)

\* Induction over the natural numbers, for a set and so without an operator
\* for a parameter: a smallest number outside the set is 0 or a successor.
LEMMA NatSubset ==
  ASSUME NEW S, 0 \in S, \A n \in Nat : n \in S => n + 1 \in S
  PROVE  \A n \in Nat : n \in S
<1> DEFINE T == Nat \ S
           R == OpToRel(<, Nat)
<1>1. IsWellFoundedOn(R, Nat)
  BY NatLessThanWellFounded
<1>2. \A n \in Nat : <<n, n + 1>> \in R
  BY DEF OpToRel
<1> HIDE DEF R
<1>3. SUFFICES ASSUME T # {} PROVE FALSE
  OBVIOUS
<1>4. T \subseteq Nat
  OBVIOUS
<1>5. PICK x \in T : \A y \in T : ~(<<y, x>> \in R)
  BY <1>1, <1>3, <1>4, WFMin
<1>6. x \in Nat /\ x # 0 /\ x - 1 \in Nat /\ x = (x - 1) + 1
  BY <1>5
<1>7. x - 1 \in T
  BY <1>5, <1>6
<1>8. QED
  BY <1>2, <1>5, <1>6, <1>7

\* The first n values of the function that begins with a and goes on by step.
Steps(T, a, step, n, f) ==
  /\ f \in [0 .. n -> T]
  /\ f[0] = a
  /\ \A i \in 1 .. n : f[i] = step[i][f[i - 1]]

\* They can be computed for every n.
LEMMA StepsExist ==
  ASSUME NEW T, NEW a \in T, NEW step \in [Nat -> [T -> T]]
  PROVE  \A n \in Nat : \E f : Steps(T, a, step, n, f)
<1> DEFINE S == {n \in Nat : \E f : Steps(T, a, step, n, f)}
<1>1. 0 \in S
  <2> DEFINE f == [i \in 0 .. 0 |-> a]
  <2>1. Steps(T, a, step, 0, f)
    BY DEF Steps
  <2>2. QED
    BY <2>1
<1>2. ASSUME NEW n \in Nat, n \in S PROVE n + 1 \in S
  <2>1. PICK f : Steps(T, a, step, n, f)
    BY <1>2
  <2> DEFINE g == [i \in 0 .. n + 1 |->
                     IF i = n + 1 THEN step[n + 1][f[n]] ELSE f[i]]
  <2>2. /\ f \in [0 .. n -> T] /\ f[0] = a
        /\ \A i \in 1 .. n : f[i] = step[i][f[i - 1]]
    BY <2>1 DEF Steps
  <2>3. step[n + 1] \in [T -> T] /\ f[n] \in T
    BY <2>2
  <2>4. g \in [0 .. n + 1 -> T]
    <3>1. ASSUME NEW i \in 0 .. n + 1
          PROVE  (IF i = n + 1 THEN step[n + 1][f[n]] ELSE f[i]) \in T
      <4>1. i # n + 1 => i \in 0 .. n
        OBVIOUS
      <4>2. QED
        BY <2>2, <2>3, <4>1
    <3>2. QED
      BY <3>1
  <2>5. g[0] = a
    BY <2>2
  <2>6. ASSUME NEW i \in 1 .. n + 1 PROVE g[i] = step[i][g[i - 1]]
    <3>1. CASE i = n + 1
      <4>1. i - 1 = n /\ i - 1 # n + 1 /\ i - 1 \in 0 .. n + 1
        BY <3>1
      <4>2. g[i] = step[n + 1][f[n]]
        BY <3>1
      <4>3. g[i - 1] = f[n]
        BY <4>1
      <4>4. QED
        BY <3>1, <4>2, <4>3
    <3>2. CASE i # n + 1
      <4>1. /\ i \in 1 .. n /\ i \in 0 .. n + 1
            /\ i - 1 \in 0 .. n + 1 /\ i - 1 # n + 1
        BY <3>2
      <4>2. g[i] = f[i] /\ g[i - 1] = f[i - 1]
        BY <3>2, <4>1
      <4>3. QED
        BY <2>2, <4>1, <4>2
    <3>3. QED
      BY <3>1, <3>2
  <2> HIDE DEF g
  <2>7. Steps(T, a, step, n + 1, g)
    BY <2>4, <2>5, <2>6 DEF Steps
  <2>8. QED
    BY <2>7
<1>3. \A n \in Nat : n \in S
  BY <1>1, <1>2, NatSubset
<1>4. QED
  BY <1>3

\* They do not depend on how many are computed.
LEMMA StepsAgree ==
  ASSUME NEW T, NEW a \in T, NEW step, NEW n \in Nat, NEW m \in Nat, n <= m,
         NEW f, NEW g, Steps(T, a, step, n, f), Steps(T, a, step, m, g)
  PROVE  \A i \in 0 .. n : f[i] = g[i]
<1> DEFINE S == {i \in Nat : i \in 0 .. n => f[i] = g[i]}
<1>1. 0 \in S
  BY DEF Steps
<1>2. ASSUME NEW i \in Nat, i \in S PROVE i + 1 \in S
  <2>1. SUFFICES ASSUME i + 1 \in 0 .. n PROVE f[i + 1] = g[i + 1]
    OBVIOUS
  <2>2. /\ i + 1 \in 1 .. n /\ i + 1 \in 1 .. m
        /\ (i + 1) - 1 = i /\ i \in 0 .. n
    BY <2>1
  <2>3. f[i + 1] = step[i + 1][f[(i + 1) - 1]]
    BY <2>2 DEF Steps
  <2>4. g[i + 1] = step[i + 1][g[(i + 1) - 1]]
    BY <2>2 DEF Steps
  <2>5. QED
    BY <1>2, <2>2, <2>3, <2>4
<1>3. \A i \in Nat : i \in S
  BY <1>1, <1>2, NatSubset
<1>4. QED
  BY <1>3

\* The last of them stays where it is.
LEMMA StepAgrees ==
  ASSUME NEW T, NEW a \in T, NEW step, NEW n \in Nat
  PROVE  \A f, g : Steps(T, a, step, n, f) /\ Steps(T, a, step, n + 1, g)
           => f[n] = g[n]
<1>1. n + 1 \in Nat /\ n <= n + 1 /\ n \in 0 .. n
  OBVIOUS
<1> DEFINE m == n + 1
<1>2. m \in Nat /\ n <= m
  BY <1>1
<1> HIDE DEF m
<1>3. ASSUME NEW f, NEW g, Steps(T, a, step, n, f), Steps(T, a, step, m, g)
      PROVE  \A i \in 0 .. n : f[i] = g[i]
  BY <1>2, <1>3, StepsAgree
<1>4. QED
  BY <1>1, <1>3 DEF m

\* f is the function that begins with a and goes on by step.
Recursion(T, a, step, f) ==
  /\ f \in [Nat -> T]
  /\ f[0] = a
  /\ \A i \in Nat : f[i + 1] = step[i + 1][f[i]]

\* The i-th step goes on from one value to the next.
StepOf(T) == [Nat -> [T -> T]]

\* A function defined by recursion over the numbers there is.
LEMMA RecursionExists ==
  ASSUME NEW T, NEW a \in T, NEW step \in StepOf(T)
  PROVE  \E f : Recursion(T, a, step, f)
<1> DEFINE part(n) == CHOOSE f : Steps(T, a, step, n, f)
           f == [n \in Nat |-> part(n)[n]]
<1>1. ASSUME NEW n \in Nat PROVE Steps(T, a, step, n, part(n))
  BY StepsExist DEF StepOf
<1> HIDE DEF part
<1>2. f \in [Nat -> T]
  BY <1>1 DEF Steps
<1>3. f[0] = a
  BY <1>1 DEF Steps
<1>4. ASSUME NEW i \in Nat PROVE f[i + 1] = step[i + 1][f[i]]
  <2>1. /\ i + 1 \in Nat /\ i <= i + 1 /\ (i + 1) - 1 = i
        /\ i \in 0 .. i /\ i + 1 \in 1 .. i + 1
    OBVIOUS
  <2>2. Steps(T, a, step, i, part(i)) /\ Steps(T, a, step, i + 1, part(i + 1))
    BY <1>1, <2>1
  <2> HIDE DEF f
  <2>3. part(i)[i] = part(i + 1)[i]
    BY <2>1, <2>2, StepAgrees
  <2>4. part(i + 1)[i + 1] = step[i + 1][part(i + 1)[(i + 1) - 1]]
    BY <2>1, <2>2 DEF Steps
  <2>5. QED
    BY <2>1, <2>3, <2>4 DEF f
<1>5. QED
  BY <1>2, <1>3, <1>4 DEF Recursion

\* g is the function SumOfWords defines by recursion.
Summed(bytes, m, g) ==
  g = [i \in 0 .. m |-> IF i = 0 THEN 0
                        ELSE g[i - 1] + LittleEndian(bytes, i)]

\* The words of a buffer are numbers.
LEMMA LittleEndianType ==
  ASSUME NEW bytes \in Seq(Byte), NEW i \in 1 .. Len(bytes) \div 2
  PROVE  LittleEndian(bytes, i) \in Nat
<1>1. 2 * i - 1 \in 1 .. Len(bytes) /\ 2 * i \in 1 .. Len(bytes)
  OBVIOUS
<1>2. \A k \in 1 .. Len(bytes) : bytes[k] \in Nat
  <2>1. \A k \in 1 .. Len(bytes) : bytes[k] \in Byte
    BY ElementOfSeq
  <2>2. Byte \subseteq Nat
    BY DEF Byte
  <2>3. QED
    BY <2>1, <2>2
<1> DEFINE low == bytes[2 * i - 1]
           high == bytes[2 * i]
<1>3. low \in Nat /\ high \in Nat /\ LittleEndian(bytes, i) = low + 256 * high
  BY <1>1, <1>2 DEF LittleEndian
<1> HIDE DEF low, high
<1>4. QED
  BY <1>3

\* What SumOfWords adds up.
LEMMA SumOfWordsIs ==
  ASSUME NEW bytes \in Seq(Byte), NEW m \in Nat, m = Len(bytes) \div 2
  PROVE  \E g \in [0 .. m -> Nat] :
           /\ SumOfWords(bytes) = g[m]
           /\ g[0] = 0
           /\ \A i \in 1 .. m : g[i] = g[i - 1] + LittleEndian(bytes, i)
<1> DEFINE step == [i \in Nat |-> [v \in Nat |->
                     IF i \in 1 .. m THEN v + LittleEndian(bytes, i) ELSE v]]
<1>1. \A i \in 1 .. m : LittleEndian(bytes, i) \in Nat
  BY LittleEndianType
<1>2. step \in [Nat -> [Nat -> Nat]]
  <2>1. ASSUME NEW i \in Nat, NEW v \in Nat
        PROVE  (IF i \in 1 .. m THEN v + LittleEndian(bytes, i) ELSE v) \in Nat
    BY <1>1
  <2>2. QED
    BY <2>1
<1>3. \A i \in 1 .. m : \A v \in Nat :
        step[i][v] = v + LittleEndian(bytes, i)
  OBVIOUS
<1> HIDE DEF step
<1>4. PICK f \in [Nat -> Nat] :
        f[0] = 0 /\ \A i \in Nat : f[i + 1] = step[i + 1][f[i]]
  <2>1. 0 \in Nat
    OBVIOUS
  <2>2. step \in StepOf(Nat)
    BY <1>2 DEF StepOf
  <2>3. PICK f : Recursion(Nat, 0, step, f)
    BY <2>1, <2>2, RecursionExists
  <2>4. QED
    BY <2>3 DEF Recursion
<1>5. ASSUME NEW i \in 1 .. m
      PROVE  f[i] = f[i - 1] + LittleEndian(bytes, i)
  <2>1. i - 1 \in Nat /\ (i - 1) + 1 = i
    OBVIOUS
  <2>2. f[i] = step[i][f[i - 1]] /\ f[i - 1] \in Nat
    BY <1>4, <2>1
  <2>3. QED
    BY <1>3, <2>2
<1> DEFINE g == [i \in 0 .. m |-> f[i]]
           summed == CHOOSE sum : Summed(bytes, m, sum)
<1>6. g = [i \in 0 .. m |-> IF i = 0 THEN 0
                           ELSE g[i - 1] + LittleEndian(bytes, i)]
  <2>1. ASSUME NEW i \in 0 .. m
        PROVE  f[i] = IF i = 0 THEN 0
                      ELSE g[i - 1] + LittleEndian(bytes, i)
    <3>1. i # 0 => i \in 1 .. m /\ i - 1 \in 0 .. m
      OBVIOUS
    <3>2. i # 0 => g[i - 1] = f[i - 1]
      BY <3>1
    <3>3. QED
      BY <1>4, <1>5, <3>1, <3>2
  <2>2. QED
    BY <2>1
<1> HIDE DEF g
<1>7. Summed(bytes, m, g)
  BY <1>6 DEF Summed
<1>8. Summed(bytes, m, summed)
  BY <1>7
<1>9. SumOfWords(bytes) = summed[m]
  BY DEF SumOfWords, Summed
<1> HIDE DEF summed
<1>10. /\ summed = [i \in 0 .. m |-> summed[i]]
       /\ summed[0] = 0
       /\ \A i \in 1 .. m :
            summed[i] = summed[i - 1] + LittleEndian(bytes, i)
  <2>1. summed = [i \in 0 .. m |-> IF i = 0 THEN 0
                             ELSE summed[i - 1] + LittleEndian(bytes, i)]
    BY <1>8 DEF Summed
  <2>2. \A i \in 0 .. m :
          summed[i] = IF i = 0 THEN 0
                      ELSE summed[i - 1] + LittleEndian(bytes, i)
    BY <2>1, Zenon
  <2>3. summed = [i \in 0 .. m |-> summed[i]]
    BY <2>1, <2>2, Zenon
  <2>4. 0 \in 0 .. m /\ \A i \in 1 .. m : i \in 0 .. m /\ i # 0
    OBVIOUS
  <2>5. summed[0] = 0
    <3>1. 0 \in 0 .. m
      OBVIOUS
    <3>2. summed[0] = IF 0 = 0 THEN 0
                      ELSE summed[0 - 1] + LittleEndian(bytes, 0)
      BY <2>2, <3>1, Zenon
    <3>3. QED
      BY <3>2, Zenon
  <2>6. ASSUME NEW i \in 1 .. m
        PROVE  summed[i] = summed[i - 1] + LittleEndian(bytes, i)
    BY <2>2, <2>4
  <2>7. QED
    BY <2>3, <2>5, <2>6
<1> DEFINE S == {i \in Nat : i \in 0 .. m => summed[i] \in Nat}
<1>11. 0 \in S
  BY <1>10, SMTT(30)
<1>12. ASSUME NEW i \in Nat, i \in S PROVE i + 1 \in S
  <2>1. SUFFICES ASSUME i + 1 \in 0 .. m PROVE summed[i + 1] \in Nat
    OBVIOUS
  <2>2. i + 1 \in 1 .. m /\ (i + 1) - 1 = i /\ i \in 0 .. m
    BY <2>1
  <2>3. summed[i + 1] = summed[i] + LittleEndian(bytes, i + 1)
    BY <1>10, <2>2
  <2>4. summed[i] \in Nat /\ LittleEndian(bytes, i + 1) \in Nat
    BY <1>1, <1>12, <2>2
  <2>5. \A x, y \in Nat : x + y \in Nat
    OBVIOUS
  <2>6. QED
    BY <2>3, <2>4, <2>5, Zenon
<1>13. \A i \in Nat : i \in S
  BY <1>11, <1>12, NatSubset
<1>14. summed \in [0 .. m -> Nat]
  <2>1. \A i \in 0 .. m : summed[i] \in Nat
    BY <1>13
  <2>2. QED
    BY <1>10, <2>1, Zenon
<1>15. QED
  BY <1>9, <1>10, <1>14

\* A checksum is a word.
LEMMA ChecksumType ==
  ASSUME NEW bytes \in Seq(Byte)
  PROVE  /\ SumOfWords(bytes) \in Nat
         /\ ComputeChecksum(bytes) \in Nat /\ ComputeChecksum(bytes) < 65536
<1>1. Len(bytes) \div 2 \in Nat
  OBVIOUS
<1>2. SumOfWords(bytes) \in Nat
  BY <1>1, SumOfWordsIs
<1> DEFINE sum == SumOfWords(bytes)
<1>3. ComputeChecksum(bytes)
        = 65535 - (((sum \div 65536) + (sum % 65536)) % 65536)
  BY DEF ComputeChecksum
<1> HIDE DEF sum
<1>4. sum \in Nat
  BY <1>2 DEF sum
<1> DEFINE folded == (sum \div 65536) + (sum % 65536)
<1>5. folded \in Nat
  BY <1>4
<1> HIDE DEF folded
<1>6. 65535 - (folded % 65536) \in Nat /\ 65535 - (folded % 65536) < 65536
  BY <1>5
<1>7. QED
  BY <1>2, <1>3, <1>6 DEF folded

\* g is the function Number defines by recursion.
Numbered(digits, m, g) ==
  g = [i \in 0 .. m |-> IF i = 0 THEN 0 ELSE 10 * g[i - 1] + digits[i]]

\* What Number reads.
LEMMA NumberIs ==
  ASSUME NEW digits \in Seq(0 .. 9), NEW m \in Nat, m = Len(digits)
  PROVE  \E g \in [0 .. m -> Nat] :
           /\ Number(digits) = g[m]
           /\ g[0] = 0
           /\ \A i \in 1 .. m : g[i] = 10 * g[i - 1] + digits[i]
<1> DEFINE step == [i \in Nat |-> [v \in Nat |->
                     IF i \in 1 .. m THEN 10 * v + digits[i] ELSE v]]
<1>1. \A i \in 1 .. m : digits[i] \in Nat
  BY ElementOfSeq
<1>2. step \in [Nat -> [Nat -> Nat]]
  <2>1. ASSUME NEW i \in Nat, NEW v \in Nat
        PROVE  (IF i \in 1 .. m THEN 10 * v + digits[i] ELSE v) \in Nat
    BY <1>1
  <2>2. QED
    BY <2>1
<1>3. \A i \in 1 .. m : \A v \in Nat :
        step[i][v] = 10 * v + digits[i]
  OBVIOUS
<1> HIDE DEF step
<1>4. PICK f \in [Nat -> Nat] :
        f[0] = 0 /\ \A i \in Nat : f[i + 1] = step[i + 1][f[i]]
  <2>1. 0 \in Nat
    OBVIOUS
  <2>2. step \in StepOf(Nat)
    BY <1>2 DEF StepOf
  <2>3. PICK f : Recursion(Nat, 0, step, f)
    BY <2>1, <2>2, RecursionExists
  <2>4. QED
    BY <2>3 DEF Recursion
<1>5. ASSUME NEW i \in 1 .. m
      PROVE  f[i] = 10 * f[i - 1] + digits[i]
  <2>1. i - 1 \in Nat /\ (i - 1) + 1 = i
    OBVIOUS
  <2>2. f[i] = step[i][f[i - 1]] /\ f[i - 1] \in Nat
    BY <1>4, <2>1
  <2>3. QED
    BY <1>3, <2>2
<1> DEFINE g == [i \in 0 .. m |-> f[i]]
           number == CHOOSE sum : Numbered(digits, m, sum)
<1>6. g = [i \in 0 .. m |-> IF i = 0 THEN 0
                           ELSE 10 * g[i - 1] + digits[i]]
  <2>1. ASSUME NEW i \in 0 .. m
        PROVE  f[i] = IF i = 0 THEN 0
                      ELSE 10 * g[i - 1] + digits[i]
    <3>1. i # 0 => i \in 1 .. m /\ i - 1 \in 0 .. m
      OBVIOUS
    <3>2. i # 0 => g[i - 1] = f[i - 1]
      BY <3>1
    <3>3. QED
      BY <1>4, <1>5, <3>1, <3>2
  <2>2. QED
    BY <2>1
<1> HIDE DEF g
<1>7. Numbered(digits, m, g)
  BY <1>6 DEF Numbered
<1>8. Numbered(digits, m, number)
  BY <1>7
<1>9. Number(digits) = number[m]
  BY DEF Number, Numbered
<1> HIDE DEF number
<1>10. /\ number = [i \in 0 .. m |-> number[i]]
       /\ number[0] = 0
       /\ \A i \in 1 .. m :
            number[i] = 10 * number[i - 1] + digits[i]
  <2>1. number = [i \in 0 .. m |-> IF i = 0 THEN 0
                             ELSE 10 * number[i - 1] + digits[i]]
    BY <1>8 DEF Numbered
  <2>2. \A i \in 0 .. m :
          number[i] = IF i = 0 THEN 0
                      ELSE 10 * number[i - 1] + digits[i]
    BY <2>1, Zenon
  <2>3. number = [i \in 0 .. m |-> number[i]]
    BY <2>1, <2>2, Zenon
  <2>4. 0 \in 0 .. m /\ \A i \in 1 .. m : i \in 0 .. m /\ i # 0
    OBVIOUS
  <2>5. number[0] = 0
    <3>1. 0 \in 0 .. m
      OBVIOUS
    <3>2. number[0] = IF 0 = 0 THEN 0
                      ELSE 10 * number[0 - 1] + digits[0]
      BY <2>2, <3>1, Zenon
    <3>3. QED
      BY <3>2, Zenon
  <2>6. ASSUME NEW i \in 1 .. m
        PROVE  number[i] = 10 * number[i - 1] + digits[i]
    BY <2>2, <2>4
  <2>7. QED
    BY <2>3, <2>5, <2>6
<1> DEFINE S == {i \in Nat : i \in 0 .. m => number[i] \in Nat}
<1>11. 0 \in S
  BY <1>10
<1>12. ASSUME NEW i \in Nat, i \in S PROVE i + 1 \in S
  <2>1. SUFFICES ASSUME i + 1 \in 0 .. m PROVE number[i + 1] \in Nat
    OBVIOUS
  <2>2. i + 1 \in 1 .. m /\ (i + 1) - 1 = i /\ i \in 0 .. m
    BY <2>1
  <2>3. number[i + 1] = 10 * number[i] + digits[i + 1]
    BY <1>10, <2>2
  <2>4. number[i] \in Nat /\ digits[i + 1] \in Nat
    BY <1>1, <1>12, <2>2
  <2>5. \A x, y \in Nat : 10 * x + y \in Nat
    OBVIOUS
  <2>6. QED
    BY <2>3, <2>4, <2>5, Zenon
<1>13. \A i \in Nat : i \in S
  BY <1>11, <1>12, NatSubset
<1>14. number \in [0 .. m -> Nat]
  <2>1. \A i \in 0 .. m : number[i] \in Nat
    BY <1>13
  <2>2. QED
    BY <1>10, <2>1, Zenon
<1>15. QED
  BY <1>9, <1>10, <1>14

\* g is the loop of makeLessThanAMillion.
Lessening(g) ==
  g = [n \in Nat |-> IF n > 1000000 THEN g[n \div 10] ELSE n]

\* There is such a function.
LEMMA LesseningExists == \E g : Lessening(g)
<1> DEFINE T == [Nat -> Nat]
           next(i, v) == IF i > 1000000 THEN v[i \div 10] ELSE i
           step == [i \in Nat |-> [v \in T |-> [v EXCEPT ![i] = next(i, v)]]]
           a == [n \in Nat |-> n]
<1>1. ASSUME NEW i \in Nat, NEW v \in T PROVE next(i, v) \in Nat
  <2>1. i \div 10 \in Nat
    OBVIOUS
  <2>2. v[i \div 10] \in Nat
    BY <2>1
  <2>3. QED
    BY <2>2
<1> HIDE DEF next
<1>2. step \in StepOf(T)
  <2>1. ASSUME NEW i \in Nat, NEW v \in T
        PROVE  [v EXCEPT ![i] = next(i, v)] \in T
    BY <1>1
  <2> HIDE DEF T
  <2>2. QED
    BY <2>1 DEF StepOf
<1>3. \A i \in Nat : \A v \in T : step[i][v] = [v EXCEPT ![i] = next(i, v)]
  OBVIOUS
<1>4. a \in T
  OBVIOUS
<1> HIDE DEF T, step
<1>5. PICK f : Recursion(T, a, step, f)
  BY <1>2, <1>4, RecursionExists
<1>6. /\ \A i \in Nat : f[i] \in T
      /\ f[0] = a
      /\ \A i \in Nat : f[i + 1] = [f[i] EXCEPT ![i + 1] = next(i + 1, f[i])]
  <2>1. f \in [Nat -> T] /\ f[0] = a
    BY <1>5 DEF Recursion
  <2>2. ASSUME NEW i \in Nat
        PROVE  f[i + 1] = [f[i] EXCEPT ![i + 1] = next(i + 1, f[i])]
    <3>1. i + 1 \in Nat /\ f[i] \in T
      BY <2>1
    <3>2. f[i + 1] = step[i + 1][f[i]]
      BY <1>5 DEF Recursion
    <3>3. QED
      BY <1>3, <3>1, <3>2
  <2>3. QED
    BY <2>1, <2>2
<1>7. ASSUME NEW i \in Nat
      PROVE  /\ f[i + 1][i + 1] = next(i + 1, f[i])
             /\ \A k \in 0 .. i : f[i + 1][k] = f[i][k]
  <2>1. f[i] \in [Nat -> Nat] /\ i + 1 \in Nat
    BY <1>6 DEF T
  <2>2. f[i + 1] = [f[i] EXCEPT ![i + 1] = next(i + 1, f[i])]
    BY <1>6
  <2>3. QED
    BY <2>1, <2>2
<1> DEFINE S == {j \in Nat : \A k \in 0 .. j : f[j][k] = f[k][k]}
<1>8. 0 \in S
  OBVIOUS
<1>9. ASSUME NEW j \in Nat, j \in S PROVE j + 1 \in S
  <2>1. ASSUME NEW k \in 0 .. j + 1 PROVE f[j + 1][k] = f[k][k]
    <3>1. CASE k = j + 1
      BY <3>1
    <3>2. CASE k # j + 1
      <4>1. k \in 0 .. j
        BY <3>2
      <4>2. QED
        BY <1>7, <1>9, <4>1
    <3>3. QED
      BY <3>1, <3>2
  <2>2. QED
    BY <2>1
<1>10. \A j \in Nat : j \in S
  BY <1>8, <1>9, NatSubset
<1> DEFINE g == [n \in Nat |-> f[n][n]]
<1>11. ASSUME NEW n \in Nat
       PROVE  f[n][n] = IF n > 1000000 THEN g[n \div 10] ELSE n
  <2>1. CASE n = 0
    BY <1>6, <2>1
  <2>2. CASE n # 0
    <3> DEFINE i == n - 1
               d == n \div 10
    <3>1. i \in Nat /\ n = i + 1 /\ d \in Nat /\ d \in 0 .. i
      BY <2>2
    <3>2. f[n][n] = next(n, f[i])
      BY <1>7, <3>1
    <3>3. f[i][d] = g[d]
      BY <1>10, <3>1
    <3>4. QED
      BY <3>2, <3>3 DEF next
  <2>3. QED
    BY <2>1, <2>2
<1>12. g = [n \in Nat |-> IF n > 1000000 THEN g[n \div 10] ELSE n]
  BY <1>11
<1> HIDE DEF g
<1>13. QED
  BY <1>12 DEF Lessening

\* What makeLessThanAMillion computes, and that it is no more than a million.
LEMMA LessIs ==
  \E g : /\ \A i : MakeLessThanAMillion(i) = g[i]
         /\ \A n \in Nat : g[n] = IF n > 1000000 THEN g[n \div 10] ELSE n
         /\ \A n \in Nat : g[n] \in Nat /\ g[n] <= 1000000
<1> DEFINE g == CHOOSE less : Lessening(less)
<1>1. Lessening(g)
  BY LesseningExists
<1>2. \A i : MakeLessThanAMillion(i) = g[i]
  BY DEF MakeLessThanAMillion, Lessening
<1> HIDE DEF g
<1>3. \A n \in Nat : g[n] = IF n > 1000000 THEN g[n \div 10] ELSE n
  <2>1. g = [n \in Nat |-> IF n > 1000000 THEN g[n \div 10] ELSE n]
    BY <1>1, SMT DEF Lessening
  <2>2. QED
    BY <2>1, SMT
<1> DEFINE S == {n \in Nat : \A j \in 0 .. n : g[j] \in Nat /\ g[j] <= 1000000}
<1>4. 0 \in S
  BY <1>3
<1>5. ASSUME NEW n \in Nat, n \in S PROVE n + 1 \in S
  <2>1. ASSUME NEW j \in 0 .. n + 1 PROVE g[j] \in Nat /\ g[j] <= 1000000
    <3>1. CASE j \in 0 .. n
      BY <1>5, <3>1
    <3>2. CASE j = n + 1 /\ j > 1000000
      <4>1. j \div 10 \in 0 .. n
        BY <3>2
      <4>2. g[j] = g[j \div 10]
        BY <1>3, <3>2
      <4>3. QED
        BY <1>5, <4>1, <4>2
    <3>3. CASE j = n + 1 /\ ~(j > 1000000)
      BY <1>3, <3>3
    <3>4. QED
      BY <3>1, <3>2, <3>3
  <2>2. QED
    BY <2>1
<1> HIDE DEF S
<1>6. \A n \in Nat : n \in S
  BY <1>4, <1>5, NatSubset
<1>7. \A n \in Nat : g[n] \in Nat /\ g[n] <= 1000000
  BY <1>6 DEF S
<1>8. QED
  BY <1>2, <1>3, <1>7

-----------------------------------------------------------------------------
(* The bytes of a packet. *)

\* Two pairs of bytes.
LEMMA JoinPairs ==
  ASSUME NEW s \in Seq(Byte), NEW t \in Seq(Byte), Len(s) = 2, Len(t) = 2
  PROVE  /\ s \o t \in Seq(Byte)
         /\ Len(s \o t) = 4
         /\ (s \o t)[1] = s[1] /\ (s \o t)[2] = s[2]
         /\ (s \o t)[3] = t[1] /\ (s \o t)[4] = t[2]
<1>1. s \o t \in Seq(Byte) /\ Len(s \o t) = Len(s) + Len(t)
  BY ConcatElements
<1>2. \A i \in 1 .. Len(s) : (s \o t)[i] = s[i]
  BY ConcatElements
<1>3. \A i \in Len(s) + 1 .. Len(s) + Len(t) : (s \o t)[i] = t[i - Len(s)]
  BY ConcatElements
<1>4. QED
  BY <1>1, <1>2, <1>3

\* A number of 16 bits, written and read.
LEMMA HalfBytes ==
  ASSUME NEW n \in Nat, n < 65536
  PROVE  /\ Half(n) \in Seq(Byte) /\ Len(Half(n)) = 2
         /\ Half(n)[1] = n \div 256 /\ Half(n)[2] = n % 256
         /\ n \div 256 \in Byte /\ n % 256 \in Byte
         /\ 256 * (n \div 256) + (n % 256) = n
<1> DEFINE high == n \div 256
           low  == n % 256
<1>1. high \in Nat /\ high < 256 /\ low \in Nat /\ low < 256
      /\ 256 * high + low = n
  OBVIOUS
<1>2. Half(n) = <<high, low>>
  BY DEF Half
<1> HIDE DEF high, low
<1>3. high \in Byte /\ low \in Byte
  BY <1>1 DEF Byte
<1>4. <<high, low>> \in Seq(Byte) /\ Len(<<high, low>>) = 2
  BY <1>3
<1>5. Half(n)[1] = high /\ Half(n)[2] = low
  BY <1>2
<1>6. QED
  BY <1>1, <1>2, <1>3, <1>4, <1>5 DEF high, low

\* A number of 32 bits, written and read.
LEMMA WordBytes ==
  ASSUME NEW n \in Nat, n \div 65536 < 65536
  PROVE  /\ Word(n) \in Seq(Byte) /\ Len(Word(n)) = 4
         /\ 65536 * (256 * Word(n)[1] + Word(n)[2])
              + (256 * Word(n)[3] + Word(n)[4]) = n
<1> DEFINE high == n \div 65536
           low  == n % 65536
<1>1. /\ high \in Nat /\ high < 65536 /\ low \in Nat /\ low < 65536
      /\ 65536 * high + low = n
  OBVIOUS
<1>2. Word(n) = Half(high) \o Half(low)
  BY DEF Word
<1> HIDE DEF high, low
<1>3. /\ Half(high) \in Seq(Byte) /\ Len(Half(high)) = 2
      /\ 256 * Half(high)[1] + Half(high)[2] = high
  BY <1>1, HalfBytes, SMTT(30)
<1>4. /\ Half(low) \in Seq(Byte) /\ Len(Half(low)) = 2
      /\ 256 * Half(low)[1] + Half(low)[2] = low
  BY <1>1, HalfBytes
<1>5. /\ Half(high) \o Half(low) \in Seq(Byte)
      /\ Len(Half(high) \o Half(low)) = 4
      /\ (Half(high) \o Half(low))[1] = Half(high)[1]
      /\ (Half(high) \o Half(low))[2] = Half(high)[2]
      /\ (Half(high) \o Half(low))[3] = Half(low)[1]
      /\ (Half(high) \o Half(low))[4] = Half(low)[2]
  BY <1>3, <1>4, JoinPairs
<1>6. /\ Word(n)[1] = Half(high)[1] /\ Word(n)[2] = Half(high)[2]
      /\ Word(n)[3] = Half(low)[1] /\ Word(n)[4] = Half(low)[2]
  BY <1>2, <1>5
<1>7. Len(Word(n)) = 4 /\ Word(n) \in Seq(Byte)
  BY <1>2, <1>5
<1>8. /\ 256 * Word(n)[1] + Word(n)[2] = high
      /\ 256 * Word(n)[3] + Word(n)[4] = low
  BY <1>3, <1>4, <1>6
<1>9. QED
  BY <1>1, <1>7, <1>8

\* What fits is shorter than 64 KiB, with its padding.
LEMMA Lengths ==
  ASSUME NEW data \in Seq(Byte), Fits(data)
  PROVE  /\ Padding(data) \in Seq(Byte) /\ Len(Padding(data)) \in 0 .. 1
         /\ PacketLength(data) = 28 + (Len(data) + Len(Padding(data)))
         /\ PacketLength(data) \in Nat /\ PacketLength(data) < 65536
         /\ UdpLength(data) = 8 + Len(data)
         /\ UdpLength(data) \in Nat /\ UdpLength(data) < 65536
<1>1. Len(data) \in Nat
  OBVIOUS
<1>2. Padding(data) \in Seq(Byte) /\ Len(Padding(data)) \in 0 .. 1
  <2>1. 0 \in Byte
    BY DEF Byte
  <2>2. /\ <<0>> \in Seq(Byte) /\ Len(<<0>>) = 1
        /\ << >> \in Seq(Byte) /\ Len(<< >>) = 0
    BY <2>1
  <2>3. Padding(data) = <<0>> \/ Padding(data) = << >>
    BY DEF Padding
  <2>4. 0 \in 0 .. 1 /\ 1 \in 0 .. 1
    OBVIOUS
  <2>5. QED
    BY <2>2, <2>3, <2>4, Zenon
<1> DEFINE n == Len(data)
           k == Len(Padding(data))
<1>3. PacketLength(data) = 28 + n + k /\ UdpLength(data) = 8 + n
  BY DEF PacketLength, UdpLength
<1>4. PacketLength(data) <= 65535
  BY DEF Fits
<1>5. n \in Nat /\ k \in Nat
  BY <1>1, <1>2
<1> HIDE DEF n, k
<1>6. QED
  BY <1>2, <1>3, <1>4, <1>5 DEF n, k

\* The ports and numbers of the four channels.
LEMMA Options ==
  ASSUME NEW c \in Channel
  PROVE  /\ OptionsOf(c).srcIp = <<127, 0, 0, 1>>
         /\ OptionsOf(c).destIp = <<127, 0, 0, 1>>
         /\ OptionsOf(c).srcPort \in Nat /\ OptionsOf(c).srcPort < 65536
         /\ OptionsOf(c).destPort \in Nat /\ OptionsOf(c).destPort < 65536
         /\ OptionsOf(c).identification \in {1, 2}
         /\ \A d \in Channel :
              OptionsOf(c).srcPort = OptionsOf(d).srcPort => c = d
<1>1. \A d \in Channel :
        OptionsOf(d) \in
          {[srcIp |-> <<127, 0, 0, 1>>, srcPort |-> p[1],
            destIp |-> <<127, 0, 0, 1>>, destPort |-> p[2],
            identification |-> p[3]] :
              p \in {<<2321, 10001, 1>>, <<2322, 10002, 2>>,
                     <<10001, 2321, 1>>, <<10002, 2322, 2>>}}
  BY DEF OptionsOf, Channel
<1>2. QED
  BY <1>1 DEF OptionsOf, Channel

\* u has the bytes of s and then those of t.
Joins(s, t, u) ==
  /\ s \in Seq(Byte) /\ t \in Seq(Byte) /\ u \in Seq(Byte)
  /\ Len(u) = Len(s) + Len(t)
  /\ \A i \in 1 .. Len(s) : u[i] = s[i]
  /\ \A i \in 1 .. Len(t) : u[Len(s) + i] = t[i]

\* A sequence is the concatenation of two if it has the elements of both.
LEMMA JoinIs ==
  ASSUME NEW s, NEW t, NEW u, Joins(s, t, u)
  PROVE  s \o t = u
<1> USE DEF Joins
<1>1. s \o t \in Seq(Byte) /\ Len(s \o t) = Len(s) + Len(t)
  BY ConcatElements
<1>2. \A i \in 1 .. Len(s) : (s \o t)[i] = s[i]
  BY ConcatElements
<1>3. \A i \in Len(s) + 1 .. Len(s) + Len(t) : (s \o t)[i] = t[i - Len(s)]
  BY ConcatElements
<1>4. ASSUME NEW i \in 1 .. Len(s \o t) PROVE (s \o t)[i] = u[i]
  <2>1. CASE i <= Len(s)
    BY <1>1, <1>2, <2>1
  <2>2. CASE i > Len(s)
    <3> DEFINE j == i - Len(s)
    <3>1. j \in 1 .. Len(t) /\ i = Len(s) + j
      BY <1>1, <2>2
    <3>2. u[Len(s) + j] = t[j]
      BY <3>1
    <3>3. QED
      BY <1>1, <1>3, <2>2, <3>1, <3>2
  <2>3. QED
    BY <1>1, <2>1, <2>2
<1>5. QED
  BY <1>1, <1>4, SeqEqual

\* The IPv4 header, byte by byte.
LEMMA IpJoined ==
  ASSUME NEW a \in Byte, NEW b \in Byte, NEW c \in Byte, NEW d \in Byte,
         NEW e \in Byte, NEW f \in Byte
  PROVE  /\ <<69, 0>> \o <<a, b>> \o <<c, d>> \o <<64, 0, 64, 17>>
              \o <<e, f>> \o <<127, 0, 0, 1>> \o <<127, 0, 0, 1>>
            = <<69, 0, a, b, c, d, 64, 0, 64, 17, e, f,
                127, 0, 0, 1, 127, 0, 0, 1>>
<1> DEFINE s1 == <<69, 0>>
           t1 == <<a, b>>
           s2 == <<69, 0, a, b>>
           t2 == <<c, d>>
           s3 == <<69, 0, a, b, c, d>>
           t3 == <<64, 0, 64, 17>>
           s4 == <<69, 0, a, b, c, d, 64, 0, 64, 17>>
           t4 == <<e, f>>
           s5 == <<69, 0, a, b, c, d, 64, 0, 64, 17, e, f>>
           t5 == <<127, 0, 0, 1>>
           s6 == <<69, 0, a, b, c, d, 64, 0, 64, 17, e, f, 127, 0, 0, 1>>
           s7 == <<69, 0, a, b, c, d, 64, 0, 64, 17, e, f,
                   127, 0, 0, 1, 127, 0, 0, 1>>
<1>1. /\ s1 \in Seq(Byte) /\ s2 \in Seq(Byte) /\ s3 \in Seq(Byte)
      /\ s4 \in Seq(Byte) /\ s5 \in Seq(Byte) /\ s6 \in Seq(Byte)
      /\ s7 \in Seq(Byte)
  BY DEF Byte
<1>2. /\ t1 \in Seq(Byte) /\ t2 \in Seq(Byte) /\ t3 \in Seq(Byte)
      /\ t4 \in Seq(Byte) /\ t5 \in Seq(Byte)
  BY DEF Byte
<1>3. s1 \o t1 = s2
  <2>1. Len(s1) = 2 /\ Len(t1) = 2 /\ Len(s2) = 4
    OBVIOUS
  <2>2. \A i \in 1 .. 2 : s2[i] = s1[i]
    OBVIOUS
  <2>3. \A i \in 1 .. 2 : s2[2 + i] = t1[i]
    OBVIOUS
  <2> HIDE DEF s1, t1, s2
  <2>4. Len(s2) = Len(s1) + Len(t1)
    BY <2>1
  <2>5. \A i \in 1 .. Len(s1) : s2[i] = s1[i]
    BY <2>1, <2>2
  <2>6. \A i \in 1 .. Len(t1) : s2[Len(s1) + i] = t1[i]
    BY <2>1, <2>3
  <2>7. Joins(s1, t1, s2)
    BY <1>1, <1>2, <2>4, <2>5, <2>6 DEF Joins
  <2>8. QED
    BY <2>7, JoinIs
<1>4. s2 \o t2 = s3
  <2>1. Len(s2) = 4 /\ Len(t2) = 2 /\ Len(s3) = 6
    OBVIOUS
  <2>2. \A i \in 1 .. 4 : s3[i] = s2[i]
    OBVIOUS
  <2>3. \A i \in 1 .. 2 : s3[4 + i] = t2[i]
    OBVIOUS
  <2> HIDE DEF s2, t2, s3
  <2>4. Len(s3) = Len(s2) + Len(t2)
    BY <2>1
  <2>5. \A i \in 1 .. Len(s2) : s3[i] = s2[i]
    BY <2>1, <2>2
  <2>6. \A i \in 1 .. Len(t2) : s3[Len(s2) + i] = t2[i]
    BY <2>1, <2>3
  <2>7. Joins(s2, t2, s3)
    BY <1>1, <1>2, <2>4, <2>5, <2>6 DEF Joins
  <2>8. QED
    BY <2>7, JoinIs
<1>5. s3 \o t3 = s4
  <2>1. Len(s3) = 6 /\ Len(t3) = 4 /\ Len(s4) = 10
    OBVIOUS
  <2>2. \A i \in 1 .. 6 : s4[i] = s3[i]
    OBVIOUS
  <2>3. \A i \in 1 .. 4 : s4[6 + i] = t3[i]
    OBVIOUS
  <2> HIDE DEF s3, t3, s4
  <2>4. Len(s4) = Len(s3) + Len(t3)
    BY <2>1
  <2>5. \A i \in 1 .. Len(s3) : s4[i] = s3[i]
    BY <2>1, <2>2
  <2>6. \A i \in 1 .. Len(t3) : s4[Len(s3) + i] = t3[i]
    BY <2>1, <2>3
  <2>7. Joins(s3, t3, s4)
    BY <1>1, <1>2, <2>4, <2>5, <2>6 DEF Joins
  <2>8. QED
    BY <2>7, JoinIs
<1>6. s4 \o t4 = s5
  <2>1. Len(s4) = 10 /\ Len(t4) = 2 /\ Len(s5) = 12
    OBVIOUS
  <2>2. \A i \in 1 .. 10 : s5[i] = s4[i]
    OBVIOUS
  <2>3. \A i \in 1 .. 2 : s5[10 + i] = t4[i]
    OBVIOUS
  <2> HIDE DEF s4, t4, s5
  <2>4. Len(s5) = Len(s4) + Len(t4)
    BY <2>1
  <2>5. \A i \in 1 .. Len(s4) : s5[i] = s4[i]
    BY <2>1, <2>2
  <2>6. \A i \in 1 .. Len(t4) : s5[Len(s4) + i] = t4[i]
    BY <2>1, <2>3
  <2>7. Joins(s4, t4, s5)
    BY <1>1, <1>2, <2>4, <2>5, <2>6 DEF Joins
  <2>8. QED
    BY <2>7, JoinIs
<1>7. s5 \o t5 = s6
  <2>1. Len(s5) = 12 /\ Len(t5) = 4 /\ Len(s6) = 16
    OBVIOUS
  <2>2. \A i \in 1 .. 12 : s6[i] = s5[i]
    OBVIOUS
  <2>3. \A i \in 1 .. 4 : s6[12 + i] = t5[i]
    OBVIOUS
  <2> HIDE DEF s5, t5, s6
  <2>4. Len(s6) = Len(s5) + Len(t5)
    BY <2>1
  <2>5. \A i \in 1 .. Len(s5) : s6[i] = s5[i]
    BY <2>1, <2>2
  <2>6. \A i \in 1 .. Len(t5) : s6[Len(s5) + i] = t5[i]
    BY <2>1, <2>3
  <2>7. Joins(s5, t5, s6)
    BY <1>1, <1>2, <2>4, <2>5, <2>6 DEF Joins
  <2>8. QED
    BY <2>7, JoinIs
<1>8. s6 \o t5 = s7
  <2>1. Len(s6) = 16 /\ Len(t5) = 4 /\ Len(s7) = 20
    OBVIOUS
  <2>2. \A i \in 1 .. 16 : s7[i] = s6[i]
    OBVIOUS
  <2>3. \A i \in 1 .. 4 : s7[16 + i] = t5[i]
    OBVIOUS
  <2> HIDE DEF s6, t5, s7
  <2>4. Len(s7) = Len(s6) + Len(t5)
    BY <2>1
  <2>5. \A i \in 1 .. Len(s6) : s7[i] = s6[i]
    BY <2>1, <2>2
  <2>6. \A i \in 1 .. Len(t5) : s7[Len(s6) + i] = t5[i]
    BY <2>1, <2>3
  <2>7. Joins(s6, t5, s7)
    BY <1>1, <1>2, <2>4, <2>5, <2>6 DEF Joins
  <2>8. QED
    BY <2>7, JoinIs
<1> HIDE DEF s1, s2, s3, s4, s5, s6, s7, t1, t2, t3, t4, t5
<1>9. s1 \o t1 \o t2 \o t3 \o t4 \o t5 \o t5 = s7
  BY <1>3, <1>4, <1>5, <1>6, <1>7, <1>8
<1>10. QED
  BY <1>9 DEF s1, s7, t1, t2, t3, t4, t5

\* Numbers of 16 bits.
Word16 == {n \in Nat : n < 65536}

\* The headers of a packet.
IpHeader(length, number, sum) ==
  <<69, 0, length \div 256, length % 256, number \div 256, number % 256,
    64, 0, 64, 17, sum \div 256, sum % 256, 127, 0, 0, 1, 127, 0, 0, 1>>

UdpHeader(src, dest, length, sum) ==
  <<src \div 256, src % 256, dest \div 256, dest % 256,
    length \div 256, length % 256, sum \div 256, sum % 256>>

\* A number of 16 bits is two bytes.
LEMMA Halves ==
  ASSUME NEW n \in Word16
  PROVE  /\ n \div 256 \in Byte /\ n % 256 \in Byte
         /\ 256 * (n \div 256) + (n % 256) = n
BY DEF Byte, Word16

\* What stands where in the IPv4 header.
LEMMA IpBytes ==
  ASSUME NEW length \in Word16, NEW number \in Word16, NEW sum \in Word16,
         NEW ip, ip = IpHeader(length, number, sum)
  PROVE  /\ ip \in Seq(Byte) /\ Len(ip) = 20
         /\ <<69, 0>> \o Half(length) \o Half(number) \o <<64, 0, 64, 17>>
              \o Half(sum) \o <<127, 0, 0, 1>> \o <<127, 0, 0, 1>> = ip
<1>1. /\ length \div 256 \in Byte /\ length % 256 \in Byte
      /\ number \div 256 \in Byte /\ number % 256 \in Byte
      /\ sum \div 256 \in Byte /\ sum % 256 \in Byte
  BY Halves
<1> DEFINE a == length \div 256
           b == length % 256
           c == number \div 256
           d == number % 256
           e == sum \div 256
           f == sum % 256
<1>2. /\ Half(length) = <<a, b>> /\ Half(number) = <<c, d>>
      /\ Half(sum) = <<e, f>>
  BY DEF Half
<1>3. ip = <<69, 0, a, b, c, d, 64, 0, 64, 17, e, f,
            127, 0, 0, 1, 127, 0, 0, 1>>
  BY DEF IpHeader
<1> HIDE DEF a, b, c, d, e, f
<1>4. /\ a \in Byte /\ b \in Byte /\ c \in Byte
      /\ d \in Byte /\ e \in Byte /\ f \in Byte
  BY <1>1 DEF a, b, c, d, e, f
<1>5. ip \in Seq(Byte) /\ Len(ip) = 20
  <2>1. 69 \in Byte /\ 0 \in Byte /\ 64 \in Byte /\ 17 \in Byte
        /\ 127 \in Byte /\ 1 \in Byte
    BY DEF Byte
  <2>2. QED
    BY <1>3, <1>4, <2>1
<1>6. <<69, 0>> \o <<a, b>> \o <<c, d>> \o <<64, 0, 64, 17>>
        \o <<e, f>> \o <<127, 0, 0, 1>> \o <<127, 0, 0, 1>> = ip
  BY <1>3, <1>4, IpJoined
<1>7. QED
  BY <1>2, <1>5, <1>6

\* What stands where in the UDP header.
LEMMA UdpBytes ==
  ASSUME NEW src \in Word16, NEW dest \in Word16, NEW length \in Word16,
         NEW sum \in Word16
  PROVE  /\ UdpHeader(src, dest, length, sum) \in Seq(Byte)
         /\ Len(UdpHeader(src, dest, length, sum)) = 8
         /\ Half(src) \o Half(dest) \o Half(length) \o Half(sum)
              = UdpHeader(src, dest, length, sum)
<1> DEFINE udp == UdpHeader(src, dest, length, sum)
<1>1. /\ src \div 256 \in Byte /\ src % 256 \in Byte
      /\ dest \div 256 \in Byte /\ dest % 256 \in Byte
      /\ length \div 256 \in Byte /\ length % 256 \in Byte
      /\ sum \div 256 \in Byte /\ sum % 256 \in Byte
  BY Halves
<1> DEFINE a == src \div 256
           b == src % 256
           c == dest \div 256
           d == dest % 256
           e == length \div 256
           f == length % 256
           g == sum \div 256
           h == sum % 256
<1>2. /\ Half(src) = <<a, b>> /\ Half(dest) = <<c, d>>
      /\ Half(length) = <<e, f>> /\ Half(sum) = <<g, h>>
  BY DEF Half
<1>3. udp = <<a, b, c, d, e, f, g, h>>
  BY DEF UdpHeader
<1> HIDE DEF a, b, c, d, e, f, g, h, udp
<1>4. /\ a \in Byte /\ b \in Byte /\ c \in Byte /\ d \in Byte
      /\ e \in Byte /\ f \in Byte /\ g \in Byte /\ h \in Byte
  BY <1>1 DEF a, b, c, d, e, f, g, h
<1>5. udp \in Seq(Byte) /\ Len(udp) = 8
  BY <1>3, <1>4
<1>6. <<a, b>> \o <<c, d>> \o <<e, f>> \o <<g, h>> = udp
  <2> DEFINE s1 == <<a, b>>
             t1 == <<c, d>>
             s2 == <<a, b, c, d>>
             t2 == <<e, f>>
             s3 == <<a, b, c, d, e, f>>
             t3 == <<g, h>>
             s4 == <<a, b, c, d, e, f, g, h>>
  <2>1. /\ s1 \in Seq(Byte) /\ s2 \in Seq(Byte)
        /\ s3 \in Seq(Byte) /\ s4 \in Seq(Byte)
    BY <1>4
  <2>2. t1 \in Seq(Byte) /\ t2 \in Seq(Byte) /\ t3 \in Seq(Byte)
    BY <1>4
  <2>3. s1 \o t1 = s2
    <3>1. Len(s1) = 2 /\ Len(t1) = 2 /\ Len(s2) = 4
      OBVIOUS
    <3>2. \A i \in 1 .. 2 : s2[i] = s1[i]
      OBVIOUS
    <3>3. \A i \in 1 .. 2 : s2[2 + i] = t1[i]
      OBVIOUS
    <3> HIDE DEF s1, t1, s2
    <3>4. Joins(s1, t1, s2)
      BY <2>1, <2>2, <3>1, <3>2, <3>3 DEF Joins
    <3>5. QED
      BY <3>4, JoinIs
  <2>4. s2 \o t2 = s3
    <3>1. Len(s2) = 4 /\ Len(t2) = 2 /\ Len(s3) = 6
      OBVIOUS
    <3>2. \A i \in 1 .. 4 : s3[i] = s2[i]
      OBVIOUS
    <3>3. \A i \in 1 .. 2 : s3[4 + i] = t2[i]
      OBVIOUS
    <3> HIDE DEF s2, t2, s3
    <3>4. Joins(s2, t2, s3)
      BY <2>1, <2>2, <3>1, <3>2, <3>3 DEF Joins
    <3>5. QED
      BY <3>4, JoinIs
  <2>5. s3 \o t3 = s4
    <3>1. Len(s3) = 6 /\ Len(t3) = 2 /\ Len(s4) = 8
      OBVIOUS
    <3>2. \A i \in 1 .. 6 : s4[i] = s3[i]
      OBVIOUS
    <3>3. \A i \in 1 .. 2 : s4[6 + i] = t3[i]
      OBVIOUS
    <3> HIDE DEF s3, t3, s4
    <3>4. Joins(s3, t3, s4)
      BY <2>1, <2>2, <3>1, <3>2, <3>3 DEF Joins
    <3>5. QED
      BY <3>4, JoinIs
  <2> HIDE DEF s1, s2, s3, s4, t1, t2, t3
  <2>6. s1 \o t1 \o t2 \o t3 = s4
    BY <2>3, <2>4, <2>5
  <2>7. QED
    BY <1>3, <2>6 DEF s1, s4, t1, t2, t3
<1>7. QED
  BY <1>2, <1>5, <1>6 DEF udp

\* The two headers of the packet that holds a chunk of a channel.
IpOf(c, data, sum) ==
  IpHeader(PacketLength(data), OptionsOf(c).identification, sum)

UdpOf(c, data, sum) ==
  UdpHeader(OptionsOf(c).srcPort, OptionsOf(c).destPort, UdpLength(data), sum)

\* The numbers in the headers have 16 bits.
LEMMA Numbers ==
  ASSUME NEW c \in Channel, NEW data \in Seq(Byte), Fits(data)
  PROVE  /\ PacketLength(data) \in Word16 /\ UdpLength(data) \in Word16
         /\ OptionsOf(c).identification \in Word16
         /\ OptionsOf(c).srcPort \in Word16
         /\ OptionsOf(c).destPort \in Word16
         /\ 0 \in Word16
<1>1. /\ PacketLength(data) \in Nat /\ PacketLength(data) < 65536
      /\ UdpLength(data) \in Nat /\ UdpLength(data) < 65536
  BY Lengths
<1>2. /\ OptionsOf(c).srcPort \in Nat /\ OptionsOf(c).srcPort < 65536
      /\ OptionsOf(c).destPort \in Nat /\ OptionsOf(c).destPort < 65536
      /\ OptionsOf(c).identification \in {1, 2}
  BY Options
<1>3. QED
  BY <1>1, <1>2 DEF Word16

\* What a checksum is computed of has bytes, and the checksum is 16 bits.
LEMMA SumIsWord ==
  ASSUME NEW bytes \in Seq(Byte)
  PROVE  ComputeChecksum(bytes) \in Word16
BY ChecksumType DEF Word16

\* A UDP header, the chunk behind it and its padding are joined.
IsPart(part, udp, data) ==
  /\ part \in Seq(Byte)
  /\ Len(part) = PacketLength(data) - 20
  /\ \A i \in 1 .. 8 : part[i] = udp[i]
  /\ \A i \in 1 .. Len(data) : part[8 + i] = data[i]

\* What stands where behind the IPv4 header.
LEMMA PartBytes ==
  ASSUME NEW udp \in Seq(Byte), Len(udp) = 8, NEW data \in Seq(Byte),
         Fits(data)
  PROVE  IsPart(udp \o data \o Padding(data), udp, data)
<1> DEFINE part == udp \o data \o Padding(data)
<1> DEFINE t == udp \o data
           q == Padding(data)
<1>1. q \in Seq(Byte) /\ PacketLength(data) = 28 + (Len(data) + Len(q))
  BY Lengths
<1>2. t \in Seq(Byte) /\ Len(t) = Len(udp) + Len(data)
  BY ConcatElements
<1>3. \A i \in 1 .. Len(udp) : t[i] = udp[i]
  BY ConcatElements
<1>4. \A i \in Len(udp) + 1 .. Len(udp) + Len(data) :
        t[i] = data[i - Len(udp)]
  BY ConcatElements
<1>5. part = t \o q
  OBVIOUS
<1> HIDE DEF t, q, part
<1>6. part \in Seq(Byte) /\ Len(part) = Len(t) + Len(q)
  <2>1. t \o q \in Seq(Byte) /\ Len(t \o q) = Len(t) + Len(q)
    BY <1>1, <1>2, ConcatElements
  <2>2. QED
    BY <1>5, <2>1
<1>7. \A i \in 1 .. Len(t) : part[i] = t[i]
  <2>1. \A i \in 1 .. Len(t) : (t \o q)[i] = t[i]
    BY <1>1, <1>2, ConcatElements
  <2>2. QED
    BY <1>5, <2>1
<1>8. Len(data) \in Nat /\ Len(q) \in Nat
  BY <1>1
<1>9. Len(part) = PacketLength(data) - 20
  BY <1>1, <1>2, <1>6, <1>8
<1>10. \A i \in 1 .. 8 : part[i] = udp[i]
  <2>1. Len(udp) = 8 /\ Len(t) = 8 + Len(data)
    BY <1>2
  <2>2. \A i \in 1 .. 8 : i \in 1 .. Len(t)
    BY <1>8, <2>1
  <2>3. \A i \in 1 .. 8 : t[i] = udp[i]
    BY <1>3, <2>1
  <2>4. QED
    BY <1>7, <2>2, <2>3
<1>11. \A i \in 1 .. Len(data) : part[8 + i] = data[i]
  <2>1. SUFFICES ASSUME NEW i \in 1 .. Len(data) PROVE part[8 + i] = data[i]
    OBVIOUS
  <2>2. 8 + i \in 1 .. Len(t) /\ 8 + i \in 9 .. 8 + Len(data)
    BY <1>2, <1>8
  <2>3. t[8 + i] = data[i]
    BY <1>4, <1>8, <2>2
  <2>4. QED
    BY <1>7, <2>2, <2>3
<1>12. QED
  BY <1>6, <1>9, <1>10, <1>11 DEF IsPart, part

\* What a packet consists of.
LEMMA PacketIs ==
  ASSUME NEW c \in Channel, NEW data \in Seq(Byte), Fits(data)
  PROVE  \E sum \in Word16 :
           /\ ComputeChecksum(IpOf(c, data, 0)) \in Word16
           /\ GeneratePacket(OptionsOf(c), data)
                = IpOf(c, data, ComputeChecksum(IpOf(c, data, 0)))
                    \o (UdpOf(c, data, sum) \o data \o Padding(data))
<1> DEFINE o == OptionsOf(c)
           ip(sum) == <<69, 0>> \o Half(PacketLength(data))
                        \o Half(o.identification)
                        \o <<64, 0, 64, 17>> \o Half(sum)
                        \o o.destIp \o o.srcIp
           head(sum) == Half(o.srcPort) \o Half(o.destPort)
                         \o Half(UdpLength(data)) \o Half(sum)
           udp(sum) == head(sum) \o data \o Padding(data)
<1>1. GeneratePacket(OptionsOf(c), data)
        = ip(ComputeChecksum(ip(0))) \o udp(ComputeChecksum(udp(0)))
  BY DEF GeneratePacket
<1>2. ASSUME NEW sum \in Word16
      PROVE  ip(sum) = IpOf(c, data, sum) /\ IpOf(c, data, sum) \in Seq(Byte)
  <2>1. o.destIp = <<127, 0, 0, 1>> /\ o.srcIp = <<127, 0, 0, 1>>
    BY Options
  <2>2. PacketLength(data) \in Word16 /\ o.identification \in Word16
    BY Numbers
  <2>3. IpOf(c, data, sum)
          = IpHeader(PacketLength(data), o.identification, sum)
    BY DEF IpOf
  <2>4. /\ IpOf(c, data, sum) \in Seq(Byte)
        /\ <<69, 0>> \o Half(PacketLength(data)) \o Half(o.identification)
             \o <<64, 0, 64, 17>> \o Half(sum)
             \o <<127, 0, 0, 1>> \o <<127, 0, 0, 1>> = IpOf(c, data, sum)
    BY <2>2, <2>3, IpBytes, ZenonT(40)
  <2>5. QED
    BY <2>1, <2>4
<1>3. ASSUME NEW sum \in Word16
      PROVE  /\ head(sum) = UdpOf(c, data, sum)
             /\ UdpOf(c, data, sum) \in Seq(Byte)
             /\ Len(UdpOf(c, data, sum)) = 8
  <2>1. /\ o.srcPort \in Word16 /\ o.destPort \in Word16
        /\ UdpLength(data) \in Word16
    BY Numbers
  <2>2. UdpOf(c, data, sum)
          = UdpHeader(o.srcPort, o.destPort, UdpLength(data), sum)
    BY DEF UdpOf
  <2> DEFINE a == o.srcPort
             b == o.destPort
             l == UdpLength(data)
             h == UdpHeader(a, b, l, sum)
  <2>3. a \in Word16 /\ b \in Word16 /\ l \in Word16
    BY <2>1
  <2>4. head(sum) = Half(a) \o Half(b) \o Half(l) \o Half(sum)
    OBVIOUS
  <2>5. UdpOf(c, data, sum) = h
    BY <2>2
  <2> HIDE DEF a, b, l, head
  <2>6. h \in Seq(Byte) /\ Len(h) = 8
    BY <2>3, UdpBytes
  <2>7. Half(a) \o Half(b) \o Half(l) \o Half(sum) = h
    BY <2>3, UdpBytes
  <2>8. QED
    BY <2>4, <2>5, <2>6, <2>7
<1> HIDE DEF ip, head
<1>4. 0 \in Word16
  BY Numbers
<1>5. ip(0) = IpOf(c, data, 0) /\ IpOf(c, data, 0) \in Seq(Byte)
  BY <1>2, <1>4
<1> DEFINE ipSum == ComputeChecksum(IpOf(c, data, 0))
           udpSum == ComputeChecksum(udp(0))
<1>6. ipSum \in Word16
  BY <1>5, SumIsWord
<1>7. udp(0) \in Seq(Byte)
  <2>1. head(0) \in Seq(Byte) /\ Len(head(0)) = 8
    BY <1>3, <1>4
  <2>2. QED
    BY <2>1, PartBytes DEF IsPart
<1> HIDE DEF udp
<1>8. udpSum \in Word16
  BY <1>7, SumIsWord
<1> HIDE DEF ipSum, udpSum
<1>9. GeneratePacket(OptionsOf(c), data) = ip(ipSum) \o udp(udpSum)
  BY <1>1, <1>5 DEF ipSum, udpSum
<1>10. ip(ipSum) = IpOf(c, data, ipSum)
  BY <1>2, <1>6
<1>11. udp(udpSum) = UdpOf(c, data, udpSum) \o data \o Padding(data)
  BY <1>3, <1>8 DEF udp
<1>12. GeneratePacket(OptionsOf(c), data)
         = IpOf(c, data, ipSum)
             \o (UdpOf(c, data, udpSum) \o data \o Padding(data))
  BY <1>9, <1>10, <1>11
<1>13. QED
  BY <1>6, <1>8, <1>12 DEF ipSum

\* What can be read in the two headers of a packet.
LEMMA HeadersTell ==
  ASSUME NEW c \in Channel, NEW data \in Seq(Byte), Fits(data),
         NEW sum \in Word16
  PROVE  /\ IpOf(c, data, sum) \in Seq(Byte)
         /\ Len(IpOf(c, data, sum)) = 20
         /\ HalfAt(IpOf(c, data, sum), 3) = PacketLength(data)
         /\ UdpOf(c, data, sum) \in Seq(Byte)
         /\ Len(UdpOf(c, data, sum)) = 8
         /\ HalfAt(UdpOf(c, data, sum), 1) = OptionsOf(c).srcPort
         /\ HalfAt(UdpOf(c, data, sum), 3) = OptionsOf(c).destPort
         /\ HalfAt(UdpOf(c, data, sum), 5) = UdpLength(data)
<1> DEFINE length == PacketLength(data)
           number == OptionsOf(c).identification
           a == OptionsOf(c).srcPort
           b == OptionsOf(c).destPort
           l == UdpLength(data)
           ip == IpHeader(length, number, sum)
           udp == UdpHeader(a, b, l, sum)
<1>1. /\ length \in Word16 /\ number \in Word16
      /\ a \in Word16 /\ b \in Word16 /\ l \in Word16
  BY Numbers
<1>2. IpOf(c, data, sum) = ip /\ UdpOf(c, data, sum) = udp
  BY DEF IpOf, UdpOf
<1> HIDE DEF length, number, a, b, l
<1>3. ip \in Seq(Byte) /\ Len(ip) = 20
  BY <1>1, IpBytes
<1>4. udp \in Seq(Byte) /\ Len(udp) = 8
  BY <1>1, UdpBytes
<1>5. ip[3] = length \div 256 /\ ip[4] = length % 256
  BY DEF IpHeader
<1>6. /\ udp[1] = a \div 256 /\ udp[2] = a % 256
      /\ udp[3] = b \div 256 /\ udp[4] = b % 256
      /\ udp[5] = l \div 256 /\ udp[6] = l % 256
  BY DEF UdpHeader
<1> HIDE DEF ip, udp
<1>7. HalfAt(ip, 3) = length
  <2>1. 256 * (length \div 256) + (length % 256) = length
    BY <1>1, Halves
  <2>2. HalfAt(ip, 3) = 256 * ip[3] + ip[4]
    BY DEF HalfAt
  <2>3. QED
    BY <1>5, <2>1, <2>2
<1>8. HalfAt(udp, 1) = a
  <2>1. 256 * (a \div 256) + (a % 256) = a
    BY <1>1, Halves
  <2>2. HalfAt(udp, 1) = 256 * udp[1] + udp[2]
    BY DEF HalfAt
  <2>3. QED
    BY <1>6, <2>1, <2>2
<1>9. HalfAt(udp, 3) = b
  <2>1. 256 * (b \div 256) + (b % 256) = b
    BY <1>1, Halves
  <2>2. HalfAt(udp, 3) = 256 * udp[3] + udp[4]
    BY DEF HalfAt
  <2>3. QED
    BY <1>6, <2>1, <2>2
<1>10. HalfAt(udp, 5) = l
  <2>1. 256 * (l \div 256) + (l % 256) = l
    BY <1>1, Halves
  <2>2. HalfAt(udp, 5) = 256 * udp[5] + udp[6]
    BY DEF HalfAt
  <2>3. QED
    BY <1>6, <2>1, <2>2
<1>11. QED
  BY <1>2, <1>3, <1>4, <1>7, <1>8, <1>9, <1>10 DEF length, a, b, l

\* What can be read in a packet.
LEMMA PacketTells ==
  ASSUME NEW c \in Channel, NEW data \in Seq(Byte), Fits(data), NEW packet,
         packet = GeneratePacket(OptionsOf(c), data)
  PROVE  /\ packet \in Seq(Byte) /\ Len(packet) = PacketLength(data)
         /\ HalfAt(packet, 3) = PacketLength(data)
         /\ HalfAt(packet, 21) = OptionsOf(c).srcPort
         /\ HalfAt(packet, 23) = OptionsOf(c).destPort
         /\ HalfAt(packet, 25) = UdpLength(data)
         /\ \A i \in 1 .. Len(data) : packet[28 + i] = data[i]
         /\ ComputeChecksum(IpOf(c, data, 0)) \in Word16
         /\ \A i \in 1 .. 20 :
              packet[i] = IpOf(c, data, ComputeChecksum(IpOf(c, data, 0)))[i]
<1> DEFINE ipSum == ComputeChecksum(IpOf(c, data, 0))
           ip == IpOf(c, data, ipSum)
<1>1. PICK sum \in Word16 :
        /\ ComputeChecksum(IpOf(c, data, 0)) \in Word16
        /\ packet = ip \o (UdpOf(c, data, sum) \o data \o Padding(data))
  BY PacketIs
<1> DEFINE udp == UdpOf(c, data, sum)
           part == udp \o data \o Padding(data)
<1>2. ipSum \in Word16
  BY <1>1
<1> HIDE DEF ipSum
<1>3. /\ ip \in Seq(Byte) /\ Len(ip) = 20
      /\ HalfAt(ip, 3) = PacketLength(data)
  BY <1>2, HeadersTell
<1>4. udp \in Seq(Byte) /\ Len(udp) = 8
  BY HeadersTell
<1>5. /\ HalfAt(udp, 1) = OptionsOf(c).srcPort
      /\ HalfAt(udp, 3) = OptionsOf(c).destPort
      /\ HalfAt(udp, 5) = UdpLength(data)
  BY HeadersTell
<1>6. packet = ip \o part
  BY <1>1
<1> HIDE DEF ip, udp
<1>7. /\ part \in Seq(Byte)
      /\ Len(part) = PacketLength(data) - 20
      /\ \A i \in 1 .. 8 : part[i] = udp[i]
      /\ \A i \in 1 .. Len(data) : part[8 + i] = data[i]
  <2>1. IsPart(part, udp, data)
    BY <1>4, PartBytes
  <2> HIDE DEF part
  <2>2. QED
    BY <2>1 DEF IsPart
<1> HIDE DEF part
<1>8. ip \in Seq(Byte) /\ part \in Seq(Byte)
  BY <1>3, <1>7
<1>9. packet \in Seq(Byte) /\ Len(packet) = Len(ip) + Len(part)
  <2>1. ip \o part \in Seq(Byte) /\ Len(ip \o part) = Len(ip) + Len(part)
    BY <1>3, <1>7, ConcatElements, ZenonT(40)
  <2>2. QED
    BY <1>6, <2>1
<1>10. \A i \in 1 .. 20 : packet[i] = ip[i]
  <2>1. \A i \in 1 .. Len(ip) : (ip \o part)[i] = ip[i]
    BY <1>8, ConcatElements
  <2>2. QED
    BY <1>3, <1>6, <2>1
<1>11. /\ PacketLength(data) \in Nat /\ PacketLength(data) >= 28 + Len(data)
       /\ Len(data) \in Nat
  BY Lengths
<1>12. \A i \in 1 .. 8 + Len(data) : packet[20 + i] = part[i]
  <2>1. \A i \in Len(ip) + 1 .. Len(ip) + Len(part) :
          (ip \o part)[i] = part[i - Len(ip)]
    BY <1>8, ConcatElements
  <2>2. ASSUME NEW i \in 21 .. 20 + Len(part)
        PROVE  packet[i] = part[i - 20]
    <3>1. i \in Len(ip) + 1 .. Len(ip) + Len(part)
      BY <1>3
    <3>2. packet[i] = part[i - Len(ip)]
      BY <1>6, <2>1, <3>1
    <3>3. QED
      BY <1>3, <3>2
  <2>3. ASSUME NEW i \in 1 .. 8 + Len(data)
        PROVE  20 + i \in 21 .. 20 + Len(part) /\ (20 + i) - 20 = i
    BY <1>7, <1>11, SMTT(30)
  <2>4. QED
    BY <2>2, <2>3
<1>13. \A i \in 1 .. 8 : packet[20 + i] = udp[i]
  <2>1. \A i \in 1 .. 8 : i \in 1 .. 8 + Len(data)
    BY <1>11
  <2>2. QED
    BY <1>7, <1>12, <2>1
<1>14. \A i \in 1 .. Len(data) : packet[28 + i] = data[i]
  <2>1. ASSUME NEW i \in 1 .. Len(data)
        PROVE  8 + i \in 1 .. 8 + Len(data) /\ 20 + (8 + i) = 28 + i
    BY <1>11
  <2>2. QED
    BY <1>7, <1>12, <2>1
<1>15. /\ packet[21] = udp[1] /\ packet[22] = udp[2]
       /\ packet[23] = udp[3] /\ packet[24] = udp[4]
       /\ packet[25] = udp[5] /\ packet[26] = udp[6]
  <2>1. /\ packet[20 + 1] = udp[1] /\ packet[20 + 2] = udp[2]
        /\ packet[20 + 3] = udp[3] /\ packet[20 + 4] = udp[4]
        /\ packet[20 + 5] = udp[5] /\ packet[20 + 6] = udp[6]
    BY <1>13
  <2>2. QED
    BY <2>1
<1>16. /\ HalfAt(packet, 21) = HalfAt(udp, 1)
       /\ HalfAt(packet, 23) = HalfAt(udp, 3)
       /\ HalfAt(packet, 25) = HalfAt(udp, 5)
  BY <1>15 DEF HalfAt
<1>17. HalfAt(packet, 3) = HalfAt(ip, 3)
  BY <1>10, SMTT(30) DEF HalfAt
<1>18. Len(packet) = PacketLength(data)
  BY <1>3, <1>7, <1>9, <1>11, SMTT(30)
<1>19. QED
  BY <1>2, <1>3, <1>5, <1>9, <1>10, <1>14, <1>16, <1>17, <1>18 DEF ip, ipSum

-----------------------------------------------------------------------------
(* The header of a record, and chunks. *)

\* Numbers of 32 bits.
Word32 == {n \in Nat : n \div 65536 < 65536}

\* t is s with a number of 32 bits behind it.
Longer(t, s, n) ==
  /\ t \in Seq(Byte)
  /\ Len(t) = Len(s) + 4
  /\ WordAt(t, Len(s) + 1) = n
  /\ \A i \in 1 .. Len(s) : t[i] = s[i]

\* Writing a number behind what has been written.
LEMMA WordBehind ==
  ASSUME NEW s \in Seq(Byte), NEW n \in Word32
  PROVE  Longer(s \o Word(n), s, n)
<1> DEFINE w == Word(n)
           t == s \o w
<1>1. n \in Nat /\ n \div 65536 < 65536
  BY DEF Word32
<1>2. /\ w \in Seq(Byte) /\ Len(w) = 4
      /\ 65536 * (256 * w[1] + w[2]) + (256 * w[3] + w[4]) = n
  BY <1>1, WordBytes
<1> HIDE DEF w
<1>3. w \in Seq(Byte)
  BY <1>2
<1>4. t \in Seq(Byte) /\ Len(t) = Len(s) + Len(w)
  BY <1>3, ConcatElements
<1>5. \A i \in 1 .. Len(s) : t[i] = s[i]
  BY <1>3, ConcatElements
<1>6. \A i \in Len(s) + 1 .. Len(s) + Len(w) : t[i] = w[i - Len(s)]
  BY <1>3, ConcatElements
<1> HIDE DEF t
<1> DEFINE m == Len(s)
<1>7. m \in Nat
  OBVIOUS
<1>8. \A i \in m + 1 .. m + 4 : t[i] = w[i - m]
  BY <1>2, <1>6
<1> HIDE DEF m
<1>9. /\ t[m + 1] = w[1] /\ t[(m + 1) + 1] = w[2]
      /\ t[(m + 1) + 2] = w[3] /\ t[((m + 1) + 2) + 1] = w[4]
  <2>1. /\ m + 1 \in m + 1 .. m + 4 /\ (m + 1) - m = 1
        /\ (m + 1) + 1 \in m + 1 .. m + 4 /\ ((m + 1) + 1) - m = 2
        /\ (m + 1) + 2 \in m + 1 .. m + 4 /\ ((m + 1) + 2) - m = 3
        /\ ((m + 1) + 2) + 1 \in m + 1 .. m + 4
        /\ (((m + 1) + 2) + 1) - m = 4
    BY <1>7
  <2>2. QED
    BY <1>8, <2>1
<1>10. WordAt(t, m + 1) = n
  <2>1. WordAt(t, m + 1)
          = 65536 * (256 * t[m + 1] + t[(m + 1) + 1])
              + (256 * t[(m + 1) + 2] + t[((m + 1) + 2) + 1])
    BY DEF WordAt, HalfAt
  <2>2. QED
    BY <1>2, <1>9, <2>1
<1>11. QED
  BY <1>2, <1>4, <1>5, <1>10 DEF Longer, m, t, w

\* What is read from the front stays.
LEMMA FrontStays ==
  ASSUME NEW s \in Seq(Byte), NEW t, NEW n, Longer(t, s, n),
         NEW i \in 1 .. Len(s) - 3
  PROVE  WordAt(t, i) = WordAt(s, i)
<1>1. /\ i \in 1 .. Len(s) /\ i + 1 \in 1 .. Len(s)
      /\ i + 2 \in 1 .. Len(s) /\ i + 2 + 1 \in 1 .. Len(s)
  OBVIOUS
<1>2. \A j \in 1 .. Len(s) : t[j] = s[j]
  BY DEF Longer
<1>3. /\ t[i] = s[i] /\ t[i + 1] = s[i + 1]
      /\ t[i + 2] = s[i + 2] /\ t[i + 2 + 1] = s[i + 2 + 1]
  BY <1>1, <1>2
<1>4. QED
  BY <1>3 DEF WordAt, HalfAt

\* The header of a record tells these numbers.
TellsNumbers(header, a, b, c) ==
  /\ header \in Seq(Byte) /\ Len(header) = 16
  /\ WordAt(header, 1) = a
  /\ WordAt(header, 5) = b
  /\ WordAt(header, 9) = c

\* What can be read in the header of a record.
LEMMA RecordTells ==
  ASSUME NEW a \in Word32, NEW b \in Word32, NEW c \in Word32
  PROVE  TellsNumbers(Word(a) \o Word(b) \o Word(c) \o Word(c), a, b, c)
<1> DEFINE header == Word(a) \o Word(b) \o Word(c) \o Word(c)
<1> DEFINE s1 == Word(a)
           s2 == s1 \o Word(b)
           s3 == s2 \o Word(c)
           s4 == s3 \o Word(c)
<1>1. s1 \in Seq(Byte) /\ Len(s1) = 4 /\ WordAt(s1, 1) = a
  <2>1. a \in Nat /\ a \div 65536 < 65536
    BY DEF Word32
  <2>2. /\ s1 \in Seq(Byte) /\ Len(s1) = 4
        /\ 65536 * (256 * s1[1] + s1[2]) + (256 * s1[3] + s1[4]) = a
    BY <2>1, WordBytes
  <2>3. WordAt(s1, 1) = 65536 * (256 * s1[1] + s1[1 + 1])
                          + (256 * s1[1 + 2] + s1[1 + 2 + 1])
    BY DEF WordAt, HalfAt
  <2> HIDE DEF s1
  <2>4. QED
    BY <2>2, <2>3
<1> HIDE DEF s1
<1>2. Longer(s2, s1, b)
  BY <1>1, WordBehind
<1> HIDE DEF s2
<1>3. s2 \in Seq(Byte) /\ Len(s2) = 8 /\ WordAt(s2, 5) = b
  BY <1>1, <1>2 DEF Longer
<1>4. WordAt(s2, 1) = a
  <2>1. s1 \in Seq(Byte) /\ 1 \in 1 .. Len(s1) - 3
    BY <1>1
  <2>2. WordAt(s2, 1) = WordAt(s1, 1)
    BY <1>2, <2>1, FrontStays, Zenon
  <2>3. QED
    BY <1>1, <2>2
<1>5. Longer(s3, s2, c)
  BY <1>3, WordBehind
<1> HIDE DEF s3
<1>6. s3 \in Seq(Byte) /\ Len(s3) = 12 /\ WordAt(s3, 9) = c
  BY <1>3, <1>5 DEF Longer
<1>7. WordAt(s3, 1) = a
  <2>1. s2 \in Seq(Byte) /\ 1 \in 1 .. Len(s2) - 3
    BY <1>3
  <2>2. WordAt(s3, 1) = WordAt(s2, 1)
    BY <1>5, <2>1, FrontStays, Zenon
  <2>3. QED
    BY <1>4, <2>2
<1>8. WordAt(s3, 5) = b
  <2>1. s2 \in Seq(Byte) /\ 5 \in 1 .. Len(s2) - 3
    BY <1>3
  <2>2. WordAt(s3, 5) = WordAt(s2, 5)
    BY <1>5, <2>1, FrontStays, Zenon
  <2>3. QED
    BY <1>3, <2>2
<1>9. Longer(s4, s3, c)
  BY <1>6, WordBehind
<1>10. header = s4
  BY DEF s4, s3, s2, s1, header
<1> HIDE DEF s4, header
<1>11. s4 \in Seq(Byte) /\ Len(s4) = 16
  BY <1>6, <1>9 DEF Longer
<1>12. WordAt(s4, 1) = a
  <2>1. s3 \in Seq(Byte) /\ 1 \in 1 .. Len(s3) - 3
    BY <1>6
  <2>2. WordAt(s4, 1) = WordAt(s3, 1)
    BY <1>9, <2>1, FrontStays, Zenon
  <2>3. QED
    BY <1>7, <2>2
<1>13. WordAt(s4, 5) = b
  <2>1. s3 \in Seq(Byte) /\ 5 \in 1 .. Len(s3) - 3
    BY <1>6
  <2>2. WordAt(s4, 5) = WordAt(s3, 5)
    BY <1>9, <2>1, FrontStays, Zenon
  <2>3. QED
    BY <1>8, <2>2
<1>14. WordAt(s4, 9) = c
  <2>1. s3 \in Seq(Byte) /\ 9 \in 1 .. Len(s3) - 3
    BY <1>6
  <2>2. WordAt(s4, 9) = WordAt(s3, 9)
    BY <1>9, <2>1, FrontStays, Zenon
  <2>3. QED
    BY <1>6, <2>2
<1>15. QED
  BY <1>10, <1>11, <1>12, <1>13, <1>14 DEF TellsNumbers, header

\* What Number reads is a number.
LEMMA NumberType ==
  ASSUME NEW digits \in Seq(0 .. 9)
  PROVE  Number(digits) \in Nat
<1>1. Len(digits) \in Nat
  OBVIOUS
<1>2. PICK g \in [0 .. Len(digits) -> Nat] : Number(digits) = g[Len(digits)]
  BY <1>1, NumberIs
<1>3. QED
  BY <1>1, <1>2

\* The time of a packet that can be captured.
LEMMA SplitType ==
  ASSUME NEW p \in Packets
  PROVE  /\ SplitTimestamp(p.time)[1] \in Word32
         /\ SplitTimestamp(p.time)[2] \in Nat
<1> DEFINE t == p.time
           whole == t.whole
           milli == whole % 1000
           less == IF whole \in RoundedDown THEN 1 ELSE 0
<1>1. /\ whole \in Nat /\ t.digits \in Seq(0 .. 9)
      /\ SplitTimestamp(t)[1] \div 65536 < 65536
  BY PacketsAssumption
<1>2. whole \in RoundedDown => milli # 0
  BY RoundingAssumption
<1>3. Number(t.digits) \in Nat
  BY <1>1, NumberType
<1>4. CASE IsMicroseconds(t)
  <2>1. SplitTimestamp(t) = <<whole, Number(t.digits)>>
    BY <1>4 DEF SplitTimestamp
  <2>2. SplitTimestamp(t)[1] = whole /\ SplitTimestamp(t)[2] = Number(t.digits)
    BY <2>1
  <2>3. QED
    BY <1>1, <1>3, <2>2 DEF Word32
<1>5. CASE ~IsMicroseconds(t)
  <2>1. SplitTimestamp(t) = <<whole \div 1000, 1000 * milli - less>>
    BY <1>5 DEF SplitTimestamp
  <2>2. /\ SplitTimestamp(t)[1] = whole \div 1000
        /\ SplitTimestamp(t)[2] = 1000 * milli - less
    BY <2>1
  <2>3. /\ milli \in Nat /\ whole \div 1000 \in Nat
        /\ less \in {0, 1} /\ (less = 1 => milli # 0)
    BY <1>1, <1>2
  <2> HIDE DEF milli, less
  <2>4. 1000 * milli - less \in Nat
    BY <2>3
  <2>5. QED
    BY <1>1, <2>2, <2>3, <2>4 DEF Word32
<1>6. QED
  BY <1>4, <1>5

\* The numbers in the header of a record have 32 bits.
LEMMA RecordNumbers ==
  ASSUME NEW p \in Packets
  PROVE  /\ SplitTimestamp(p.time)[1] \in Word32
         /\ MakeLessThanAMillion(SplitTimestamp(p.time)[2]) \in Word32
         /\ PacketLength(p.data) \in Word32
<1>1. SplitTimestamp(p.time)[1] \in Word32 /\ SplitTimestamp(p.time)[2] \in Nat
  BY SplitType
<1>2. p.data \in Seq(Byte) /\ Fits(p.data)
  BY PacketsAssumption
<1>3. PacketLength(p.data) \in Nat /\ PacketLength(p.data) < 65536
  BY <1>2, Lengths
<1>4. PacketLength(p.data) \div 65536 < 65536
  BY <1>3
<1> DEFINE n == MakeLessThanAMillion(SplitTimestamp(p.time)[2])
<1>5. n \in Nat /\ n <= 1000000
  BY <1>1, LessIs
<1> HIDE DEF n
<1>6. n \div 65536 < 65536
  BY <1>5
<1>7. n \in Word32
  BY <1>5, <1>6 DEF Word32
<1>8. QED
  BY <1>1, <1>3, <1>4, <1>7 DEF Word32, n

\* The header of the file.
LEMMA GlobalHeaderBytes ==
  GlobalHeader \in Seq(Byte) /\ Len(GlobalHeader) = 24
<1> DEFINE magic == <<161, 178, 195, 212>>
           major == Half(2)
           minor == Half(4)
           zero == Word(0)
           snap == Word(65536)
           link == Word(101)
           s1 == magic \o major
           s2 == s1 \o minor
           s3 == s2 \o zero
           s4 == s3 \o zero
           s5 == s4 \o snap
           s6 == s5 \o link
<1>1. magic \in Seq(Byte) /\ Len(magic) = 4
  BY DEF Byte
<1>2. major \in Seq(Byte) /\ Len(major) = 2
  BY HalfBytes
<1>3. minor \in Seq(Byte) /\ Len(minor) = 2
  BY HalfBytes
<1>4. zero \in Seq(Byte) /\ Len(zero) = 4
  <2>1. 0 \in Nat /\ 0 \div 65536 < 65536
    OBVIOUS
  <2>2. QED
    BY <2>1, WordBytes
<1>5. snap \in Seq(Byte) /\ Len(snap) = 4
  <2>1. 65536 \in Nat /\ 65536 \div 65536 < 65536
    OBVIOUS
  <2>2. QED
    BY <2>1, WordBytes, SMT
<1>6. link \in Seq(Byte) /\ Len(link) = 4
  <2>1. 101 \in Nat /\ 101 \div 65536 < 65536
    OBVIOUS
  <2>2. QED
    BY <2>1, WordBytes
<1>7. GlobalHeader = magic \o major \o minor \o zero \o zero \o snap \o link
  BY SMT DEF GlobalHeader
<1> HIDE DEF magic, major, minor, zero, snap, link
<1>8. /\ magic \in Seq(Byte) /\ major \in Seq(Byte)
      /\ minor \in Seq(Byte) /\ zero \in Seq(Byte)
      /\ snap \in Seq(Byte) /\ link \in Seq(Byte)
  BY <1>1, <1>2, <1>3, <1>4, <1>5, <1>6
<1>9. s1 \in Seq(Byte) /\ Len(s1) = Len(magic) + Len(major)
  BY <1>8, ConcatElements
<1> HIDE DEF s1
<1>10. s2 \in Seq(Byte) /\ Len(s2) = Len(s1) + Len(minor)
  BY <1>8, <1>9, ConcatElements
<1> HIDE DEF s2
<1>11. s3 \in Seq(Byte) /\ Len(s3) = Len(s2) + Len(zero)
  BY <1>8, <1>10, ConcatElements
<1> HIDE DEF s3
<1>12. s4 \in Seq(Byte) /\ Len(s4) = Len(s3) + Len(zero)
  BY <1>8, <1>11, ConcatElements
<1> HIDE DEF s4
<1>13. s5 \in Seq(Byte) /\ Len(s5) = Len(s4) + Len(snap)
  BY <1>8, <1>12, ConcatElements
<1> HIDE DEF s5
<1>14. s6 \in Seq(Byte) /\ Len(s6) = Len(s5) + Len(link)
  BY <1>8, <1>13, ConcatElements
<1> HIDE DEF s6
<1>15. Len(s6) = 24
  BY <1>1, <1>2, <1>3, <1>4, <1>5, <1>6, <1>9, <1>10, <1>11, <1>12, <1>13,
     <1>14
<1>16. GlobalHeader = s6
  BY <1>7 DEF s6, s5, s4, s3, s2, s1
<1>17. QED
  BY <1>14, <1>15, <1>16

\* Every chunk is as long as the stream counts it.
LEMMA ChunkBytes ==
  ASSUME NEW chunk \in Chunk
  PROVE  Bytes(chunk) \in Seq(Byte) /\ Len(Bytes(chunk)) = LengthOf(chunk)
<1>1. CASE chunk = Header
  <2>1. chunk.part = "file"
    BY <1>1 DEF Header
  <2>2. Bytes(chunk) = GlobalHeader /\ LengthOf(chunk) = 24
    BY <2>1 DEF Bytes, LengthOf
  <2>3. QED
    BY <2>2, GlobalHeaderBytes
<1>2. CASE chunk \in [part : {"record"}, packet : Packets]
  <2> DEFINE p == chunk.packet
             a == SplitTimestamp(p.time)[1]
             b == MakeLessThanAMillion(SplitTimestamp(p.time)[2])
             l == PacketLength(p.data)
  <2>1. chunk.part = "record" /\ p \in Packets
    BY <1>2
  <2>2. Bytes(chunk) = RecordHeader(p) /\ LengthOf(chunk) = 16
    BY <2>1 DEF Bytes, LengthOf
  <2>3. RecordHeader(p) = Word(a) \o Word(b) \o Word(l) \o Word(l)
    BY DEF RecordHeader
  <2>4. a \in Word32 /\ b \in Word32 /\ l \in Word32
    BY <2>1, RecordNumbers
  <2> HIDE DEF a, b, l
  <2>5. TellsNumbers(RecordHeader(p), a, b, l)
    BY <2>3, <2>4, RecordTells
  <2>6. QED
    BY <2>2, <2>5 DEF TellsNumbers
<1>3. CASE chunk \in [part : {"datagram"}, packet : Packets]
  <2> DEFINE p == chunk.packet
             g == GeneratePacket(OptionsOf(p.channel), p.data)
  <2>1. chunk.part = "datagram" /\ p \in Packets
    BY <1>3
  <2>2. Bytes(chunk) = Datagram(p) /\ LengthOf(chunk) = PacketLength(p.data)
    BY <2>1 DEF Bytes, LengthOf
  <2>3. p.channel \in Channel /\ p.data \in Seq(Byte) /\ Fits(p.data)
    BY <2>1, PacketsAssumption
  <2>4. Datagram(p) = g
    BY DEF Datagram
  <2>5. g \in Seq(Byte) /\ Len(g) = PacketLength(p.data)
    BY <2>3, PacketTells, SMTT(30)
  <2>6. QED
    BY <2>2, <2>4, <2>5
<1>4. QED
  BY <1>1, <1>2, <1>3 DEF Chunk

\* Types hold whenever the stream is in order.
LEMMA StreamTypes == StreamInv => TypeOK
<1> SUFFICES ASSUME StreamInv PROVE TypeOK
  OBVIOUS
<1>1. TypeInv
  BY DEF StreamInv
<1>2. ASSUME NEW i \in DOMAIN readable
      PROVE  /\ Bytes(readable[i]) \in Seq(Byte)
             /\ Len(Bytes(readable[i])) = LengthOf(readable[i])
  <2>1. readable[i] \in Chunk
    BY <1>1 DEF TypeInv
  <2>2. QED
    BY <2>1, ChunkBytes
<1>3. QED
  BY <1>1, <1>2 DEF TypeInv, TypeOK

-----------------------------------------------------------------------------
(* What a reader gets back. *)

\* Numbers of at most six digits, and numbers with a digit before the sixth.
SixDigits == {n \in Nat : n < 1000000}
Large(n) == n > 100000

\* How makeLessThanAMillion goes on.
LEMMA LessSteps ==
  ASSUME NEW n \in Nat
  PROVE  /\ n <= 1000000 => MakeLessThanAMillion(n) = n
         /\ n > 1000000 =>
              MakeLessThanAMillion(n) = MakeLessThanAMillion(n \div 10)
<1>1. PICK g : /\ \A i : MakeLessThanAMillion(i) = g[i]
               /\ \A i \in Nat :
                    g[i] = IF i > 1000000 THEN g[i \div 10] ELSE i
  BY LessIs
<1>2. g[n] = IF n > 1000000 THEN g[n \div 10] ELSE n
  BY <1>1, SMT
<1>3. QED
  BY <1>1, <1>2, SMT

\* A number of six digits stays as it is.
LEMMA SixDigitsStay ==
  ASSUME NEW n \in SixDigits
  PROVE  n \in Nat /\ MakeLessThanAMillion(n) = n
<1>1. n \in Nat /\ n <= 1000000
  BY SMT DEF SixDigits
<1>2. QED
  BY <1>1, LessSteps, SMT

\* The last digit of a number with seven is cut off.
LEMMA SeventhIsCut ==
  ASSUME NEW n \in Nat, Large(n), NEW d \in 0 .. 9
  PROVE  /\ 10 * n + d \in Nat /\ Large(10 * n + d)
         /\ MakeLessThanAMillion(10 * n + d) = MakeLessThanAMillion(n)
<1> DEFINE k == 10 * n + d
<1>1. k \in Nat /\ k > 1000000 /\ k \div 10 = n
  BY SMT DEF Large
<1> HIDE DEF k
<1>2. MakeLessThanAMillion(k) = MakeLessThanAMillion(k \div 10)
  BY <1>1, LessSteps, SMT
<1>3. Large(k)
  BY <1>1, SMT DEF Large
<1>4. QED
  BY <1>1, <1>2, <1>3, SMT DEF k

\* g reads the first m digits, one after the other.
Reads(g, digits, m) ==
  g[0] = 0 /\ \A i \in 1 .. m : g[i] = 10 * g[i - 1] + digits[i]

\* The number of six digits.
OfSix(d) ==
  10 * (10 * (10 * (10 * (10 * d[1] + d[2]) + d[3]) + d[4]) + d[5]) + d[6]

\* It has no more digits.
LEMMA OfSixDigits ==
  ASSUME NEW a \in 0 .. 9, NEW b \in 0 .. 9, NEW c \in 0 .. 9,
         NEW d \in 0 .. 9, NEW e \in 0 .. 9, NEW f \in 0 .. 9
  PROVE  10 * (10 * (10 * (10 * (10 * a + b) + c) + d) + e) + f \in SixDigits
BY SMT DEF SixDigits

\* Six digits are read.
LEMMA ReadSix ==
  ASSUME NEW g, NEW d, NEW m \in Nat, m >= 6, Reads(g, d, m), d[1] \in 0 .. 9
  PROVE  g[6] = OfSix(d)
<1>1. /\ 1 \in 1 .. m /\ 2 \in 1 .. m /\ 3 \in 1 .. m
      /\ 4 \in 1 .. m /\ 5 \in 1 .. m /\ 6 \in 1 .. m
  OBVIOUS
<1>2. /\ g[1] = 10 * g[1 - 1] + d[1] /\ g[2] = 10 * g[2 - 1] + d[2]
      /\ g[3] = 10 * g[3 - 1] + d[3] /\ g[4] = 10 * g[4 - 1] + d[4]
      /\ g[5] = 10 * g[5 - 1] + d[5] /\ g[6] = 10 * g[6 - 1] + d[6]
  BY <1>1, Zenon DEF Reads
<1>3. /\ 1 - 1 = 0 /\ 2 - 1 = 1 /\ 3 - 1 = 2
      /\ 4 - 1 = 3 /\ 5 - 1 = 4 /\ 6 - 1 = 5
  OBVIOUS
<1>4. /\ g[1] = 10 * g[0] + d[1] /\ g[2] = 10 * g[1] + d[2]
      /\ g[3] = 10 * g[2] + d[3] /\ g[4] = 10 * g[3] + d[4]
      /\ g[5] = 10 * g[4] + d[5] /\ g[6] = 10 * g[5] + d[6]
  BY <1>2, <1>3, Zenon
<1>5. g[1] = d[1]
  <2>1. g[0] = 0
    BY DEF Reads
  <2>2. g[1] = 10 * 0 + d[1]
    BY <1>4, <2>1, Zenon
  <2>3. QED
    BY <2>2
<1>6. QED
  BY <1>4, <1>5, Zenon DEF OfSix

\* The first six digits of more are a number of six digits.
LEMMA FirstSix ==
  ASSUME NEW digits \in Seq(0 .. 9), NEW g, NEW m \in Nat, m >= 6,
         m = Len(digits), Reads(g, digits, m)
  PROVE  /\ g[6] \in SixDigits
         /\ Number(SubSeq(digits, 1, 6)) = g[6]
<1> DEFINE six == SubSeq(digits, 1, 6)
<1>1. six \in Seq(0 .. 9) /\ Len(six) = 6
  OBVIOUS
<1>2. \A i \in 1 .. 6 : six[i] = digits[i] /\ digits[i] \in 0 .. 9
  OBVIOUS
<1> HIDE DEF six
<1>3. PICK h : Number(six) = h[6] /\ Reads(h, six, 6)
  <2> DEFINE k == 6
  <2>1. k \in Nat /\ k = Len(six)
    BY <1>1
  <2> HIDE DEF k
  <2>2. PICK h \in [0 .. k -> Nat] :
          /\ Number(six) = h[k]
          /\ h[0] = 0
          /\ \A i \in 1 .. k : h[i] = 10 * h[i - 1] + six[i]
    BY <1>1, <2>1, NumberIs
  <2>3. Number(six) = h[k] /\ Reads(h, six, k)
    BY <2>2, Zenon DEF Reads
  <2>4. QED
    BY <2>3, Zenon DEF k
<1>4. /\ digits[1] \in 0 .. 9 /\ digits[2] \in 0 .. 9 /\ digits[3] \in 0 .. 9
      /\ digits[4] \in 0 .. 9 /\ digits[5] \in 0 .. 9 /\ digits[6] \in 0 .. 9
      /\ six[1] = digits[1] /\ six[2] = digits[2] /\ six[3] = digits[3]
      /\ six[4] = digits[4] /\ six[5] = digits[5] /\ six[6] = digits[6]
  BY <1>2
<1>5. g[6] = OfSix(digits)
  BY <1>4, ReadSix
<1>6. h[6] = OfSix(six)
  <2>1. 6 \in Nat /\ 6 >= 6
    OBVIOUS
  <2>2. QED
    BY <1>3, <1>4, <2>1, ReadSix
<1>7. OfSix(six) = OfSix(digits)
  BY <1>4, Zenon DEF OfSix
<1>8. OfSix(digits) \in SixDigits
  <2> DEFINE a == digits[1]
             b == digits[2]
             c == digits[3]
             d == digits[4]
             e == digits[5]
             f == digits[6]
  <2>1. /\ a \in 0 .. 9 /\ b \in 0 .. 9 /\ c \in 0 .. 9
        /\ d \in 0 .. 9 /\ e \in 0 .. 9 /\ f \in 0 .. 9
    BY <1>4
  <2>2. OfSix(digits)
          = 10 * (10 * (10 * (10 * (10 * a + b) + c) + d) + e) + f
    BY ZenonT(40) DEF OfSix
  <2> HIDE DEF a, b, c, d, e, f
  <2>3. 10 * (10 * (10 * (10 * (10 * a + b) + c) + d) + e) + f \in SixDigits
    BY <2>1, OfSixDigits, ZenonT(40)
  <2>4. QED
    BY <2>2, <2>3
<1>9. QED
  BY <1>3, <1>5, <1>6, <1>7, <1>8 DEF six

\* Digits behind the sixth are cut off, if there is no zero at the front.
LEMMA CutToSix ==
  ASSUME NEW digits \in Seq(0 .. 9), NEW m \in Nat, m = Len(digits),
         \/ m = 6
         \/ m > 6 /\ Large(Number(SubSeq(digits, 1, 6)))
  PROVE  MakeLessThanAMillion(Number(digits)) = Number(SubSeq(digits, 1, 6))
<1> DEFINE first == Number(SubSeq(digits, 1, 6))
<1>1. PICK g \in [0 .. m -> Nat] :
        /\ Number(digits) = g[m]
        /\ g[0] = 0
        /\ \A i \in 1 .. m : g[i] = 10 * g[i - 1] + digits[i]
  BY NumberIs
<1>2. g[6] \in SixDigits /\ first = g[6]
  BY <1>1, FirstSix, SMTT(30) DEF Reads
<1> HIDE DEF first
<1>3. MakeLessThanAMillion(g[6]) = first
  BY <1>2, SixDigitsStay
<1>4. CASE m = 6
  BY <1>1, <1>3, <1>4 DEF first
<1>5. CASE m > 6 /\ Large(first)
  <2> DEFINE S == {i \in Nat : i \in 6 .. m =>
                     Large(g[i]) /\ MakeLessThanAMillion(g[i]) = first}
  <2>1. 0 \in S
    OBVIOUS
  <2>2. ASSUME NEW i \in Nat, i \in S PROVE i + 1 \in S
    <3>1. SUFFICES ASSUME i + 1 \in 6 .. m
                   PROVE  /\ Large(g[i + 1])
                          /\ MakeLessThanAMillion(g[i + 1]) = first
      OBVIOUS
    <3>2. CASE i + 1 = 6
      BY <1>2, <1>3, <1>5, <3>2
    <3>3. CASE i + 1 # 6
      <4>1. /\ i \in 6 .. m /\ i + 1 \in 1 .. m /\ (i + 1) - 1 = i
            /\ i \in 0 .. m /\ i + 1 \in 0 .. m
        BY <3>1, <3>3
      <4>2. Large(g[i]) /\ MakeLessThanAMillion(g[i]) = first
        BY <2>2, <4>1
      <4>3. g[i + 1] = 10 * g[i] + digits[i + 1]
        BY <1>1, <4>1
      <4>4. g[i] \in Nat /\ g[i + 1] \in Nat /\ digits[i + 1] \in 0 .. 9
        BY <4>1
      <4>5. /\ Large(10 * g[i] + digits[i + 1])
            /\ MakeLessThanAMillion(10 * g[i] + digits[i + 1])
                 = MakeLessThanAMillion(g[i])
        BY <4>2, <4>4, SeventhIsCut
      <4>6. QED
        BY <4>2, <4>3, <4>5
    <3>4. QED
      BY <3>2, <3>3
  <2> HIDE DEF S
  <2>3. \A i \in Nat : i \in S
    BY <2>1, <2>2, NatSubset
  <2>4. m \in S /\ m \in 6 .. m
    BY <1>5, <2>3
  <2>5. MakeLessThanAMillion(g[m]) = first
    BY <2>4 DEF S
  <2>6. QED
    BY <1>1, <2>5 DEF first
<1>6. QED
  BY <1>4, <1>5 DEF first

\* What the header of a record tells of the time.
LEMMA TimeIsTold ==
  ASSUME NEW p \in Packets
  PROVE  Told(p.time, SplitTimestamp(p.time)[1],
              MakeLessThanAMillion(SplitTimestamp(p.time)[2]))
<1> DEFINE t == p.time
           whole == t.whole
           seconds == SplitTimestamp(t)[1]
           micros == MakeLessThanAMillion(SplitTimestamp(t)[2])
<1>1. whole \in Nat /\ t.digits \in Seq(0 .. 9)
  BY PacketsAssumption
<1>2. ASSUME ~IsMicroseconds(t)
      PROVE  /\ micros \in SixDigits
             /\ 1000 * whole - (1000000 * seconds + micros) \in {0, 1}
  <2> DEFINE milli == whole % 1000
             q == whole \div 1000
             less == IF whole \in RoundedDown THEN 1 ELSE 0
             n == 1000 * milli - less
  <2>1. SplitTimestamp(t) = <<q, n>>
    BY <1>2, SMT DEF SplitTimestamp
  <2>2. seconds = q /\ micros = MakeLessThanAMillion(n)
    BY <2>1, SMT
  <2>3. less \in {0, 1} /\ (less = 1 => milli # 0)
    BY RoundingAssumption, SMT
  <2> HIDE DEF seconds, micros, whole
  <2>4. /\ milli \in Nat /\ milli < 1000 /\ q \in Nat
        /\ whole = 1000 * q + milli
    BY <1>1, SMT
  <2> HIDE DEF milli, q, less
  <2>5. n \in SixDigits
    BY <2>3, <2>4, SMT DEF SixDigits
  <2>6. micros = n
    BY <2>2, <2>5, SixDigitsStay, SMT
  <2>7. 1000 * whole - (1000000 * q + n) = less
    BY <2>3, <2>4, SMT
  <2> HIDE DEF n
  <2>8. QED
    BY <2>2, <2>3, <2>5, <2>6, <2>7
<1>3. ASSUME NEW first, first = Number(SubSeq(t.digits, 1, 6)),
             \/ Len(t.digits) = 6
             \/ Len(t.digits) > 6 /\ Large(first)
      PROVE  seconds = whole /\ micros = first
  <2> DEFINE length == Len(t.digits)
  <2>1. length \in Nat /\ length >= 6
    <3>1. length \in Nat
      BY <1>1
    <3>2. length = 6 \/ length > 6
      BY <1>3
    <3> HIDE DEF length
    <3>3. QED
      BY <3>1, <3>2
  <2>2. IsMicroseconds(t)
    BY <1>1, <2>1 DEF IsMicroseconds
  <2>3. SplitTimestamp(t) = <<whole, Number(t.digits)>>
    BY <2>2 DEF SplitTimestamp
  <2>4. MakeLessThanAMillion(Number(t.digits)) = first
    BY <1>1, <1>3, <2>1, CutToSix
  <2>5. QED
    BY <2>3, <2>4
<1>4. QED
  BY <1>2, <1>3, SMT DEF Told, Large, SixDigits

\* The chunk that a packet holds is found behind its headers.
LEMMA ChunkFound ==
  ASSUME NEW data \in Seq(Byte), NEW packet, NEW n \in Nat, n = Len(data),
         \A i \in 1 .. n : packet[28 + i] = data[i]
  PROVE  SubSeq(packet, 29, 28 + n) = data
<1> DEFINE found == SubSeq(packet, 29, 28 + n)
<1>1. \A i \in 1 .. n : data[i] \in Byte
  BY ElementOfSeq
<1>2. \A j \in 29 .. 28 + n : packet[j] \in Byte
  <2>1. ASSUME NEW j \in 29 .. 28 + n PROVE packet[j] \in Byte
    <3> DEFINE i == j - 28
    <3>1. i \in 1 .. n /\ 28 + i = j
      OBVIOUS
    <3> HIDE DEF i
    <3>2. packet[28 + i] = data[i]
      BY <3>1
    <3>3. QED
      BY <1>1, <3>1, <3>2
  <2>2. QED
    BY <2>1
<1>3. 29 \in Int /\ 28 + n \in Int
  OBVIOUS
<1>4. /\ found \in Seq(Byte)
      /\ Len(found) = IF 29 <= 28 + n THEN (28 + n) - 29 + 1 ELSE 0
      /\ \A i \in 1 .. (28 + n) - 29 + 1 : found[i] = packet[29 + i - 1]
  BY <1>2, <1>3, SubSeqProperties
<1> HIDE DEF found
<1>5. Len(found) = n
  BY <1>4
<1>6. ASSUME NEW i \in 1 .. n PROVE found[i] = data[i]
  <2>1. i \in 1 .. (28 + n) - 29 + 1 /\ 29 + i - 1 = 28 + i
    OBVIOUS
  <2>2. found[i] = packet[29 + i - 1]
    BY <1>4, <2>1
  <2>3. QED
    BY <2>1, <2>2
<1>7. found = data
  BY <1>4, <1>5, <1>6, SeqEqual
<1>8. QED
  BY <1>7 DEF found

\* What a reader of a record gets back of a packet.
ReadBack(p, header, packet) ==
  LET ports == <<HalfAt(packet, 21), HalfAt(packet, 23)>>
  IN  /\ WordAt(header, 9) = Len(packet)
      /\ HalfAt(packet, 3) = Len(packet)
      /\ {c \in Channel : ports = <<OptionsOf(c).srcPort,
                                    OptionsOf(c).destPort>>}
           = {p.channel}
      /\ SubSeq(packet, 29, 20 + HalfAt(packet, 25)) = p.data
      /\ Told(p.time, WordAt(header, 1), WordAt(header, 5))

\* It is the packet.
LEMMA RecordIsReadable ==
  ASSUME NEW p \in Packets
  PROVE  ReadBack(p, RecordHeader(p), Datagram(p))
<1> DEFINE a == SplitTimestamp(p.time)[1]
           b == MakeLessThanAMillion(SplitTimestamp(p.time)[2])
           l == PacketLength(p.data)
           header == RecordHeader(p)
           packet == Datagram(p)
           ch == p.channel
           data == p.data
           u == UdpLength(data)
<1>1. ch \in Channel /\ data \in Seq(Byte) /\ Fits(data)
  BY PacketsAssumption
<1>2. Told(p.time, a, b)
  BY TimeIsTold
<1>3. TellsNumbers(header, a, b, l)
  <2>1. a \in Word32 /\ b \in Word32 /\ l \in Word32
    BY RecordNumbers
  <2>2. header = Word(a) \o Word(b) \o Word(l) \o Word(l)
    BY DEF RecordHeader
  <2> HIDE DEF a, b, l, header
  <2>3. QED
    BY <2>1, <2>2, RecordTells
<1> HIDE DEF a, b, header
<1>4. WordAt(header, 1) = a /\ WordAt(header, 5) = b /\ WordAt(header, 9) = l
  BY <1>3 DEF TellsNumbers
<1>5. u = 8 + Len(data)
  BY <1>1, Lengths
<1> HIDE DEF l, data, ch, u
<1>6. packet = GeneratePacket(OptionsOf(ch), data)
  BY DEF Datagram, ch, data
<1> HIDE DEF packet
<1>7. /\ Len(packet) = PacketLength(data)
      /\ HalfAt(packet, 3) = PacketLength(data)
      /\ HalfAt(packet, 21) = OptionsOf(ch).srcPort
      /\ HalfAt(packet, 23) = OptionsOf(ch).destPort
      /\ HalfAt(packet, 25) = UdpLength(data)
      /\ \A i \in 1 .. Len(data) : packet[28 + i] = data[i]
  <2>1. /\ Len(packet) = PacketLength(data)
        /\ HalfAt(packet, 3) = PacketLength(data)
    BY <1>1, <1>6, PacketTells
  <2>2. /\ HalfAt(packet, 21) = OptionsOf(ch).srcPort
        /\ HalfAt(packet, 23) = OptionsOf(ch).destPort
        /\ HalfAt(packet, 25) = UdpLength(data)
    BY <1>1, <1>6, PacketTells, SMTT(30)
  <2>3. \A i \in 1 .. Len(data) : packet[28 + i] = data[i]
    BY <1>1, <1>6, PacketTells
  <2>4. QED
    BY <2>1, <2>2, <2>3
<1>8. Len(packet) = l /\ HalfAt(packet, 3) = l
  BY <1>7 DEF l, data
<1>9. {c \in Channel : <<HalfAt(packet, 21), HalfAt(packet, 23)>>
                         = <<OptionsOf(c).srcPort, OptionsOf(c).destPort>>}
        = {ch}
  <2>1. \A c \in Channel :
          OptionsOf(c).srcPort = OptionsOf(ch).srcPort => c = ch
    BY <1>1, Options
  <2>2. QED
    BY <1>1, <1>7, <2>1
<1>10. SubSeq(packet, 29, 20 + HalfAt(packet, 25)) = data
  <2> DEFINE n == Len(data)
  <2>1. n \in Nat
    BY <1>1
  <2>2. 20 + HalfAt(packet, 25) = 28 + n
    BY <1>5, <1>7, <2>1 DEF u
  <2>3. SubSeq(packet, 29, 28 + n) = data
    BY <1>1, <1>7, <2>1, ChunkFound
  <2>4. QED
    BY <2>2, <2>3
<1>11. ReadBack(p, header, packet)
  BY <1>2, <1>4, <1>8, <1>9, <1>10 DEF ReadBack, ch, data
<1>12. QED
  BY <1>11 DEF header, packet

\* What a complete record in the file consists of.
LEMMA RecordInFile ==
  ASSUME StreamInv, NEW k \in 1 .. Len(written), 2 * k + 1 <= Len(file)
  PROVE  /\ written[k] \in Packets
         /\ Bytes(file[2 * k]) = RecordHeader(written[k])
         /\ Bytes(file[2 * k + 1]) = Datagram(written[k])
<1>1. TypeInv /\ CountInv /\ FileInv
  BY DEF StreamInv
<1>2. written[k] \in Packets
  BY <1>1 DEF TypeInv
<1>3. 2 * k \in 1 .. Len(file) /\ 2 * k + 1 \in 1 .. Len(file)
  BY <1>1 DEF CountInv
<1>4. file[2 * k] = ChunkAt(2 * k) /\ file[2 * k + 1] = ChunkAt(2 * k + 1)
  BY <1>1, <1>3 DEF FileInv
<1>5. /\ ChunkAt(2 * k) = [part |-> "record", packet |-> written[k]]
      /\ ChunkAt(2 * k + 1) = [part |-> "datagram", packet |-> written[k]]
  <2>1. /\ 2 * k # 1 /\ 2 * k + 1 # 1
        /\ (2 * k) \div 2 = k /\ (2 * k + 1) \div 2 = k
        /\ (2 * k) % 2 = 0 /\ (2 * k + 1) % 2 = 1
    OBVIOUS
  <2>2. QED
    BY <2>1 DEF ChunkAt
<1>6. QED
  BY <1>2, <1>4, <1>5 DEF Bytes

\* Records can be read whenever the stream is in order.
LEMMA StreamReadable == StreamInv => Readable
<1> SUFFICES ASSUME StreamInv PROVE Readable
  OBVIOUS
<1>1. ASSUME NEW k \in 1 .. Len(written), 2 * k + 1 <= Len(file)
      PROVE  ReadBack(written[k], Bytes(file[2 * k]), Bytes(file[2 * k + 1]))
  BY <1>1, RecordInFile, RecordIsReadable
<1>2. QED
  BY <1>1, Zenon DEF Readable, ReadBack

-----------------------------------------------------------------------------
(* The checksum of the header. *)

\* g adds up the first m words, one after the other.
Adds(g, bytes, m) ==
  g[0] = 0 /\ \A i \in 1 .. m : g[i] = g[i - 1] + LittleEndian(bytes, i)

\* Ten words.
TenWords(bytes) ==
  LittleEndian(bytes, 1) + LittleEndian(bytes, 2) + LittleEndian(bytes, 3)
    + LittleEndian(bytes, 4) + LittleEndian(bytes, 5)
    + LittleEndian(bytes, 6) + LittleEndian(bytes, 7)
    + LittleEndian(bytes, 8) + LittleEndian(bytes, 9)
    + LittleEndian(bytes, 10)

\* They are added up.
LEMMA AddTen ==
  ASSUME NEW g, NEW bytes, Adds(g, bytes, 10), LittleEndian(bytes, 1) \in Nat
  PROVE  g[10] = TenWords(bytes)
<1> DEFINE w(i) == LittleEndian(bytes, i)
<1>1. /\ 1 \in 1 .. 10 /\ 2 \in 1 .. 10 /\ 3 \in 1 .. 10 /\ 4 \in 1 .. 10
      /\ 5 \in 1 .. 10 /\ 6 \in 1 .. 10 /\ 7 \in 1 .. 10 /\ 8 \in 1 .. 10
      /\ 9 \in 1 .. 10 /\ 10 \in 1 .. 10
  OBVIOUS
<1>2. /\ 1 - 1 = 0 /\ 2 - 1 = 1 /\ 3 - 1 = 2 /\ 4 - 1 = 3 /\ 5 - 1 = 4
      /\ 6 - 1 = 5 /\ 7 - 1 = 6 /\ 8 - 1 = 7 /\ 9 - 1 = 8 /\ 10 - 1 = 9
  OBVIOUS
<1>3. g[0] = 0 /\ \A i \in 1 .. 10 : g[i] = g[i - 1] + w(i)
  BY DEF Adds
<1> HIDE DEF w
<1>4. /\ g[1] = g[1 - 1] + w(1) /\ g[2] = g[2 - 1] + w(2)
      /\ g[3] = g[3 - 1] + w(3) /\ g[4] = g[4 - 1] + w(4)
      /\ g[5] = g[5 - 1] + w(5) /\ g[6] = g[6 - 1] + w(6)
      /\ g[7] = g[7 - 1] + w(7) /\ g[8] = g[8 - 1] + w(8)
      /\ g[9] = g[9 - 1] + w(9) /\ g[10] = g[10 - 1] + w(10)
  BY <1>1, <1>3, Zenon
<1>5. /\ g[1] = g[0] + w(1) /\ g[2] = g[1] + w(2)
      /\ g[3] = g[2] + w(3) /\ g[4] = g[3] + w(4)
      /\ g[5] = g[4] + w(5) /\ g[6] = g[5] + w(6)
      /\ g[7] = g[6] + w(7) /\ g[8] = g[7] + w(8)
      /\ g[9] = g[8] + w(9) /\ g[10] = g[9] + w(10)
  BY <1>2, <1>4, Zenon
<1>6. g[1] = w(1)
  <2>1. g[1] = 0 + w(1)
    BY <1>3, <1>5, Zenon
  <2>2. w(1) \in Nat
    BY DEF w
  <2>3. QED
    BY <2>1, <2>2
<1>7. g[10] = w(1) + w(2) + w(3) + w(4) + w(5)
                + w(6) + w(7) + w(8) + w(9) + w(10)
  BY <1>5, <1>6, Zenon
<1>8. QED
  BY <1>7 DEF TenWords, w

\* The sum of 20 bytes.
LEMMA SumTen ==
  ASSUME NEW bytes \in Seq(Byte), Len(bytes) = 20
  PROVE  SumOfWords(bytes) = TenWords(bytes)
<1> DEFINE m == 10
<1>1. m \in Nat /\ m = Len(bytes) \div 2
  OBVIOUS
<1>2. LittleEndian(bytes, 1) \in Nat
  <2>1. 1 \in 1 .. Len(bytes) \div 2
    OBVIOUS
  <2>2. QED
    BY <2>1, LittleEndianType
<1> HIDE DEF m
<1>3. PICK g \in [0 .. m -> Nat] :
        /\ SumOfWords(bytes) = g[m]
        /\ g[0] = 0
        /\ \A i \in 1 .. m : g[i] = g[i - 1] + LittleEndian(bytes, i)
  BY <1>1, SumOfWordsIs
<1>4. Adds(g, bytes, m)
  BY <1>3, Zenon DEF Adds
<1>5. g[m] = TenWords(bytes)
  BY <1>2, <1>4, AddTen DEF m
<1>6. QED
  BY <1>3, <1>5

\* The number two bytes are, when they are read in the other order.
Turned(n) == (n \div 256) + 256 * (n % 256)

\* What the words of an IPv4 header but that of the checksum add up to.
RestOfSum(length, number) == 5315 + Turned(length) + Turned(number)

\* The bytes of x are those of an IPv4 header but for its checksum.
SameButSum(x, length, number) ==
  /\ x[1] = 69 /\ x[2] = 0
  /\ x[3] = length \div 256 /\ x[4] = length % 256
  /\ x[5] = number \div 256 /\ x[6] = number % 256
  /\ x[7] = 64 /\ x[8] = 0 /\ x[9] = 64 /\ x[10] = 17
  /\ x[13] = 127 /\ x[14] = 0 /\ x[15] = 0 /\ x[16] = 1
  /\ x[17] = 127 /\ x[18] = 0 /\ x[19] = 0 /\ x[20] = 1

\* What an IPv4 header adds up to.
LEMMA HeaderSum ==
  ASSUME NEW length \in Word16, NEW number \in Word16, NEW x \in Seq(Byte),
         Len(x) = 20, SameButSum(x, length, number)
  PROVE  SumOfWords(x) = RestOfSum(length, number) + (x[11] + 256 * x[12])
<1>1. LittleEndian(x, 6) = x[11] + 256 * x[12]
  <2>1. 2 * 6 - 1 = 11 /\ 2 * 6 = 12
    OBVIOUS
  <2>2. QED
    BY <2>1, Zenon DEF LittleEndian
<1>2. /\ LittleEndian(x, 1) = x[1] + 256 * x[2]
      /\ LittleEndian(x, 2) = x[3] + 256 * x[4]
      /\ LittleEndian(x, 3) = x[5] + 256 * x[6]
      /\ LittleEndian(x, 4) = x[7] + 256 * x[8]
      /\ LittleEndian(x, 5) = x[9] + 256 * x[10]
      /\ LittleEndian(x, 7) = x[13] + 256 * x[14]
      /\ LittleEndian(x, 8) = x[15] + 256 * x[16]
      /\ LittleEndian(x, 9) = x[17] + 256 * x[18]
      /\ LittleEndian(x, 10) = x[19] + 256 * x[20]
  <2>1. /\ 2 * 1 - 1 = 1 /\ 2 * 1 = 2 /\ 2 * 2 - 1 = 3 /\ 2 * 2 = 4
        /\ 2 * 3 - 1 = 5 /\ 2 * 3 = 6 /\ 2 * 4 - 1 = 7 /\ 2 * 4 = 8
        /\ 2 * 5 - 1 = 9 /\ 2 * 5 = 10 /\ 2 * 7 - 1 = 13 /\ 2 * 7 = 14
        /\ 2 * 8 - 1 = 15 /\ 2 * 8 = 16 /\ 2 * 9 - 1 = 17 /\ 2 * 9 = 18
        /\ 2 * 10 - 1 = 19 /\ 2 * 10 = 20
    OBVIOUS
  <2>2. QED
    BY <2>1, ZenonT(40) DEF LittleEndian
<1>3. /\ LittleEndian(x, 1) = 69 /\ LittleEndian(x, 4) = 64
      /\ LittleEndian(x, 5) = 4416
      /\ LittleEndian(x, 7) = 127 /\ LittleEndian(x, 8) = 256
      /\ LittleEndian(x, 9) = 127 /\ LittleEndian(x, 10) = 256
      /\ LittleEndian(x, 2) = Turned(length)
      /\ LittleEndian(x, 3) = Turned(number)
  <2>1. /\ LittleEndian(x, 1) = 69 + 256 * 0
        /\ LittleEndian(x, 4) = 64 + 256 * 0
        /\ LittleEndian(x, 5) = 64 + 256 * 17
        /\ LittleEndian(x, 7) = 127 + 256 * 0
        /\ LittleEndian(x, 8) = 0 + 256 * 1
        /\ LittleEndian(x, 9) = 127 + 256 * 0
        /\ LittleEndian(x, 10) = 0 + 256 * 1
    <3>1. /\ x[1] = 69 /\ x[2] = 0 /\ x[7] = 64 /\ x[8] = 0
          /\ x[9] = 64 /\ x[10] = 17
          /\ x[13] = 127 /\ x[14] = 0 /\ x[15] = 0 /\ x[16] = 1
          /\ x[17] = 127 /\ x[18] = 0 /\ x[19] = 0 /\ x[20] = 1
      BY Zenon DEF SameButSum
    <3>2. LittleEndian(x, 1) = 69 + 256 * 0
      BY <1>2, <3>1, ZenonT(40)
    <3>3. LittleEndian(x, 4) = 64 + 256 * 0
      BY <1>2, <3>1, ZenonT(40)
    <3>4. LittleEndian(x, 5) = 64 + 256 * 17
      BY <1>2, <3>1, ZenonT(40)
    <3>5. LittleEndian(x, 7) = 127 + 256 * 0
      BY <1>2, <3>1, ZenonT(40)
    <3>6. LittleEndian(x, 8) = 0 + 256 * 1
      BY <1>2, <3>1, Zenon
    <3>7. LittleEndian(x, 9) = 127 + 256 * 0
      BY <1>2, <3>1, Zenon
    <3>8. LittleEndian(x, 10) = 0 + 256 * 1
      BY <1>2, <3>1, Zenon
    <3>9. QED
      BY <3>2, <3>3, <3>4, <3>5, <3>6, <3>7, <3>8
  <2>2. /\ 69 + 256 * 0 = 69 /\ 64 + 256 * 0 = 64 /\ 64 + 256 * 17 = 4416
        /\ 127 + 256 * 0 = 127 /\ 0 + 256 * 1 = 256
    BY SMT
  <2>3. /\ LittleEndian(x, 2) = Turned(length)
        /\ LittleEndian(x, 3) = Turned(number)
    BY <1>2, ZenonT(40) DEF SameButSum, Turned
  <2>4. QED
    BY <2>1, <2>2, <2>3, SMT
<1>4. Turned(length) \in Nat /\ Turned(number) \in Nat
  BY SMT DEF Turned, Word16
<1>5. x[11] \in Nat /\ x[12] \in Nat
  <2>1. 11 \in 1 .. Len(x) /\ 12 \in 1 .. Len(x)
    OBVIOUS
  <2>2. x[11] \in Byte /\ x[12] \in Byte
    BY <2>1, ElementOfSeq
  <2>3. Byte \subseteq Nat
    BY DEF Byte
  <2>4. QED
    BY <2>2, <2>3, Zenon
<1> DEFINE a == Turned(length)
           b == Turned(number)
           c == x[11]
           d == x[12]
<1>6. TenWords(x) = 69 + a + b + 64 + 4416 + (c + 256 * d)
                      + 127 + 256 + 127 + 256
  BY <1>1, <1>3, SMT DEF TenWords
<1> HIDE DEF a, b, c, d
<1>7. /\ a \in Nat /\ b \in Nat /\ c \in Nat /\ d \in Nat
  BY <1>4, <1>5, SMT DEF a, b, c, d
<1>8. TenWords(x) = 5315 + a + b + (c + 256 * d)
  BY <1>6, <1>7, SMT
<1>9. SumOfWords(x) = TenWords(x)
  BY SumTen
<1>10. QED
  BY <1>8, <1>9, SMT DEF RestOfSum, a, b, c, d

\* The checksum of that sum.
Complement(sum) == 65535 - (((sum \div 65536) + (sum % 65536)) % 65536)

\* Of a sum that is not too large, one carry is enough.
LEMMA OneCarry ==
  ASSUME NEW sum \in Nat, sum <= 71362
  PROVE  (sum + Complement(sum)) % 65535 = 0 /\ sum + Complement(sum) > 0
<1> DEFINE h == sum \div 65536
           l == sum % 65536
<1>1. /\ h \in Nat /\ l \in Nat /\ l < 65536 /\ sum = 65536 * h + l
      /\ h <= 1 /\ (h = 1 => l <= 5826)
  BY SMT
<1>2. Complement(sum) = 65535 - ((h + l) % 65536)
  BY SMT DEF Complement
<1> HIDE DEF h, l
<1>3. h + l \in Nat /\ h + l < 65536
  BY <1>1, SMT
<1>4. (h + l) % 65536 = h + l
  BY <1>3, SMT
<1>5. sum + Complement(sum) = 65535 * (h + 1)
  BY <1>1, <1>2, <1>4, SMT
<1>6. CASE h = 0
  BY <1>5, <1>6, SMT
<1>7. CASE h = 1
  BY <1>5, <1>7, SMT
<1>8. QED
  BY <1>1, <1>6, <1>7, SMT

\* The bytes of an IPv4 header but for its checksum.
LEMMA IpIsSame ==
  ASSUME NEW c \in Channel, NEW data \in Seq(Byte), Fits(data),
         NEW sum \in Word16
  PROVE  /\ SameButSum(IpOf(c, data, sum), PacketLength(data),
                       OptionsOf(c).identification)
         /\ IpOf(c, data, sum)[11] = sum \div 256
         /\ IpOf(c, data, sum)[12] = sum % 256
<1> DEFINE l == PacketLength(data)
           n == OptionsOf(c).identification
           ip == IpHeader(l, n, sum)
<1>1. ip = IpOf(c, data, sum)
  BY DEF IpOf
<1> HIDE DEF l, n
<1>2. /\ ip[1] = 69 /\ ip[2] = 0
      /\ ip[3] = l \div 256 /\ ip[4] = l % 256
      /\ ip[5] = n \div 256 /\ ip[6] = n % 256
      /\ ip[7] = 64 /\ ip[8] = 0 /\ ip[9] = 64 /\ ip[10] = 17
      /\ ip[11] = sum \div 256 /\ ip[12] = sum % 256
  BY DEF IpHeader
<1>3. /\ ip[13] = 127 /\ ip[14] = 0 /\ ip[15] = 0 /\ ip[16] = 1
      /\ ip[17] = 127 /\ ip[18] = 0 /\ ip[19] = 0 /\ ip[20] = 1
  BY DEF IpHeader
<1> HIDE DEF ip
<1>4. SameButSum(ip, l, n)
  BY <1>2, <1>3, Zenon DEF SameButSum
<1>5. QED
  BY <1>1, <1>2, <1>4 DEF l, n

\* What the words of a header add up to without the checksum.
LEMMA RestIsSmall ==
  ASSUME NEW length \in Word16, NEW number \in {1, 2}
  PROVE  /\ RestOfSum(length, number) \in Nat
         /\ RestOfSum(length, number) <= 71362
<1>1. Turned(length) \in Nat /\ Turned(length) <= 65535
  <2> DEFINE a == length \div 256
             b == length % 256
  <2>1. a \in Byte /\ b \in Byte
    BY Halves
  <2>2. Turned(length) = a + 256 * b
    BY DEF Turned
  <2> HIDE DEF a, b
  <2>3. QED
    BY <2>1, <2>2, SMT DEF Byte
<1>2. Turned(number) \in Nat /\ Turned(number) <= 512
  <2>1. CASE number = 1
    BY <2>1, SMT DEF Turned
  <2>2. CASE number = 2
    BY <2>2, SMT DEF Turned
  <2>3. QED
    BY <2>1, <2>2
<1>3. QED
  BY <1>1, <1>2, SMT DEF RestOfSum

\* The checksum in the IPv4 header of a packet.
LEMMA IpChecksum ==
  ASSUME NEW c \in Channel, NEW data \in Seq(Byte), Fits(data)
  PROVE  ComputeChecksum(IpOf(c, data, 0))
           = Complement(RestOfSum(PacketLength(data),
                                  OptionsOf(c).identification))
<1> DEFINE l == PacketLength(data)
           n == OptionsOf(c).identification
           ip == IpOf(c, data, 0)
<1>1. l \in Word16 /\ n \in Word16 /\ 0 \in Word16
  BY Numbers
<1>2. ip \in Seq(Byte) /\ Len(ip) = 20
  BY <1>1, HeadersTell
<1>3. SameButSum(ip, l, n) /\ ip[11] = 0 \div 256 /\ ip[12] = 0 % 256
  BY <1>1, IpIsSame
<1> HIDE DEF l, n, ip
<1>4. SumOfWords(ip) = RestOfSum(l, n) + (ip[11] + 256 * ip[12])
  BY <1>1, <1>2, <1>3, HeaderSum
<1>5. ip[11] = 0 /\ ip[12] = 0
  <2>1. 0 \div 256 = 0 /\ 0 % 256 = 0
    OBVIOUS
  <2>2. QED
    BY <1>3, <2>1, Zenon
<1>6. RestOfSum(l, n) \in Nat
  <2>1. n \in {1, 2}
    BY Options DEF n
  <2>2. QED
    BY <1>1, <2>1, RestIsSmall
<1>7. SumOfWords(ip) = RestOfSum(l, n)
  BY <1>4, <1>5, <1>6
<1>8. ComputeChecksum(ip) = Complement(SumOfWords(ip))
  BY SMT DEF ComputeChecksum, Complement
<1>9. QED
  BY <1>7, <1>8 DEF l, n, ip

\* The first 20 bytes of a packet.
LEMMA HeaderOf ==
  ASSUME NEW packet \in Seq(Byte), Len(packet) >= 20
  PROVE  LET h == SubSeq(packet, 1, 20)
         IN  /\ h \in Seq(Byte) /\ Len(h) = 20
             /\ \A i \in 1 .. 20 : h[i] = packet[i]
<1> DEFINE first == 1
           last == 20
           h == SubSeq(packet, first, last)
<1>1. \A i \in 1 .. 20 : packet[i] \in Byte
  OBVIOUS
<1>2. /\ first \in Int /\ last \in Int
      /\ \A i \in first .. last : packet[i] \in Byte
  BY <1>1
<1>3. /\ first <= last /\ last - first + 1 = 20
      /\ \A i \in 1 .. 20 : first + i - 1 = i
  OBVIOUS
<1> HIDE DEF first, last
<1>4. /\ h \in Seq(Byte)
      /\ Len(h) = IF first <= last THEN last - first + 1 ELSE 0
      /\ \A i \in 1 .. last - first + 1 : h[i] = packet[first + i - 1]
  BY <1>2, SubSeqProperties
<1> HIDE DEF h
<1>5. Len(h) = 20 /\ \A i \in 1 .. 20 : h[i] = packet[i]
  BY <1>3, <1>4
<1>6. QED
  BY <1>4, <1>5 DEF h, first, last

\* A header with 0 for its checksum.
Zeroed(h) == [i \in 1 .. 20 |-> IF i \in {11, 12} THEN 0 ELSE h[i]]

\* It is a header that differs in the two bytes only.
LEMMA ZeroedHeader ==
  ASSUME NEW h \in Seq(Byte), Len(h) = 20
  PROVE  /\ Zeroed(h) \in Seq(Byte) /\ Len(Zeroed(h)) = 20
         /\ Zeroed(h)[11] = 0 /\ Zeroed(h)[12] = 0
         /\ \A i \in 1 .. 20 : i # 11 /\ i # 12 => Zeroed(h)[i] = h[i]
<1>1. \A i \in 1 .. 20 : h[i] \in Byte
  BY ElementOfSeq
<1>2. 0 \in Byte
  BY DEF Byte
<1>3. Zeroed(h) \in [1 .. 20 -> Byte]
  BY <1>1, <1>2 DEF Zeroed
<1>4. Zeroed(h) \in Seq(Byte)
  <2>1. PICK n \in Nat : n = 20
    OBVIOUS
  <2>2. Zeroed(h) \in [1 .. n -> Byte]
    BY <1>3, <2>1
  <2>3. Zeroed(h) \in UNION {[1 .. m -> Byte] : m \in Nat}
    <3> DEFINE z == Zeroed(h)
    <3> HIDE DEF z
    <3>1. z \in [1 .. n -> Byte]
      BY <2>2 DEF z
    <3>2. z \in UNION {[1 .. m -> Byte] : m \in Nat}
      BY <3>1
    <3>3. QED
      BY <3>2 DEF z
  <2>4. QED
    BY <2>3, SeqDef
<1>5. Len(Zeroed(h)) = 20
  BY <1>3, <1>4, LenProperties
<1>6. Zeroed(h)[11] = 0 /\ Zeroed(h)[12] = 0
  BY DEF Zeroed
<1>7. \A i \in 1 .. 20 : i # 11 /\ i # 12 => Zeroed(h)[i] = h[i]
  BY DEF Zeroed
<1>8. QED
  BY <1>4, <1>5, <1>6, <1>7

\* Exchanging the two bytes of a right checksum leaves it right only when
\* they are the same.
LEMMA TurnedIsWrong ==
  ASSUME NEW rest \in Nat, NEW hi \in Byte, NEW lo \in Byte,
         (rest + (256 * hi + lo)) % 65535 = 0
  PROVE  (rest + (hi + 256 * lo)) % 65535 = 0 <=> hi = lo
<1> DEFINE right == rest + (256 * hi + lo)
           turned == rest + (hi + 256 * lo)
           q == right \div 65535
           r == turned \div 65535
<1>1. /\ hi \in Nat /\ hi <= 255 /\ lo \in Nat /\ lo <= 255
      /\ right \in Nat /\ turned \in Nat
  BY SMT DEF Byte
<1>2. turned = right + 255 * (lo - hi)
  BY <1>1, SMT
<1>3. right % 65535 = 0
  OBVIOUS
<1> HIDE DEF right, turned
<1>4. q \in Nat /\ right = 65535 * q
  BY <1>1, <1>3, SMT
<1>5. ASSUME hi = lo PROVE turned % 65535 = 0
  BY <1>1, <1>2, <1>3, <1>5, SMT
<1>6. ASSUME turned % 65535 = 0 PROVE hi = lo
  <2>1. r \in Nat /\ turned = 65535 * r
    BY <1>1, <1>6, SMT
  <2> HIDE DEF q, r
  <2>2. 257 * (r - q) = lo - hi
    BY <1>1, <1>2, <1>4, <2>1, SMT
  <2>3. r = q
    BY <1>1, <1>4, <2>1, <2>2, SMT
  <2>4. lo - hi = 0
    BY <1>1, <1>4, <2>2, <2>3, SMT
  <2>5. QED
    BY <1>1, <2>4, SMT
<1>7. QED
  BY <1>5, <1>6 DEF turned

-----------------------------------------------------------------------------
(* The theorems. *)

(***************************************************************************)
(* Types are respected, and every chunk that waits in the stream is a      *)
(* sequence of bytes, of the length the stream counts it with: each number *)
(* in it, a checksum too, has the size of its field (pcap-generator.ts:    *)
(* 32-75, pseudo-udp.ts:9-17, 33-83).                                      *)
(***************************************************************************)
THEOREM CaptureTypeCorrect == SafeSpec => []TypeOK
BY AlwaysInOrder, StreamTypes, PTL

(***************************************************************************)
(* A reader gets back from every complete record the channel, the time and *)
(* the chunk, whatever is captured and when (pcap-generator.ts:61-75,      *)
(* pseudo-udp.ts:33-83).                                                   *)
(***************************************************************************)
THEOREM CaptureReadable == SafeSpec => []Readable
BY AlwaysInOrder, StreamReadable, PTL

(***************************************************************************)
(* The checksum of the IPv4 header (pseudo-udp.ts:9-17, 67-68), for every  *)
(* chunk that fits into a packet.  As a number it is right: one carry is   *)
(* enough, and with it the words of the header add up to all ones.  As it  *)
(* stands in the file it is not: the words are summed as little-endian and *)
(* the result is written as big-endian, so the header a reader finds adds  *)
(* up only when the two bytes of the checksum are the same.                *)
(***************************************************************************)
THEOREM OneCarryIsEnough ==
  ASSUME NEW p \in Packets
  PROVE  LET header == SubSeq(Datagram(p), 1, 20)
             rest   == SumOfWords(Zeroed(header))
             sum    == 256 * header[11] + header[12]
         IN  /\ (rest + sum) % 65535 = 0 /\ rest + sum > 0
             /\ SumOfWords(header) % 65535 = 0 <=> header[11] = header[12]
<1> DEFINE packet == Datagram(p)
           ch == p.channel
           data == p.data
           l == PacketLength(data)
           n == OptionsOf(ch).identification
           sum == ComputeChecksum(IpOf(ch, data, 0))
           ip == IpOf(ch, data, sum)
           h == SubSeq(packet, 1, 20)
           z == Zeroed(h)
           rest == RestOfSum(l, n)
<1>1. ch \in Channel /\ data \in Seq(Byte) /\ Fits(data)
  BY PacketsAssumption
<1>2. packet = GeneratePacket(OptionsOf(ch), data)
  BY DEF Datagram
<1> HIDE DEF packet, ch, data
<1>3. /\ packet \in Seq(Byte) /\ Len(packet) = l
      /\ sum \in Word16 /\ \A i \in 1 .. 20 : packet[i] = ip[i]
  BY <1>1, <1>2, PacketTells
<1>4. l \in Word16 /\ n \in Word16 /\ n \in {1, 2} /\ l \in Nat /\ l >= 28
  <2>1. l \in Word16 /\ n \in Word16
    BY <1>1, Numbers
  <2>2. n \in {1, 2}
    BY <1>1, Options
  <2>3. l \in Nat /\ l >= 28
    <3>1. /\ l = 28 + (Len(data) + Len(Padding(data)))
          /\ Padding(data) \in Seq(Byte)
      BY <1>1, Lengths
    <3>2. QED
      BY <1>1, <3>1
  <2>4. QED
    BY <2>1, <2>2, <2>3
<1>5. sum = Complement(rest)
  BY <1>1, IpChecksum
<1> HIDE DEF sum
<1>6. SameButSum(ip, l, n) /\ ip[11] = sum \div 256 /\ ip[12] = sum % 256
  BY <1>1, <1>3, IpIsSame, SMTT(30)
<1>7. rest \in Nat /\ rest <= 71362
  BY <1>4, RestIsSmall
<1> HIDE DEF l, n, ip
<1>8. /\ h \in Seq(Byte) /\ Len(h) = 20
      /\ \A i \in 1 .. 20 : h[i] = ip[i]
  <2>1. packet \in Seq(Byte) /\ Len(packet) >= 20
    BY <1>3, <1>4
  <2>2. /\ h \in Seq(Byte) /\ Len(h) = 20
        /\ \A i \in 1 .. 20 : h[i] = packet[i]
    BY <2>1, HeaderOf
  <2> HIDE DEF h
  <2>3. QED
    BY <1>3, <2>2
<1> HIDE DEF h
<1>9. /\ z \in Seq(Byte) /\ Len(z) = 20 /\ z[11] = 0 /\ z[12] = 0
      /\ \A i \in 1 .. 20 : i # 11 /\ i # 12 => z[i] = h[i]
  BY <1>8, ZeroedHeader
<1> HIDE DEF z
<1>10. SameButSum(h, l, n) /\ SameButSum(z, l, n)
  <2>1. \A i \in 1 .. 20 : i # 11 /\ i # 12 => h[i] = ip[i] /\ z[i] = ip[i]
    BY <1>8, <1>9
  <2>2. \A x : (\A i \in 1 .. 20 : i # 11 /\ i # 12 => x[i] = ip[i])
                 => SameButSum(x, l, n)
    <3> SUFFICES ASSUME NEW x,
                        \A i \in 1 .. 20 : i # 11 /\ i # 12 => x[i] = ip[i]
                 PROVE  SameButSum(x, l, n)
      OBVIOUS
    <3>1. /\ x[1] = ip[1] /\ x[2] = ip[2] /\ x[3] = ip[3] /\ x[4] = ip[4]
          /\ x[5] = ip[5] /\ x[6] = ip[6] /\ x[7] = ip[7] /\ x[8] = ip[8]
          /\ x[9] = ip[9] /\ x[10] = ip[10]
          /\ x[13] = ip[13] /\ x[14] = ip[14] /\ x[15] = ip[15]
          /\ x[16] = ip[16] /\ x[17] = ip[17] /\ x[18] = ip[18]
          /\ x[19] = ip[19] /\ x[20] = ip[20]
      OBVIOUS
    <3>2. /\ ip[1] = 69 /\ ip[2] = 0
          /\ ip[3] = l \div 256 /\ ip[4] = l % 256
          /\ ip[5] = n \div 256 /\ ip[6] = n % 256
          /\ ip[7] = 64 /\ ip[8] = 0 /\ ip[9] = 64 /\ ip[10] = 17
      BY <1>6, Zenon DEF SameButSum
    <3>3. /\ ip[13] = 127 /\ ip[14] = 0 /\ ip[15] = 0 /\ ip[16] = 1
          /\ ip[17] = 127 /\ ip[18] = 0 /\ ip[19] = 0 /\ ip[20] = 1
      BY <1>6, Zenon DEF SameButSum
    <3>4. /\ x[1] = 69 /\ x[2] = 0
          /\ x[3] = l \div 256 /\ x[4] = l % 256
          /\ x[5] = n \div 256 /\ x[6] = n % 256
          /\ x[7] = 64 /\ x[8] = 0 /\ x[9] = 64 /\ x[10] = 17
      BY <3>1, <3>2
    <3>5. /\ x[13] = 127 /\ x[14] = 0 /\ x[15] = 0 /\ x[16] = 1
          /\ x[17] = 127 /\ x[18] = 0 /\ x[19] = 0 /\ x[20] = 1
      BY <3>1, <3>3
    <3>6. QED
      BY <3>4, <3>5, Zenon DEF SameButSum
  <2>3. QED
    BY <2>1, <2>2
<1> HIDE DEF rest
<1>11. SumOfWords(z) = rest
  <2>1. SumOfWords(z) = rest + (z[11] + 256 * z[12])
    BY <1>4, <1>9, <1>10, HeaderSum DEF rest
  <2>2. QED
    BY <1>7, <1>9, <2>1
<1>12. SumOfWords(h) = rest + (h[11] + 256 * h[12])
  BY <1>4, <1>8, <1>10, HeaderSum DEF rest
<1>13. h[11] = sum \div 256 /\ h[12] = sum % 256
  BY <1>6, <1>8
<1>14. h[11] \in Byte /\ h[12] \in Byte /\ 256 * h[11] + h[12] = sum
  BY <1>3, <1>13, Halves
<1>15. (rest + sum) % 65535 = 0 /\ rest + sum > 0
  BY <1>5, <1>7, OneCarry
<1>16. SumOfWords(h) % 65535 = 0 <=> h[11] = h[12]
  <2>1. (rest + (256 * h[11] + h[12])) % 65535 = 0
    BY <1>14, <1>15
  <2>2. (rest + (h[11] + 256 * h[12])) % 65535 = 0 <=> h[11] = h[12]
    BY <1>7, <1>14, <2>1, TurnedIsWrong
  <2>3. QED
    BY <1>12, <2>2
<1>17. /\ (SumOfWords(z) + (256 * h[11] + h[12])) % 65535 = 0
       /\ SumOfWords(z) + (256 * h[11] + h[12]) > 0
  BY <1>11, <1>14, <1>15
<1>18. QED
  BY <1>16, <1>17 DEF z, h, packet

=============================================================================
