----------------------------- MODULE FifoBuffer -----------------------------
(***************************************************************************)
(* The receive buffer of packages/tpm2-proxy/src/tpm2/utils.ts: a fixed    *)
(* array of bytes and the number of bytes in use, as a record that every   *)
(* operation maps to a new record.  The array is indexed from 1, so the    *)
(* bytes in use are those at 1 .. position.                                *)
(*                                                                         *)
(* A cell holds a number.  Packet fields are one cell wide (Tpm2Tcti), so  *)
(* a cell is any natural number rather than a number below 256.            *)
(***************************************************************************)
EXTENDS Integers, Sequences

CONSTANT Capacity   \* Buffer.alloc(65536)

ASSUME CapacityAssumption == Capacity \in Nat \ {0}

Cell == Nat

Fifo == [buffer : [1 .. Capacity -> Cell], position : Nat]

EmptyFifo == [buffer |-> [i \in 1 .. Capacity |-> 0], position |-> 0]

\* Mutant of Push: the chunk is copied to the start of the array.
PushAtStart(f, chunk) ==
  [buffer   |-> [i \in 1 .. Capacity |->
                   IF i <= Len(chunk) THEN chunk[i] ELSE f.buffer[i]],
   position |-> f.position + Len(chunk)]

(***************************************************************************)
(* Buffer.copy stops at the end of the target, so what does not fit is     *)
(* dropped without a sign; the position advances by the whole chunk.       *)
(***************************************************************************)
Push(f, chunk) ==
  LET stop == f.position + Len(chunk)
  IN  [buffer   |-> [i \in 1 .. Capacity |->
                       IF i \in (f.position + 1) .. stop
                       THEN chunk[i - f.position]
                       ELSE f.buffer[i]],
       position |-> stop]

GetLength(f) == f.position

\* Buffer.alloc fills with zeros what Buffer.copy has no source for.
Peek(f, length) ==
  [i \in 1 .. length |-> IF i <= Capacity THEN f.buffer[i] ELSE 0]

(***************************************************************************)
(* TypedArray.copyWithin(0, start, end): the cells after start, up to the  *)
(* one at end, move to the front; an empty range moves nothing.            *)
(***************************************************************************)
CopyToFront(buffer, start, end) ==
  [i \in 1 .. Capacity |->
     IF i + start <= end /\ i + start <= Capacity
     THEN buffer[i + start]
     ELSE buffer[i]]

\* Mutant of Pop: the bytes are handed out and kept.
PopKeepsPosition(f, length) ==
  [f EXCEPT !.buffer = CopyToFront(f.buffer, length, f.position - length)]

(***************************************************************************)
(* pop subtracts the length from the position first and then passes the    *)
(* reduced position as the end of the range to move.                       *)
(***************************************************************************)
Pop(f, length) ==
  LET rest == f.position - length
  IN  [buffer |-> CopyToFront(f.buffer, length, rest), position |-> rest]

=============================================================================
