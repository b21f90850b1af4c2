--------------------- MODULE SwtpmUpstreamDriverProofs ---------------------
(***************************************************************************)
(* Proofs about the upstream driver: what it means that connect() has      *)
(* resolved, when a listener may throw, its types, and what resume() holds *)
(* back, for any address texts, any number of chunks and writes and a user *)
(* who closes at any time.                                                 *)
(***************************************************************************)
EXTENDS SwtpmUpstreamDriver, TLAPS

(***************************************************************************)
(* How the promise, the flags of connect() and the sockets hang together.  *)
(* state.resolved may be set after a rejection, so the promise, not the    *)
(* flag, tells how connect() went.                                         *)
(***************************************************************************)
ConnectInv ==
  /\ promise \in {"none", "pending", "resolved", "rejected"}
  /\ rejected \in BOOLEAN
  /\ resolved \in BOOLEAN
  /\ ready \in [Channel -> BOOLEAN]
  /\ socket \in [Channel -> {"none", "connecting", "open", "closed"}]
  /\ promise = "none" => \A c \in Channel : socket[c] = "none"
  /\ rejected => promise = "rejected"
  /\ promise = "resolved" => resolved
  /\ resolved => \A c \in Channel : ready[c]
  /\ \A c \in Channel : ready[c] => socket[c] \in {"open", "closed"}

\* Unless close() was called, a socket is held, and the control socket with
\* it: connect() begins with that one.
HeldInv ==
  ~closeCalled =>
    \A c \in Channel : socket[c] # "none" => held["ctrl"] /\ held[c]

DriverInv == ConnectInv /\ HeldInv /\ ThrowsOnlyAfterClose

-----------------------------------------------------------------------------

\* The 'ready' listeners, the only place where connect() may resolve and the
\* only one that may throw.
LEMMA ReadyKeepsInv ==
  ASSUME DriverInv, NEW c \in Channel, Ready(c)
  PROVE  DriverInv'
<1> USE DEF DriverInv, ConnectInv, HeldInv
<1>1. /\ promise # "none" /\ promise # "resolved"
      /\ socket[c] = "connecting"
      /\ socket' = [socket EXCEPT ![c] = "open"]
      /\ ready' = [ready EXCEPT ![c] = TRUE]
      /\ UNCHANGED <<rejected, held, closeCalled>>
  BY DEF Ready, user
<1>2. CASE held["ctrl"] /\ held[c]
  <2>1. alive' /\ OnConnect(ready')
    BY <1>2 DEF Ready
  <2>2. QED
    BY <1>1, <2>1 DEF OnConnect, ThrowsOnlyAfterClose, Channel
<1>3. CASE ~(held["ctrl"] /\ held[c])
  <2>1. UNCHANGED <<resolved, promise>>
    BY <1>3 DEF Ready
  <2>2. closeCalled
    BY <1>1, <1>3 DEF Channel
  <2>3. QED
    BY <1>1, <2>1, <2>2 DEF ThrowsOnlyAfterClose, Channel
<1>4. QED
  BY <1>2, <1>3

\* Every step keeps the invariant.  A failure rejects only a pending promise.
LEMMA StepKeepsInv == DriverInv /\ [Next]_vars => DriverInv'
<1> SUFFICES ASSUME DriverInv, [Next]_vars PROVE DriverInv'
  OBVIOUS
<1> USE DEF DriverInv, ConnectInv, HeldInv, ThrowsOnlyAfterClose, connection,
            user
<1>1. CASE Connect
  <2> DEFINE Opens(begun) ==
        /\ promise' = IF begun = Channel THEN "pending" ELSE "rejected"
        /\ socket' = [c \in Channel |-> IF c \in begun
                                        THEN "connecting" ELSE "none"]
        /\ held' = [c \in Channel |-> c \in begun]
  <2>1. PICK begun \in SUBSET Channel :
          Opens(begun) /\ (begun # {} => "ctrl" \in begun)
    <3>1. PICK param \in Params : Opens(Begun(param))
      BY <1>1 DEF Connect
    <3>2. /\ Begun(param) \in SUBSET Channel
          /\ Begun(param) # {} => "ctrl" \in Begun(param)
      BY DEF Begun, Channel
    <3>3. QED
      BY <3>1, <3>2
  <2>2. /\ promise = "none" /\ ~rejected
        /\ \A c \in Channel : ~ready[c]
        /\ UNCHANGED <<alive, ready, rejected, resolved, closeCalled>>
    BY <1>1 DEF Connect
  <2>3. promise' \in {"pending", "rejected"}
    BY <2>1
  <2>4. ConnectInv'
    BY <2>1, <2>2, <2>3
  <2>5. HeldInv'
    <3>1. ASSUME NEW c \in Channel, socket'[c] # "none"
          PROVE  held'["ctrl"] /\ held'[c]
      <4>1. c \in begun /\ "ctrl" \in begun
        BY <2>1, <3>1
      <4>2. QED
        BY <2>1, <4>1, Zenon
    <3>2. QED
      BY <3>1
  <2>6. QED
    BY <2>2, <2>3, <2>4, <2>5
<1>2. CASE Resume
  BY <1>2 DEF Resume
<1>3. CASE Close
  BY <1>3 DEF Close
<1>4. ASSUME NEW c \in Channel, Ready(c)
      PROVE  DriverInv'
  BY <1>4, ReadyKeepsInv
<1>5. ASSUME NEW c \in Channel, SocketFails(c)
      PROVE  DriverInv'
  BY <1>5 DEF SocketFails, SocketClosed, OnError
<1>6. ASSUME NEW c \in Channel, SocketEnds(c)
      PROVE  DriverInv'
  BY <1>6 DEF SocketEnds, SocketClosed
<1>7. ASSUME NEW c \in Channel,
             PeerSends(c) \/ OnReceived(c) \/ Write(c) \/ Written(c)
      PROVE  DriverInv'
  BY <1>7 DEF PeerSends, OnReceived, Write, Written
<1>8. CASE UNCHANGED vars
  BY <1>8 DEF vars
<1>9. QED
  BY <1>1, <1>2, <1>3, <1>4, <1>5, <1>6, <1>7, <1>8 DEF Next

\* Before connect() nothing is held, and nothing has thrown.
LEMMA InitInv == Init => DriverInv
BY DEF Init, DriverInv, ConnectInv, HeldInv, ThrowsOnlyAfterClose

(***************************************************************************)
(* connect() resolves only when both sockets have been ready and none had  *)
(* failed before (swtpm-upstream.ts:66-80).                                *)
(***************************************************************************)
THEOREM ConnectsToBoth == SafeSpec => []ResolvedAfterBoth
<1>1. DriverInv => ResolvedAfterBoth
  BY DEF DriverInv, ConnectInv, ResolvedAfterBoth
<1>2. QED
  BY <1>1, InitInv, StepKeepsInv, PTL DEF SafeSpec

(***************************************************************************)
(* Only a close() before connect() has resolved makes a listener throw     *)
(* (swtpm-upstream.ts:84-99, 127-136).                                     *)
(***************************************************************************)
THEOREM ThrowsOnlyWhenClosed == SafeSpec => []ThrowsOnlyAfterClose
<1>1. DriverInv => ThrowsOnlyAfterClose
  BY DEF DriverInv
<1>2. QED
  BY <1>1, InitInv, StepKeepsInv, PTL DEF SafeSpec

-----------------------------------------------------------------------------

(***************************************************************************)
(* What bounds the counters: no more is under way than was begun, and each *)
(* socket adds its listener once, when it becomes ready.                   *)
(***************************************************************************)
CountInv ==
  /\ \A c \in Channel :
       /\ inbound[c] \in Nat /\ emitted[c] \in Nat
       /\ inbound[c] + emitted[c] <= MaxChunks
       /\ writing[c] \in Nat /\ wrote[c] \in Nat
       /\ writing[c] <= wrote[c] /\ wrote[c] <= MaxWrites
  /\ listeners \in Nat
  /\ listeners <= (IF ready["ctrl"] THEN 1 ELSE 0)
                  + (IF ready["data"] THEN 1 ELSE 0)

\* A socket that is open flows only after resume(): its listener has paused
\* it, or has thrown.
PauseInv ==
  /\ NothingBeforeResume
  /\ \A c \in Channel :
       alive /\ socket[c] = "open" /\ flowing[c] => resumed

\* Before connect() nothing flows and nothing is counted.
LEMMA TypesInit == Init => TypeOK /\ CountInv /\ PauseInv
<1> SUFFICES ASSUME Init PROVE TypeOK /\ CountInv /\ PauseInv
  OBVIOUS
<1>1. MaxChunks \in Nat /\ MaxWrites \in Nat
  BY BoundsAssumption
<1>2. \A c \in Channel : /\ inbound[c] = 0 /\ emitted[c] = 0
                         /\ writing[c] = 0 /\ wrote[c] = 0
                         /\ ~flowing[c] /\ ~ready[c]
  BY DEF Init
<1>3. TypeOK
  <2>1. 0 \in 0 .. MaxChunks /\ 0 \in 0 .. MaxWrites
    BY <1>1
  <2>2. /\ inbound \in [Channel -> 0 .. MaxChunks]
        /\ emitted \in [Channel -> 0 .. MaxChunks]
        /\ writing \in [Channel -> 0 .. MaxWrites]
        /\ wrote \in [Channel -> 0 .. MaxWrites]
    BY <2>1 DEF Init
  <2>3. /\ ready \in [Channel -> BOOLEAN]
        /\ held \in [Channel -> BOOLEAN]
        /\ flowing \in [Channel -> BOOLEAN]
        /\ closedFlag \in [Receiver -> BOOLEAN]
        /\ closeEvents \in [Receiver -> Nat]
    BY DEF Init
  <2>4. socket \in [Channel -> {"none", "connecting", "open", "closed"}]
    BY DEF Init
  <2>5. /\ alive \in BOOLEAN /\ rejected \in BOOLEAN /\ resolved \in BOOLEAN
        /\ resumed \in BOOLEAN /\ closeCalled \in BOOLEAN
    BY DEF Init
  <2>6. /\ promise \in {"none", "pending", "resolved", "rejected"}
        /\ listeners \in 0 .. 2
    BY DEF Init
  <2>7. QED
    BY <2>2, <2>3, <2>4, <2>5, <2>6 DEF TypeOK
<1>4. CountInv
  BY <1>1, <1>2 DEF Init, CountInv, Channel
<1>5. PauseInv
  BY <1>2 DEF PauseInv, NothingBeforeResume
<1>6. QED
  BY <1>3, <1>4, <1>5

\* A closed socket runs its listeners once and has none left.
LEMMA SocketClosedKeeps ==
  ASSUME TypeOK, CountInv, NEW c \in Channel, SocketClosed(c)
  PROVE  /\ socket' \in [Channel -> {"none", "connecting", "open", "closed"}]
         /\ socket'[c] = "closed"
         /\ \A d \in Channel \ {c} : socket'[d] = socket[d]
         /\ listeners' \in 0 .. 2 /\ listeners' <= listeners
         /\ closedFlag' \in [Receiver -> BOOLEAN]
         /\ closeEvents' \in [Receiver -> Nat]
<1>1. /\ socket' = [socket EXCEPT ![c] = "closed"]
      /\ socket \in [Channel -> {"none", "connecting", "open", "closed"}]
  BY DEF SocketClosed, TypeOK
<1>2. /\ listeners \in 0 .. 2
      /\ closedFlag \in [Receiver -> BOOLEAN]
      /\ closeEvents \in [Receiver -> Nat]
      /\ "ctrlSocket" \in Receiver
  BY DEF TypeOK, Receiver
<1>3. \/ listeners' = 0 /\ OnSocketClosed("ctrlSocket")
      \/ UNCHANGED closing
  BY DEF SocketClosed
<1>4. listeners' \in 0 .. 2 /\ listeners' <= listeners
  BY <1>2, <1>3 DEF closing
<1>5. \/ UNCHANGED <<closedFlag, closeEvents>>
      \/ /\ closedFlag' = [closedFlag EXCEPT !["ctrlSocket"] = TRUE]
         /\ closeEvents' = [closeEvents EXCEPT !["ctrlSocket"] = @ + 1]
  BY <1>3 DEF OnSocketClosed, closing
<1>6. /\ closedFlag' \in [Receiver -> BOOLEAN]
      /\ closeEvents' \in [Receiver -> Nat]
  <2>1. CASE UNCHANGED <<closedFlag, closeEvents>>
    BY <1>2, <2>1
  <2>2. CASE /\ closedFlag' = [closedFlag EXCEPT !["ctrlSocket"] = TRUE]
             /\ closeEvents' = [closeEvents EXCEPT !["ctrlSocket"] = @ + 1]
    <3>1. closedFlag' \in [Receiver -> BOOLEAN]
      BY <1>2, <2>2
    <3>2. closeEvents' \in [Receiver -> Nat]
      BY <1>2, <2>2
    <3>3. QED
      BY <3>1, <3>2
  <2>3. QED
    BY <1>5, <2>1, <2>2
<1>7. QED
  BY <1>1, <1>4, <1>6

\* The counters after a step on channel c.
LEMMA CountFrame ==
  ASSUME CountInv, NEW c \in Channel,
         \A d \in Channel \ {c} :
           /\ inbound'[d] = inbound[d] /\ emitted'[d] = emitted[d]
           /\ writing'[d] = writing[d] /\ wrote'[d] = wrote[d],
         inbound'[c] \in Nat, emitted'[c] \in Nat,
         inbound'[c] + emitted'[c] <= MaxChunks,
         writing'[c] \in Nat, wrote'[c] \in Nat,
         writing'[c] <= wrote'[c], wrote'[c] <= MaxWrites,
         UNCHANGED ready, listeners' \in Nat, listeners' <= listeners
  PROVE  CountInv'
<1>1. ASSUME NEW d \in Channel
      PROVE  /\ inbound'[d] \in Nat /\ emitted'[d] \in Nat
             /\ inbound'[d] + emitted'[d] <= MaxChunks
             /\ writing'[d] \in Nat /\ wrote'[d] \in Nat
             /\ writing'[d] <= wrote'[d] /\ wrote'[d] <= MaxWrites
  BY <1>1 DEF CountInv
<1>2. listeners' <= (IF ready'["ctrl"] THEN 1 ELSE 0)
                    + (IF ready'["data"] THEN 1 ELSE 0)
  BY DEF CountInv
<1>3. QED
  BY <1>1, <1>2 DEF CountInv

\* The invariant of the types, with what resume() and the listeners hold back.
TypesInv == TypeOK /\ CountInv /\ PauseInv /\ DriverInv

\* connect(): what it is given decides which sockets begin.
LEMMA ConnectTypes ==
  ASSUME TypesInv, Connect
  PROVE  (TypeOK /\ CountInv /\ PauseInv)'
<1>1. PICK begun :
        /\ promise' = IF begun = Channel THEN "pending" ELSE "rejected"
        /\ socket' = [c \in Channel |-> IF c \in begun
                                        THEN "connecting" ELSE "none"]
        /\ held' = [c \in Channel |-> c \in begun]
        /\ flowing' = [c \in Channel |-> c \in begun]
  BY DEF Connect
<1>2. UNCHANGED <<alive, ready, rejected, resolved, listeners, closedFlag,
                  closeEvents, inbound, emitted, writing, wrote, resumed,
                  closeCalled>>
  BY DEF Connect, closing, traffic, writes, user
<1>3. socket' \in [Channel -> {"none", "connecting", "open", "closed"}]
  BY <1>1
<1>4. promise' \in {"none", "pending", "resolved", "rejected"}
  BY <1>1
<1>5. held' \in [Channel -> BOOLEAN] /\ flowing' \in [Channel -> BOOLEAN]
  BY <1>1
<1>6. TypeOK'
  BY <1>2, <1>3, <1>4, <1>5 DEF TypesInv, TypeOK
<1>7. CountInv'
  BY <1>2 DEF TypesInv, CountInv
<1>8. \A c \in Channel : socket'[c] # "open"
  BY <1>1
<1>9. PauseInv'
  BY <1>2, <1>8 DEF TypesInv, PauseInv, NothingBeforeResume
<1>10. QED
  BY <1>6, <1>7, <1>9

\* A socket becomes ready: it is paused, or its listener throws.
LEMMA ReadyTypes ==
  ASSUME TypesInv, NEW c \in Channel, Ready(c)
  PROVE  (TypeOK /\ CountInv /\ PauseInv)'
<1>1. /\ alive /\ socket[c] = "connecting"
      /\ socket' = [socket EXCEPT ![c] = "open"]
      /\ ready' = [ready EXCEPT ![c] = TRUE]
      /\ UNCHANGED <<rejected, held, closedFlag, closeEvents, inbound,
                     emitted, writing, wrote, resumed, closeCalled>>
  BY DEF Ready, traffic, writes, user
<1>2. /\ alive' \in BOOLEAN
      /\ listeners' \in {listeners, listeners + 1}
      /\ promise' \in {promise, "resolved"}
      /\ resolved' \in {resolved, TRUE}
  BY <1>1 DEF Ready, OnConnect, TypesInv, TypeOK
<1>3. \/ ~alive' /\ flowing' = flowing
      \/ flowing' = [flowing EXCEPT ![c] = FALSE]
  BY DEF Ready, Pause
<1>4. ~ready[c]
  BY <1>1 DEF TypesInv, DriverInv, ConnectInv
<1>5. /\ ready'[c]
      /\ \A d \in Channel \ {c} : ready'[d] = ready[d]
      /\ \A d \in Channel \ {c} : socket'[d] = socket[d]
      /\ ready' \in [Channel -> BOOLEAN]
  BY <1>1 DEF TypesInv, TypeOK
<1>6. CountInv'
  <2>1. /\ listeners \in Nat
        /\ listeners <= (IF ready["ctrl"] THEN 1 ELSE 0)
                        + (IF ready["data"] THEN 1 ELSE 0)
    BY DEF TypesInv, CountInv
  <2>2. /\ listeners' \in Nat
        /\ listeners' <= (IF ready'["ctrl"] THEN 1 ELSE 0)
                         + (IF ready'["data"] THEN 1 ELSE 0)
    BY <1>2, <1>4, <1>5, <2>1 DEF Channel
  <2>3. QED
    BY <1>1, <2>2 DEF TypesInv, CountInv
<1>7. TypeOK'
  <2>1. listeners' \in 0 .. 2
    BY <1>6 DEF CountInv
  <2>2. flowing' \in [Channel -> BOOLEAN]
    BY <1>3 DEF TypesInv, TypeOK
  <2>3. socket' \in [Channel -> {"none", "connecting", "open", "closed"}]
    BY <1>1 DEF TypesInv, TypeOK
  <2>4. promise' \in {"none", "pending", "resolved", "rejected"}
    BY <1>2 DEF TypesInv, TypeOK
  <2>5. resolved' \in BOOLEAN
    BY <1>2 DEF TypesInv, TypeOK
  <2>6. QED
    BY <1>1, <1>2, <1>5, <2>1, <2>2, <2>3, <2>4, <2>5 DEF TypesInv, TypeOK
<1>8. PauseInv'
  <2>1. NothingBeforeResume'
    BY <1>1 DEF TypesInv, PauseInv, NothingBeforeResume
  <2>2. ASSUME NEW d \in Channel, alive', socket'[d] = "open", flowing'[d]
        PROVE  resumed'
    <3>1. flowing' = [flowing EXCEPT ![c] = FALSE]
      BY <1>3, <2>2
    <3>2. d # c
      BY <2>2, <3>1 DEF TypesInv, TypeOK
    <3>3. flowing[d] /\ socket[d] = "open"
      BY <1>5, <2>2, <3>1, <3>2 DEF TypesInv, TypeOK
    <3>4. QED
      BY <1>1, <3>3 DEF TypesInv, PauseInv
  <2>3. QED
    BY <2>1, <2>2 DEF PauseInv
<1>9. QED
  BY <1>6, <1>7, <1>8

\* A socket is lost, with an error or without: its writes settle, and what
\* it had still to hand over after an error is dropped.
LEMMA SocketLostTypes ==
  ASSUME TypesInv, NEW c \in Channel, SocketFails(c) \/ SocketEnds(c)
  PROVE  (TypeOK /\ CountInv /\ PauseInv)'
<1>1. /\ SocketClosed(c) /\ FailWrites(c)
      /\ UNCHANGED <<alive, ready, resolved, held, flowing, emitted, wrote,
                     resumed, closeCalled>>
      /\ \/ inbound' = [inbound EXCEPT ![c] = 0]
         \/ inbound' = inbound
      /\ promise' \in {promise, "rejected"}
      /\ rejected' \in {rejected, TRUE}
  BY DEF SocketFails, SocketEnds, OnError, connection, traffic, user
<1>2. /\ socket' \in [Channel -> {"none", "connecting", "open", "closed"}]
      /\ socket'[c] = "closed"
      /\ \A d \in Channel \ {c} : socket'[d] = socket[d]
      /\ listeners' \in 0 .. 2 /\ listeners' <= listeners
      /\ closedFlag' \in [Receiver -> BOOLEAN]
      /\ closeEvents' \in [Receiver -> Nat]
  BY <1>1, SocketClosedKeeps DEF TypesInv
<1>3. /\ writing' = [writing EXCEPT ![c] = 0]
      /\ writing \in [Channel -> 0 .. MaxWrites]
      /\ inbound \in [Channel -> 0 .. MaxChunks]
      /\ 0 \in 0 .. MaxWrites /\ 0 \in 0 .. MaxChunks
  BY <1>1, BoundsAssumption DEF FailWrites, TypesInv, TypeOK
<1>4. /\ writing' \in [Channel -> 0 .. MaxWrites]
      /\ inbound' \in [Channel -> 0 .. MaxChunks]
  BY <1>1, <1>3
<1>5. TypeOK'
  <2>1. promise' \in {"none", "pending", "resolved", "rejected"}
    BY <1>1 DEF TypesInv, TypeOK
  <2>2. rejected' \in BOOLEAN
    BY <1>1 DEF TypesInv, TypeOK
  <2>3. QED
    BY <1>1, <1>2, <1>4, <2>1, <2>2 DEF TypesInv, TypeOK
<1>6. CountInv'
  <2>1. writing'[c] = 0 /\ (inbound'[c] = 0 \/ inbound'[c] = inbound[c])
    BY <1>1, <1>3
  <2>2. \A d \in Channel \ {c} : /\ writing'[d] = writing[d]
                                 /\ inbound'[d] = inbound[d]
    BY <1>1, <1>3
  <2>3. /\ inbound[c] \in Nat /\ emitted[c] \in Nat
        /\ inbound[c] + emitted[c] <= MaxChunks
        /\ wrote[c] \in Nat /\ wrote[c] <= MaxWrites
        /\ MaxChunks \in Nat
    BY BoundsAssumption DEF TypesInv, CountInv
  <2>4. /\ inbound'[c] \in Nat /\ inbound'[c] + emitted'[c] <= MaxChunks
        /\ writing'[c] \in Nat /\ writing'[c] <= wrote'[c]
        /\ listeners' \in Nat
    BY <1>1, <1>2, <2>1, <2>3
  <2>5. QED
    BY <1>1, <1>2, <2>2, <2>3, <2>4, CountFrame DEF TypesInv
<1>7. PauseInv'
  BY <1>1, <1>2 DEF TypesInv, PauseInv, NothingBeforeResume
<1>8. QED
  BY <1>5, <1>6, <1>7

\* Chunks and writes come and go.
LEMMA TrafficTypes ==
  ASSUME TypesInv, NEW c \in Channel,
         PeerSends(c) \/ OnReceived(c) \/ Write(c) \/ Written(c)
  PROVE  (TypeOK /\ CountInv /\ PauseInv)'
<1>1. UNCHANGED <<alive, connection, socket, held, flowing, closing, user>>
  BY DEF PeerSends, OnReceived, Write, Written, writes, user
<1>2. /\ inbound[c] \in Nat /\ emitted[c] \in Nat
      /\ inbound[c] + emitted[c] <= MaxChunks
      /\ writing[c] \in Nat /\ wrote[c] \in Nat
      /\ writing[c] <= wrote[c] /\ wrote[c] <= MaxWrites
      /\ MaxChunks \in Nat /\ MaxWrites \in Nat /\ listeners \in Nat
  BY BoundsAssumption DEF TypesInv, CountInv
<1>3. /\ inbound \in [Channel -> 0 .. MaxChunks]
      /\ emitted \in [Channel -> 0 .. MaxChunks]
      /\ writing \in [Channel -> 0 .. MaxWrites]
      /\ wrote \in [Channel -> 0 .. MaxWrites]
  BY DEF TypesInv, TypeOK
<1>4. PICK i \in Nat, e \in Nat, w \in Nat, b \in Nat :
        /\ inbound' = [inbound EXCEPT ![c] = i]
        /\ emitted' = [emitted EXCEPT ![c] = e]
        /\ writing' = [writing EXCEPT ![c] = w]
        /\ wrote' = [wrote EXCEPT ![c] = b]
        /\ i + e <= MaxChunks /\ w <= b /\ b <= MaxWrites
        /\ e > emitted[c] => alive /\ socket[c] = "open" /\ flowing[c]
        /\ e >= emitted[c]
  <2> DEFINE Becomes(i, e, w, b) ==
        /\ inbound' = [inbound EXCEPT ![c] = i]
        /\ emitted' = [emitted EXCEPT ![c] = e]
        /\ writing' = [writing EXCEPT ![c] = w]
        /\ wrote' = [wrote EXCEPT ![c] = b]
  <2>1. ASSUME PeerSends(c)
        PROVE  /\ Becomes(inbound[c] + 1, emitted[c], writing[c], wrote[c])
               /\ inbound[c] + 1 + emitted[c] <= MaxChunks
    <3>1. /\ inbound' = [inbound EXCEPT ![c] = inbound[c] + 1]
          /\ UNCHANGED <<emitted, writing, wrote>>
          /\ inbound[c] + emitted[c] < MaxChunks
      BY <2>1 DEF PeerSends, writes
    <3>2. QED
      BY <1>2, <1>3, <3>1
  <2>2. ASSUME OnReceived(c)
        PROVE  /\ Becomes(inbound[c] - 1, emitted[c] + 1, writing[c], wrote[c])
               /\ inbound[c] > 0 /\ alive /\ socket[c] = "open" /\ flowing[c]
    <3>1. /\ inbound' = [inbound EXCEPT ![c] = inbound[c] - 1]
          /\ emitted' = [emitted EXCEPT ![c] = emitted[c] + 1]
          /\ UNCHANGED <<writing, wrote>>
          /\ inbound[c] > 0 /\ alive /\ socket[c] = "open" /\ flowing[c]
      BY <2>2 DEF OnReceived, Consume, writes
    <3>2. QED
      BY <1>3, <3>1
  <2>3. ASSUME Write(c)
        PROVE  /\ \E w \in {writing[c], writing[c] + 1} :
                    Becomes(inbound[c], emitted[c], w, wrote[c] + 1)
               /\ wrote[c] < MaxWrites
    <3>1. /\ wrote' = [wrote EXCEPT ![c] = wrote[c] + 1]
          /\ \/ writing' = [writing EXCEPT ![c] = writing[c] + 1]
             \/ writing' = writing
          /\ UNCHANGED <<inbound, emitted>>
          /\ wrote[c] < MaxWrites
      BY <2>3 DEF Write, traffic
    <3>2. QED
      BY <1>3, <3>1
  <2>4. ASSUME Written(c)
        PROVE  /\ Becomes(inbound[c], emitted[c], writing[c] - 1, wrote[c])
               /\ writing[c] > 0
    <3>1. /\ writing' = [writing EXCEPT ![c] = writing[c] - 1]
          /\ UNCHANGED <<inbound, emitted, wrote>>
          /\ writing[c] > 0
      BY <2>4 DEF Written, traffic
    <3>2. QED
      BY <1>3, <3>1
  <2> HIDE DEF Becomes
  <2>5. \E i \in Nat, e \in Nat, w \in Nat, b \in Nat :
          /\ Becomes(i, e, w, b)
          /\ i + e <= MaxChunks /\ w <= b /\ b <= MaxWrites
          /\ e > emitted[c] => alive /\ socket[c] = "open" /\ flowing[c]
          /\ e >= emitted[c]
    <3>1. CASE PeerSends(c)
      BY <1>2, <2>1, <3>1, SMTT(30)
    <3>2. CASE OnReceived(c)
      <4>1. /\ inbound[c] - 1 \in Nat /\ emitted[c] + 1 \in Nat
            /\ (inbound[c] - 1) + (emitted[c] + 1) <= MaxChunks
            /\ emitted[c] + 1 >= emitted[c]
        BY <1>2, <2>2, <3>2
      <4>2. QED
        BY <1>2, <2>2, <3>2, <4>1
    <3>3. CASE Write(c)
      <4>1. PICK w \in {writing[c], writing[c] + 1} :
              Becomes(inbound[c], emitted[c], w, wrote[c] + 1)
        BY <2>3, <3>3
      <4>2. /\ w \in Nat /\ wrote[c] + 1 \in Nat
            /\ w <= wrote[c] + 1 /\ wrote[c] + 1 <= MaxWrites
        BY <1>2, <2>3, <3>3
      <4>3. QED
        BY <1>2, <4>1, <4>2, SMTT(30)
    <3>4. CASE Written(c)
      <4>1. /\ writing[c] - 1 \in Nat
            /\ writing[c] - 1 <= wrote[c]
        BY <1>2, <2>4, <3>4
      <4>2. QED
        BY <1>2, <2>4, <3>4, <4>1
    <3>5. QED
      BY <3>1, <3>2, <3>3, <3>4
  <2>6. QED
    BY <2>5 DEF Becomes
<1>5. /\ i \in 0 .. MaxChunks /\ e \in 0 .. MaxChunks
      /\ w \in 0 .. MaxWrites /\ b \in 0 .. MaxWrites
  BY <1>2, <1>4
<1>6. TypeOK'
  <2>1. /\ inbound' \in [Channel -> 0 .. MaxChunks]
        /\ emitted' \in [Channel -> 0 .. MaxChunks]
        /\ writing' \in [Channel -> 0 .. MaxWrites]
        /\ wrote' \in [Channel -> 0 .. MaxWrites]
    BY <1>3, <1>4, <1>5
  <2>2. QED
    BY <1>1, <2>1 DEF TypesInv, TypeOK, connection, closing, user
<1>7. /\ inbound'[c] = i /\ emitted'[c] = e /\ writing'[c] = w
      /\ wrote'[c] = b
      /\ \A d \in Channel \ {c} :
           /\ inbound'[d] = inbound[d] /\ emitted'[d] = emitted[d]
           /\ writing'[d] = writing[d] /\ wrote'[d] = wrote[d]
  BY <1>3, <1>4
<1>8. CountInv'
  <2>1. UNCHANGED ready /\ listeners' \in Nat /\ listeners' <= listeners
    BY <1>1, <1>2 DEF connection, closing
  <2>2. QED
    BY <1>4, <1>7, <2>1, CountFrame DEF TypesInv
<1>9. PauseInv'
  <2>1. ASSUME NEW d \in Channel, emitted'[d] > 0 PROVE resumed'
    <3>1. CASE emitted[d] > 0
      BY <1>1, <3>1 DEF TypesInv, PauseInv, NothingBeforeResume, user
    <3>2. CASE ~(emitted[d] > 0)
      <4>1. d = c /\ e > emitted[c]
        BY <1>2, <1>4, <1>7, <2>1, <3>2
      <4>2. QED
        BY <1>1, <1>4, <4>1 DEF TypesInv, PauseInv, user
    <3>3. QED
      BY <3>1, <3>2
  <2>2. QED
    BY <1>1, <2>1 DEF TypesInv, PauseInv, NothingBeforeResume, user
<1>10. QED
  BY <1>6, <1>8, <1>9

\* Every step preserves the invariant, action by action.
LEMMA NextTypes == TypesInv /\ [Next]_vars => TypesInv'
<1> SUFFICES ASSUME TypesInv, [Next]_vars PROVE TypesInv'
  OBVIOUS
<1>1. DriverInv'
  BY StepKeepsInv DEF TypesInv
<1>2. SUFFICES (TypeOK /\ CountInv /\ PauseInv)'
  BY <1>1 DEF TypesInv
<1>3. CASE Connect
  BY <1>3, ConnectTypes
<1>4. ASSUME NEW c \in Channel, Ready(c)
      PROVE  (TypeOK /\ CountInv /\ PauseInv)'
  BY <1>4, ReadyTypes
<1>5. ASSUME NEW c \in Channel, SocketFails(c) \/ SocketEnds(c)
      PROVE  (TypeOK /\ CountInv /\ PauseInv)'
  BY <1>5, SocketLostTypes
<1>6. ASSUME NEW c \in Channel,
             PeerSends(c) \/ OnReceived(c) \/ Write(c) \/ Written(c)
      PROVE  (TypeOK /\ CountInv /\ PauseInv)'
  BY <1>6, TrafficTypes
<1>7. CASE Resume
  <2>1. /\ resumed' = TRUE /\ flowing' = [c \in Channel |-> TRUE]
        /\ UNCHANGED <<alive, connection, socket, held, closing, traffic,
                       writes, closeCalled>>
    BY <1>7 DEF Resume, Flow
  <2>2. TypeOK'
    BY <2>1 DEF TypesInv, TypeOK, connection, closing, traffic, writes
  <2>3. CountInv'
    BY <2>1 DEF TypesInv, CountInv, connection, closing, traffic, writes
  <2>4. PauseInv'
    BY <2>1 DEF PauseInv, NothingBeforeResume
  <2>5. QED
    BY <2>2, <2>3, <2>4
<1>8. CASE Close
  <2>1. /\ closeCalled' = TRUE
        /\ held' = [c \in Channel |-> held[c] /\ socket[c] = "closed"]
        /\ UNCHANGED <<alive, connection, socket, flowing, closing, traffic,
                       writes, resumed>>
    BY <1>8 DEF Close
  <2>2. held' \in [Channel -> BOOLEAN]
    BY <2>1 DEF TypesInv, TypeOK
  <2>3. TypeOK'
    BY <2>1, <2>2 DEF TypesInv, TypeOK, connection, closing, traffic, writes
  <2>4. CountInv'
    BY <2>1 DEF TypesInv, CountInv, connection, closing, traffic, writes
  <2>5. PauseInv'
    BY <2>1 DEF TypesInv, PauseInv, NothingBeforeResume, traffic
  <2>6. QED
    BY <2>3, <2>4, <2>5
<1>9. CASE UNCHANGED vars
  BY <1>9 DEF vars, TypesInv, TypeOK, CountInv, PauseInv, NothingBeforeResume,
              connection, closing, traffic, writes, user
<1>10. QED
  BY <1>3, <1>4, <1>5, <1>6, <1>7, <1>8, <1>9 DEF Next

\* The invariant holds before connect() is called.
LEMMA InitTypes == Init => TypesInv
BY TypesInit, InitInv DEF TypesInv

(***************************************************************************)
(* Type correctness: no counter leaves its bounds, and the control socket  *)
(* never has more than two 'close' listeners.                              *)
(***************************************************************************)
THEOREM UpstreamTypeCorrect == SafeSpec => []TypeOK
<1>1. TypesInv => TypeOK
  BY DEF TypesInv
<1>2. QED
  BY <1>1, InitTypes, NextTypes, PTL DEF SafeSpec

(***************************************************************************)
(* Nothing is emitted before resume(), in whatever order the sockets       *)
(* become ready, also when a listener throws (swtpm-upstream.ts:84-107).   *)
(***************************************************************************)
THEOREM HeldBackUntilResume == SafeSpec => []NothingBeforeResume
<1>1. TypesInv => NothingBeforeResume
  BY DEF TypesInv, PauseInv
<1>2. QED
  BY <1>1, InitTypes, NextTypes, PTL DEF SafeSpec

=============================================================================
