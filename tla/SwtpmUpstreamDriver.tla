------------------------ MODULE SwtpmUpstreamDriver ------------------------
(***************************************************************************)
(* The driver that connects the proxy to swtpm,                            *)
(* packages/tpm2-proxy/src/driver/swtpm-upstream.ts: two client sockets,   *)
(* the promise connect() returns, the pause that holds data back until     *)
(* resume(), and the events the driver emits.                              *)
(*                                                                         *)
(* The sockets are Node's: a connecting socket ends in 'ready' or in       *)
(* 'error' and 'close'; an open one closes when the peer ends it, once its *)
(* data is consumed, or at any time with an error.  A socket reads while   *)
(* paused, so it may also close then.                                      *)
(***************************************************************************)
EXTENDS SocketParams

CONSTANT Params,      \* what connect() may be given: per channel, options
         MaxChunks,   \* bound on the chunks swtpm sends per channel
         MaxWrites,   \* bound on the writes per channel
         EarlyClose   \* may the user call close() before connect() settles?

ASSUME BoundsAssumption == MaxChunks \in Nat /\ MaxWrites \in Nat

ASSUME EarlyCloseAssumption == EarlyClose \in BOOLEAN

Channel == {"ctrl", "data"}

\* Who a function called as a listener may find in `this`.
Receiver == {"driver", "ctrlSocket"}

VARIABLES
  alive,        \* no exception has left an event handler
  promise,      \* of connect(): "none", "pending", "resolved", "rejected"
  ready,        \* state.ctrl, state.data
  rejected,     \* state.rejected
  resolved,     \* state.resolved
  socket,       \* per channel: "none", "connecting", "open", "closed"
  held,         \* per channel: _ctrlSocket, _dataSocket is not undefined
  flowing,      \* per channel: the socket is not paused
  listeners,    \* once('close') listeners on the control socket
  closedFlag,   \* per receiver: its property _closed
  closeEvents,  \* per receiver: times onSocketClosed made it emit 'close'
  inbound,      \* per channel: chunks from swtpm not yet emitted
  emitted,      \* per channel: 'control' and 'data' events of the driver
  writing,      \* per channel: write promises that have not settled
  wrote,        \* per channel: writes begun
  resumed,      \* the user has called resume()
  closeCalled   \* the user has called close()

connection == <<promise, ready, rejected, resolved>>
closing == <<listeners, closedFlag, closeEvents>>
traffic == <<inbound, emitted>>
writes == <<writing, wrote>>
user == <<resumed, closeCalled>>
vars == <<alive, connection, socket, held, flowing, closing, traffic, writes,
          user>>

TypeOK ==
  /\ alive \in BOOLEAN
  /\ promise \in {"none", "pending", "resolved", "rejected"}
  /\ ready \in [Channel -> BOOLEAN]
  /\ rejected \in BOOLEAN
  /\ resolved \in BOOLEAN
  /\ socket \in [Channel -> {"none", "connecting", "open", "closed"}]
  /\ held \in [Channel -> BOOLEAN]
  /\ flowing \in [Channel -> BOOLEAN]
  /\ listeners \in 0 .. 2
  /\ closedFlag \in [Receiver -> BOOLEAN]
  /\ closeEvents \in [Receiver -> Nat]
  /\ inbound \in [Channel -> 0 .. MaxChunks]
  /\ emitted \in [Channel -> 0 .. MaxChunks]
  /\ writing \in [Channel -> 0 .. MaxWrites]
  /\ wrote \in [Channel -> 0 .. MaxWrites]
  /\ resumed \in BOOLEAN
  /\ closeCalled \in BOOLEAN

Init ==
  /\ alive = TRUE
  /\ promise = "none"
  /\ ready = [c \in Channel |-> FALSE]
  /\ rejected = FALSE
  /\ resolved = FALSE
  /\ socket = [c \in Channel |-> "none"]
  /\ held = [c \in Channel |-> FALSE]
  /\ flowing = [c \in Channel |-> FALSE]
  /\ listeners = 0
  /\ closedFlag = [r \in Receiver |-> FALSE]
  /\ closeEvents = [r \in Receiver |-> 0]
  /\ inbound = [c \in Channel |-> 0]
  /\ emitted = [c \in Channel |-> 0]
  /\ writing = [c \in Channel |-> 0]
  /\ wrote = [c \in Channel |-> 0]
  /\ resumed = FALSE
  /\ closeCalled = FALSE

Dead == {"none", "closed"}

-----------------------------------------------------------------------------
(* connect() and its listeners. *)

\* The sockets connect() begins to connect: net.connect may throw for the
\* control socket, and then for the data socket.
Begun(param) ==
  LET socketOf(c) == ConnectToSocket(ParseSwtpmAddr(param[c]))
  IN  IF socketOf("ctrl") = Missing THEN {}
      ELSE {c \in Channel : socketOf(c) # Missing}

(***************************************************************************)
(* connect(): the listener for 'data' sets a socket flowing.  An exception *)
(* rejects the promise and leaves the socket that was begun before as it   *)
(* is; state.rejected is not set.                                          *)
(***************************************************************************)
Connect ==
  /\ promise = "none"
  /\ \E param \in Params :
       LET begun == Begun(param)
       IN  /\ promise' = IF begun = Channel THEN "pending" ELSE "rejected"
           /\ socket' = [c \in Channel |-> IF c \in begun
                                           THEN "connecting" ELSE "none"]
           /\ held' = [c \in Channel |-> c \in begun]
           /\ flowing' = [c \in Channel |-> c \in begun]
  /\ UNCHANGED <<alive, ready, rejected, resolved>>
  /\ UNCHANGED <<closing, traffic, writes, user>>

\* Mutant of OnConnect: one socket is enough.
OnConnectEither(isReady) ==
  IF ~resolved /\ (isReady["ctrl"] \/ isReady["data"])
  THEN /\ resolved' = TRUE
       /\ promise' = IF promise = "pending" THEN "resolved" ELSE promise
  ELSE UNCHANGED <<resolved, promise>>

\* onConnect; resolve() has no effect on a promise that is settled.
OnConnect(isReady) ==
  IF ~resolved /\ isReady["ctrl"] /\ isReady["data"]
  THEN /\ resolved' = TRUE
       /\ promise' = IF promise = "pending" THEN "resolved" ELSE promise
  ELSE UNCHANGED <<resolved, promise>>

\* Mutant of Pause: the socket reads on.
PauseNot(c) == UNCHANGED flowing

Pause(c) == flowing' = [flowing EXCEPT ![c] = FALSE]

(***************************************************************************)
(* The 'ready' listener of either socket: both add a 'close' listener to   *)
(* the control socket, and each pauses its own socket.  A field that       *)
(* close() has set to undefined makes the listener throw.                  *)
(***************************************************************************)
Ready(c) ==
  /\ alive
  /\ socket[c] = "connecting"
  /\ socket' = [socket EXCEPT ![c] = "open"]
  /\ ready' = [ready EXCEPT ![c] = TRUE]
  /\ IF held["ctrl"] /\ held[c]
     THEN /\ listeners' = listeners + 1
          /\ Pause(c)
          /\ OnConnect(ready')
          /\ UNCHANGED alive
     ELSE /\ alive' = FALSE
          /\ listeners' = IF held["ctrl"] THEN listeners + 1 ELSE listeners
          /\ UNCHANGED <<flowing, resolved, promise>>
  /\ UNCHANGED <<rejected, held, closedFlag, closeEvents>>
  /\ UNCHANGED <<traffic, writes, user>>

\* Mutant of OnError: the promise is left alone.
OnErrorIgnored(c) == UNCHANGED <<rejected, promise, held>>

\* Mutant of OnError: the socket is forgotten.
OnErrorForgets(c) ==
  /\ held' = [held EXCEPT ![c] = FALSE]
  /\ UNCHANGED <<rejected, promise>>

\* onError: the 'error' listener of both sockets.
OnError(c) ==
  /\ IF ~rejected /\ ~resolved
     THEN /\ rejected' = TRUE
          /\ promise' = IF promise = "pending" THEN "rejected" ELSE promise
     ELSE UNCHANGED <<rejected, promise>>
  /\ UNCHANGED held

\* onSocketClosed called with `this` bound to r.
OnSocketClosed(r) ==
  IF closedFlag[r]
  THEN UNCHANGED <<closedFlag, closeEvents>>
  ELSE /\ closedFlag' = [closedFlag EXCEPT ![r] = TRUE]
       /\ closeEvents' = [closeEvents EXCEPT ![r] = @ + 1]

(***************************************************************************)
(* The 'close' event of a socket.  The method was passed as a bare         *)
(* function, so Node calls it with the socket as `this`: the 'close' it    *)
(* emits is the socket's, and runs the other listener, which finds the     *)
(* flag set.                                                               *)
(***************************************************************************)
SocketClosed(c) ==
  /\ socket' = [socket EXCEPT ![c] = "closed"]
  /\ IF c = "ctrl" /\ listeners > 0
     THEN listeners' = 0 /\ OnSocketClosed("ctrlSocket")
     ELSE UNCHANGED closing

\* Mutant of FailWrites: a write that fails does not settle its promise.
FailWritesSilently(c) == UNCHANGED writing

\* The callbacks of the writes a closed socket still has, called with an
\* error: reject(err).
FailWrites(c) == writing' = [writing EXCEPT ![c] = 0]

\* The connection attempt fails, or an open connection breaks.
SocketFails(c) ==
  /\ alive
  /\ socket[c] \in {"connecting", "open"}
  /\ OnError(c)
  /\ SocketClosed(c)
  /\ FailWrites(c)
  /\ inbound' = [inbound EXCEPT ![c] = 0]
  /\ UNCHANGED <<alive, ready, resolved, flowing, emitted, wrote, user>>

\* swtpm ends the connection and everything it sent has been emitted.
SocketEnds(c) ==
  /\ alive
  /\ socket[c] = "open"
  /\ inbound[c] = 0
  /\ SocketClosed(c)
  /\ FailWrites(c)
  /\ UNCHANGED <<alive, connection, held, flowing, traffic, wrote, user>>

-----------------------------------------------------------------------------
(* Traffic. *)

PeerSends(c) ==
  /\ socket[c] = "open"
  /\ inbound[c] + emitted[c] < MaxChunks
  /\ inbound' = [inbound EXCEPT ![c] = @ + 1]
  /\ UNCHANGED <<alive, connection, socket, held, flowing, closing, emitted>>
  /\ UNCHANGED <<writes, user>>

\* Mutant of Consume: the chunk is emitted and kept.
ConsumeNot(c) == UNCHANGED inbound

Consume(c) == inbound' = [inbound EXCEPT ![c] = @ - 1]

\* A 'data' event of the socket: onControlReceived, onDataReceived.
OnReceived(c) ==
  /\ alive
  /\ socket[c] = "open"
  /\ flowing[c]
  /\ inbound[c] > 0
  /\ Consume(c)
  /\ emitted' = [emitted EXCEPT ![c] = @ + 1]
  /\ UNCHANGED <<alive, connection, socket, held, flowing, closing, writes>>
  /\ UNCHANGED user

\* writeControlRaw, writeDataRaw.  Without a socket the promise rejects at
\* once.
Write(c) ==
  /\ alive
  /\ promise = "resolved"
  /\ wrote[c] < MaxWrites
  /\ wrote' = [wrote EXCEPT ![c] = @ + 1]
  /\ writing' = IF held[c] /\ socket[c] \notin Dead
                THEN [writing EXCEPT ![c] = @ + 1]
                ELSE writing
  /\ UNCHANGED <<alive, connection, socket, held, flowing, closing, traffic>>
  /\ UNCHANGED user

\* The callback of a write, called without an error: resolve().
Written(c) ==
  /\ alive
  /\ socket[c] = "open"
  /\ writing[c] > 0
  /\ writing' = [writing EXCEPT ![c] = @ - 1]
  /\ UNCHANGED <<alive, connection, socket, held, flowing, closing, traffic>>
  /\ UNCHANGED <<wrote, user>>

Flow == flowing' = [c \in Channel |-> TRUE]

\* resume(), which the user calls once connect() has resolved.
Resume ==
  /\ alive
  /\ promise = "resolved"
  /\ ~closeCalled
  /\ ~resumed
  /\ resumed' = TRUE
  /\ Flow
  /\ UNCHANGED <<alive, connection, socket, held, closing, traffic, writes>>
  /\ UNCHANGED closeCalled

(***************************************************************************)
(* close(): a socket that is not destroyed is ended and forgotten.  The    *)
(* end is only half a close: swtpm ends its half, or sends on, as it       *)
(* likes, and a connecting socket still connects.                          *)
(***************************************************************************)
Close ==
  /\ alive
  /\ ~closeCalled
  /\ \/ promise \in {"resolved", "rejected"}
     \/ EarlyClose /\ promise = "pending"
  /\ closeCalled' = TRUE
  /\ held' = [c \in Channel |-> held[c] /\ socket[c] = "closed"]
  /\ UNCHANGED <<alive, connection, socket, flowing, closing, traffic, writes>>
  /\ UNCHANGED resumed

-----------------------------------------------------------------------------

Next ==
  \/ Connect
  \/ Resume
  \/ Close
  \/ \E c \in Channel :
       \/ Ready(c)
       \/ SocketFails(c)
       \/ SocketEnds(c)
       \/ PeerSends(c)
       \/ OnReceived(c)
       \/ Write(c)
       \/ Written(c)

(***************************************************************************)
(* The kernel ends every connection attempt one way or the other; the      *)
(* event loop reads and writes; a user who got a connection resumes it     *)
(* (README.md:57-67).  Nobody need connect, send, write or close.          *)
(***************************************************************************)
Fairness ==
  /\ \A c \in Channel :
       /\ WF_vars(Ready(c) \/ (socket[c] = "connecting" /\ SocketFails(c)))
       /\ WF_vars(OnReceived(c))
       /\ WF_vars(Written(c))
  /\ WF_vars(Resume)

SafeSpec == Init /\ [][Next]_vars

Spec == SafeSpec /\ Fairness

-----------------------------------------------------------------------------
(* Properties. *)

(***************************************************************************)
(* connect() resolves only when both sockets have been ready and neither   *)
(* had failed, in whatever order the sockets become ready, fail and close  *)
(* (swtpm-upstream.ts:66-80).  state.resolved does not say that: it is set *)
(* even after a rejection.                                                 *)
(***************************************************************************)
ResolvedAfterBoth ==
  promise = "resolved" => resolved /\ ~rejected /\ \A c \in Channel : ready[c]

(***************************************************************************)
(* Nothing swtpm sends comes out of the driver before resume(), so nothing *)
(* is emitted while the downstream is still being set up                   *)
(* (swtpm-upstream.ts:87, 97, 104-107; README.md:57-67).                   *)
(***************************************************************************)
NothingBeforeResume == \A c \in Channel : emitted[c] > 0 => resumed

\* connect() settles, unless an early close() makes a listener throw.
ConnectSettles ==
  promise = "pending" ~> promise \in {"resolved", "rejected"} \/ ~alive

(***************************************************************************)
(* The promise of a write settles also when the socket is lost under it    *)
(* (swtpm-upstream.ts:109-125).  The proxy's handlers wait for it.         *)
(***************************************************************************)
WritesSettle ==
  \A c \in Channel : writing[c] > 0 ~> writing[c] = 0 \/ ~alive

(***************************************************************************)
(* Only a close() before connect() has settled can make a listener throw.  *)
(* (A close() after a rejection counts: a socket may still be connecting.) *)
(***************************************************************************)
ThrowsOnlyAfterClose == ~alive => closeCalled /\ promise # "resolved"

(***************************************************************************)
(* The driver is an emitter of 'close' (driver/base.ts:10, 14): when a     *)
(* control connection in use is lost, the driver emits 'close'.            *)
(***************************************************************************)
CloseIsReported ==
  [][ resumed /\ ~closeCalled /\ socket["ctrl"] = "open"
      /\ socket'["ctrl"] = "closed"
        => closeEvents'["driver"] = 1 ]_vars

=============================================================================
