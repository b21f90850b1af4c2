-------------------------- MODULE SwtpmProxyDriver --------------------------
(***************************************************************************)
(* The driver towards the clients,                                         *)
(* packages/tpm2-proxy/src/driver/swtpm-proxy.ts: two servers on the       *)
(* backend addresses, the swtpm_proxy child that connects to them, the     *)
(* promise of listenAndWait(), the accepted sockets and close().           *)
(*                                                                         *)
(* Node's part: a server is "starting" until its address is looked up and  *)
(* bound, "bound" until its 'listening' event has run; close() reaches it  *)
(* only from "bound" on.  A connection waits in the backlog until its      *)
(* 'connection' event.  The child's part (native/src/main.cc:306-330,      *)
(* 337-426): it connects to control, then to data, reads a connection once *)
(* per event, may exit at any time, and exits when it sees the end of a    *)
(* backend connection.                                                     *)
(***************************************************************************)
EXTENDS SocketParams

CONSTANTS Backends,    \* backendControl and backendData: per channel, a text
          MaxChunks,   \* bound on the chunks the child sends per channel
          MaxWrites,   \* bound on the writes per channel
          EarlyClose   \* may the user call close() before the promise settles?

ASSUME BoundsAssumption == MaxChunks \in Nat /\ MaxWrites \in Nat

ASSUME EarlyCloseAssumption == EarlyClose \in BOOLEAN

Channel == {"ctrl", "data"}

(***************************************************************************)
(* What the driver is told to listen on.  A text that is understood names  *)
(* its address or leaves the default: an empty address listens on all of   *)
(* them and an empty path on a free TCP port, which is not modelled.       *)
(***************************************************************************)
ASSUME BackendsAssumption ==
  /\ Backends \subseteq [Channel -> SocketText]
  /\ \A texts \in Backends : \A c \in Channel :
       ParseSocketParam(texts[c]) = Missing
         \/ ParseSocketParam(texts[c]).addr # << >>

VARIABLES
  alive,         \* no exception has ended the process
  promise,       \* listenAndWait(): "none", "pending", "resolved", "rejected"
  isListening,   \* state.beControlServer, state.beDataServer
  rejected,      \* state.rejected
  backend,       \* backendControl and backendData, parsed
  dialled,       \* per channel: the address the child reads in its arguments
  server,        \* per channel: see above; also "none", "failed", "closed"
  child,         \* "none", "starting", connected to "ctrl" or "both", "exited"
  backlog,       \* per channel: the child's connection waits to be accepted
  socket,        \* per channel: "none", "open", "closed"
  flowing,       \* per channel: the socket is not paused
  ended,         \* per channel: end() was called on the socket
  closed,        \* _closed; then the server and socket fields are undefined
  closedByUser,  \* it was the user's close() that set it
  closeEvents,   \* 'close' events of the driver
  inbound,       \* per channel: chunks from the child not yet emitted
  emitted,       \* per channel: 'control' and 'data' events of the driver
  writing,       \* per channel: write promises that have not settled
  wrote,         \* per channel: writes begun
  outbound,      \* per channel: "read" by the child, "unread", or "missed":
                 \* its last read took bytes and left the end unseen
  resumed        \* the user has called resume()

setup == <<promise, isListening, rejected, backend, dialled>>
closing == <<ended, closed, closedByUser, closeEvents>>
traffic == <<inbound, emitted>>
writes == <<writing, wrote, outbound>>
vars == <<alive, setup, server, child, backlog, socket, flowing, closing,
          traffic, writes, resumed>>

TypeOK ==
  /\ alive \in BOOLEAN
  /\ promise \in {"none", "pending", "resolved", "rejected"}
  /\ isListening \in [Channel -> BOOLEAN]
  /\ rejected \in BOOLEAN
  /\ backend \in [Channel -> Address]
  /\ dialled \in [Channel -> Address]
  /\ server \in [Channel -> {"none", "starting", "bound", "listening",
                             "failed", "closed"}]
  /\ child \in {"none", "starting", "ctrl", "both", "exited"}
  /\ backlog \in [Channel -> BOOLEAN]
  /\ socket \in [Channel -> {"none", "open", "closed"}]
  /\ flowing \in [Channel -> BOOLEAN]
  /\ ended \in [Channel -> BOOLEAN]
  /\ closed \in BOOLEAN
  /\ closedByUser \in BOOLEAN
  /\ closeEvents \in Nat
  /\ inbound \in [Channel -> 0 .. MaxChunks]
  /\ emitted \in [Channel -> 0 .. MaxChunks]
  /\ writing \in [Channel -> 0 .. MaxWrites]
  /\ wrote \in [Channel -> 0 .. MaxWrites]
  /\ outbound \in [Channel -> {"read", "unread", "missed"}]
  /\ resumed \in BOOLEAN

Init ==
  /\ alive = TRUE
  /\ promise = "none"
  /\ isListening = [c \in Channel |-> FALSE]
  /\ rejected = FALSE
  /\ backend = [c \in Channel |-> Missing]
  /\ dialled = [c \in Channel |-> Missing]
  /\ server = [c \in Channel |-> "none"]
  /\ child = "none"
  /\ backlog = [c \in Channel |-> FALSE]
  /\ socket = [c \in Channel |-> "none"]
  /\ flowing = [c \in Channel |-> FALSE]
  /\ ended = [c \in Channel |-> FALSE]
  /\ closed = FALSE
  /\ closedByUser = FALSE
  /\ closeEvents = 0
  /\ inbound = [c \in Channel |-> 0]
  /\ emitted = [c \in Channel |-> 0]
  /\ writing = [c \in Channel |-> 0]
  /\ wrote = [c \in Channel |-> 0]
  /\ outbound = [c \in Channel |-> "read"]
  /\ resumed = FALSE

ChildRuns == child \in {"starting", "ctrl", "both"}

\* server.address() of a listening server; port 0 is whichever is free.
AddressOf(c) ==
  IF backend[c].port = "0"
  THEN [backend[c] EXCEPT !.port = IF c = "ctrl" THEN "40001" ELSE "40002"]
  ELSE backend[c]

\* There is nothing more to come on a connection of the child.
Ended(c) == ended[c] \/ ~alive

\* A connection of the child has ended and its read finds the end, or it was
\* refused or reset.
ChildOrphaned ==
  \/ \E c \in Channel : dialled[c] # AddressOf(c)
  \/ \E c \in Channel : Ended(c) /\ outbound[c] = "read"
  \/ \E c \in Channel : server[c] = "closed" /\ socket[c] = "none"

-----------------------------------------------------------------------------
(* close() and the 'close' events of the sockets. *)

\* Mutant of EndSockets: kill(0) is trusted to stop the child.
EndNone == UNCHANGED ended

EndSockets == ended' = [c \in Channel |-> socket[c] = "open"]

(***************************************************************************)
(* What close() does once: the servers stop and with them their backlog,   *)
(* and the sockets that are open are ended.  kill(0) sends the child no    *)
(* signal.                                                                 *)
(***************************************************************************)
CloseAll ==
  /\ closed' = TRUE
  /\ server' = [c \in Channel |-> IF server[c] \in {"bound", "listening"}
                                  THEN "closed" ELSE server[c]]
  /\ backlog' = [c \in Channel |-> FALSE]
  /\ EndSockets

\* close() called by the user, who has begun listening.
Close ==
  /\ alive
  /\ ~closed
  /\ \/ promise \in {"resolved", "rejected"}
     \/ EarlyClose /\ promise = "pending"
  /\ CloseAll
  /\ closedByUser' = TRUE
  /\ UNCHANGED <<alive, setup, child, socket, flowing, closeEvents, traffic>>
  /\ UNCHANGED <<writes, resumed>>

\* Mutant of OnSocketClosed: called without the driver as `this`.
OnSocketClosedElsewhere ==
  UNCHANGED <<closed, closeEvents, server, backlog, ended>>

\* Mutant of WasClosed: `_closed` is never set.
WasNeverClosed == FALSE

WasClosed == closed

OnSocketClosed ==
  IF WasClosed
  THEN UNCHANGED <<closed, closeEvents, server, backlog, ended>>
  ELSE /\ CloseAll
       /\ closeEvents' = closeEvents + 1

\* A connection ends, because the child has gone, once its data is consumed.
SocketCloses(c) ==
  /\ alive
  /\ socket[c] = "open"
  /\ child = "exited"
  /\ inbound[c] = 0
  /\ socket' = [socket EXCEPT ![c] = "closed"]
  /\ writing' = [writing EXCEPT ![c] = 0]
  /\ OnSocketClosed
  /\ UNCHANGED <<alive, setup, child, flowing, closedByUser, traffic, wrote>>
  /\ UNCHANGED <<outbound, resumed>>

\* A connection breaks, because the child has gone without reading all that
\* was written to it.  The socket has no 'error' listener.
SocketBreaks(c) ==
  /\ alive
  /\ socket[c] = "open"
  /\ child = "exited"
  /\ outbound[c] = "unread"
  /\ alive' = FALSE
  /\ UNCHANGED <<setup, server, child, backlog, socket, flowing, closing>>
  /\ UNCHANGED <<traffic, writes, resumed>>

-----------------------------------------------------------------------------
(* listenAndWait() and its listeners. *)

(***************************************************************************)
(* The servers listenAndWait() tells to listen: none when a text does not  *)
(* parse.  listen() throws for a port that is no number, and unlinkSync()  *)
(* for what is stuck at a path: a directory, or a file of somebody else.   *)
(***************************************************************************)
Begun(params, stuck) ==
  LET throws(c) == \/ params[c].family = "tcp" /\ params[c].port = "none"
                   \/ params[c].family = "unix" /\ c \in stuck
  IN  IF throws("ctrl") \/ \E c \in Channel : params[c] = Missing THEN {}
      ELSE {c \in Channel : ~throws(c)}

(***************************************************************************)
(* An exception rejects the promise and leaves the server begun before as  *)
(* it is.  A server on a path is bound at once, or will fail; one on a TCP *)
(* address is not bound yet.                                               *)
(***************************************************************************)
ListenAndWait ==
  /\ promise = "none"
  /\ \E texts \in Backends, stuck \in SUBSET Channel :
       LET params == [c \in Channel |-> ParseSocketParam(texts[c])]
           begun  == Begun(params, stuck)
       IN  /\ promise' = IF begun = Channel THEN "pending" ELSE "rejected"
           /\ backend' = params
           /\ server' \in [Channel -> {"none", "starting", "bound"}]
           /\ \A c \in Channel :
                /\ server'[c] = "none" <=> c \notin begun
                /\ server'[c] = "bound" => params[c].family = "unix"
  /\ UNCHANGED <<alive, isListening, rejected, dialled, child, backlog, socket>>
  /\ UNCHANGED <<flowing, closing, traffic, writes, resumed>>

Bind(c) ==
  /\ alive
  /\ server[c] = "starting"
  /\ backend[c].family = "tcp"
  /\ server' = [server EXCEPT ![c] = "bound"]
  /\ UNCHANGED <<alive, setup, child, backlog, socket, flowing, closing>>
  /\ UNCHANGED <<traffic, writes, resumed>>

\* Mutant of OnError: the promise is left alone.
OnErrorIgnored == UNCHANGED <<rejected, promise>>

OnError ==
  IF rejected
  THEN UNCHANGED <<rejected, promise>>
  ELSE /\ rejected' = TRUE
       /\ promise' = IF promise = "pending" THEN "rejected" ELSE promise

\* The 'error' event of a server, whose address is in use or no address.
ServerFails(c) ==
  /\ alive
  /\ server[c] = "starting"
  /\ server' = [server EXCEPT ![c] = "failed"]
  /\ OnError
  /\ UNCHANGED <<alive, isListening, backend, dialled, child, backlog, socket>>
  /\ UNCHANGED <<flowing, closing, traffic, writes, resumed>>

\* startProcess: asks both servers for their addresses, which throws when a
\* field is undefined or a server does not listen, and spawns the child with
\* them as its arguments.
StartProcess(servers) ==
  IF ~closed /\ \A c \in Channel : servers[c] = "listening"
  THEN /\ child' = "starting"
       /\ dialled' = [c \in Channel |->
                        ParseSocketAddr(ChildArgument(AddressOf(c)))]
       /\ UNCHANGED alive
  ELSE alive' = FALSE /\ UNCHANGED <<child, dialled>>

\* Mutant of BothListen: one of the servers is enough.
EitherListens(flags) == \E c \in Channel : flags[c]

BothListen(flags) == \A c \in Channel : flags[c]

\* The 'listening' event of a server, with onListen(): the server is closed
\* again after a rejection, which throws when the field is undefined.
Listening(c) ==
  LET servers == [server EXCEPT ![c] = "listening"]
  IN  /\ alive
      /\ server[c] = "bound"
      /\ isListening' = [isListening EXCEPT ![c] = TRUE]
      /\ \/ /\ rejected
            /\ server' = IF closed THEN servers
                         ELSE [server EXCEPT ![c] = "closed"]
            /\ alive' = ~closed
            /\ UNCHANGED <<child, dialled>>
         \/ /\ ~rejected
            /\ server' = servers
            /\ IF BothListen(isListening')
               THEN StartProcess(servers)
               ELSE UNCHANGED <<alive, child, dialled>>
      /\ UNCHANGED <<promise, rejected, backend, backlog, socket, flowing>>
      /\ UNCHANGED <<closing, traffic, writes, resumed>>

\* Mutant of OnConnect: one connection is enough.
OnConnectEither(sockets) ==
  promise' = IF promise = "pending" /\ \E c \in Channel : sockets[c] # "none"
             THEN "resolved" ELSE promise

\* onConnect()
OnConnect(sockets) ==
  promise' = IF promise = "pending" /\ \A c \in Channel : sockets[c] # "none"
             THEN "resolved" ELSE promise

\* pause(); a socket that was never resumed does not flow either.
Pause(c) == flowing' = [flowing EXCEPT ![c] = FALSE]

\* The 'connection' event of a server, with onConnect().
OnConnection(c) ==
  /\ alive
  /\ server[c] = "listening"
  /\ backlog[c]
  /\ backlog' = [backlog EXCEPT ![c] = FALSE]
  /\ socket' = [socket EXCEPT ![c] = "open"]
  /\ Pause(c)
  /\ OnConnect(socket')
  /\ UNCHANGED <<alive, isListening, rejected, backend, dialled, server>>
  /\ UNCHANGED <<child, closing, traffic, writes, resumed>>

-----------------------------------------------------------------------------
(* The child. *)

\* The program cannot be run: an 'error' event that has no listener.
SpawnFails ==
  /\ alive
  /\ child = "starting"
  /\ alive' = FALSE
  /\ child' = "exited"
  /\ UNCHANGED <<setup, server, backlog, socket, flowing, closing, traffic>>
  /\ UNCHANGED <<writes, resumed>>

ChildConnects(c) ==
  /\ alive
  /\ server[c] = "listening"
  /\ dialled[c] = AddressOf(c)
  /\ \/ c = "ctrl" /\ child = "starting" /\ child' = "ctrl"
     \/ c = "data" /\ child = "ctrl" /\ child' = "both"
  /\ backlog' = [backlog EXCEPT ![c] = TRUE]
  /\ UNCHANGED <<alive, setup, server, socket, flowing, closing, traffic>>
  /\ UNCHANGED <<writes, resumed>>

\* It is killed, its client leaves, or it cannot connect.
ChildExits ==
  /\ ChildRuns
  /\ child' = "exited"
  /\ UNCHANGED <<alive, setup, server, backlog, socket, flowing, closing>>
  /\ UNCHANGED <<traffic, writes, resumed>>

ChildSends(c) ==
  /\ child = "both"
  /\ backlog[c] \/ socket[c] = "open"
  /\ inbound[c] + emitted[c] < MaxChunks
  /\ inbound' = [inbound EXCEPT ![c] = @ + 1]
  /\ UNCHANGED <<alive, setup, server, child, backlog, socket, flowing>>
  /\ UNCHANGED <<closing, emitted, writes, resumed>>

(***************************************************************************)
(* An event of a backend connection: one read, which takes all that was    *)
(* written (it is not longer than the buffer).  When the connection ended  *)
(* before the read, one event may have announced both, and no other comes. *)
(***************************************************************************)
ChildReads(c) ==
  /\ child = "both"
  /\ outbound[c] = "unread"
  /\ \/ outbound' = [outbound EXCEPT ![c] = "read"]
     \/ Ended(c) /\ outbound' = [outbound EXCEPT ![c] = "missed"]
  /\ UNCHANGED <<alive, setup, server, child, backlog, socket, flowing>>
  /\ UNCHANGED <<closing, traffic, writing, wrote, resumed>>

-----------------------------------------------------------------------------
(* Traffic. *)

\* Mutant of Consume: the chunk is emitted and kept.
ConsumeNot(c) == UNCHANGED inbound

Consume(c) == inbound' = [inbound EXCEPT ![c] = @ - 1]

\* A 'data' event of a socket: onControlReceived, onDataReceived.
OnReceived(c) ==
  /\ alive
  /\ socket[c] = "open"
  /\ flowing[c]
  /\ inbound[c] > 0
  /\ Consume(c)
  /\ emitted' = [emitted EXCEPT ![c] = @ + 1]
  /\ UNCHANGED <<alive, setup, server, child, backlog, socket, flowing>>
  /\ UNCHANGED <<closing, writes, resumed>>

\* writeControlRaw, writeDataRaw; without a socket the promise rejects at
\* once and nothing changes.
Write(c) ==
  /\ alive
  /\ promise = "resolved"
  /\ wrote[c] < MaxWrites
  /\ ~closed /\ socket[c] = "open"
  /\ wrote' = [wrote EXCEPT ![c] = @ + 1]
  /\ writing' = [writing EXCEPT ![c] = @ + 1]
  /\ outbound' = [outbound EXCEPT ![c] = "unread"]
  /\ UNCHANGED <<alive, setup, server, child, backlog, socket, flowing>>
  /\ UNCHANGED <<closing, traffic, resumed>>

\* The callback of a write, called without an error.
Written(c) ==
  /\ alive
  /\ socket[c] = "open"
  /\ writing[c] > 0
  /\ writing' = [writing EXCEPT ![c] = @ - 1]
  /\ UNCHANGED <<alive, setup, server, child, backlog, socket, flowing>>
  /\ UNCHANGED <<closing, traffic, wrote, outbound, resumed>>

\* resume(), called once listenAndWait() has resolved.  A connection lost in
\* between has made the fields undefined, and resume() throws.
Resume ==
  /\ alive
  /\ promise = "resolved"
  /\ ~closedByUser
  /\ ~resumed
  /\ resumed' = TRUE
  /\ IF closed
     THEN alive' = FALSE /\ UNCHANGED flowing
     ELSE flowing' = [c \in Channel |-> TRUE] /\ UNCHANGED alive
  /\ UNCHANGED <<setup, server, child, backlog, socket, closing, traffic>>
  /\ UNCHANGED writes

-----------------------------------------------------------------------------

Next ==
  \/ ListenAndWait
  \/ Resume
  \/ Close
  \/ SpawnFails
  \/ ChildExits
  \/ \E c \in Channel :
       \/ Bind(c)
       \/ ServerFails(c)
       \/ Listening(c)
       \/ OnConnection(c)
       \/ ChildConnects(c)
       \/ ChildSends(c)
       \/ ChildReads(c)
       \/ SocketCloses(c)
       \/ SocketBreaks(c)
       \/ OnReceived(c)
       \/ Write(c)
       \/ Written(c)

(***************************************************************************)
(* The event loop runs what is due.  The child connects and reads what is  *)
(* written, and it exits when it cannot connect or finds an end: its loop  *)
(* stops when a read from a backend socket returns 0 or -1 (main.cc:309-   *)
(* 325, 381-402).  An end it has missed obliges it to nothing.  That its   *)
(* writes to its client do not block for ever is assumed.  The user        *)
(* resumes what resolved.                                                  *)
(***************************************************************************)
Fairness ==
  /\ \A c \in Channel :
       /\ WF_vars(Bind(c) \/ ServerFails(c))
       /\ WF_vars(Listening(c))
       /\ WF_vars(OnConnection(c))
       /\ WF_vars(ChildConnects(c))
       /\ WF_vars(ChildReads(c))
       /\ WF_vars(SocketCloses(c) \/ SocketBreaks(c))
       /\ WF_vars(OnReceived(c))
       /\ WF_vars(Written(c))
  /\ WF_vars(Resume)
  /\ WF_vars(ChildOrphaned /\ ChildExits)

SafeSpec == Init /\ [][Next]_vars

Spec == SafeSpec /\ Fairness

-----------------------------------------------------------------------------
(* Properties. *)

\* The two sorts of addresses the child does not understand.
IsIpv6(address) == address.family = "tcp" /\ address.addr \in Ipv6

HidesTcp(address) ==
  /\ address.family = "unix"
  /\ \E i \in DOMAIN address.addr : address.addr[i] \in HoldsTcp

(***************************************************************************)
(* listenAndWait() resolves only after the child has connected on both     *)
(* channels, in whatever order the two connections are accepted            *)
(* (swtpm-proxy.ts:107-112, 126-142).                                      *)
(***************************************************************************)
ResolvedAfterBoth ==
  promise = "resolved" => ~rejected /\ \A c \in Channel : socket[c] # "none"

(***************************************************************************)
(* Two sockets close, one after the other, and the user may close the      *)
(* driver before, between or after: 'close' is emitted once when a lost    *)
(* connection closed the driver and never when the user did                *)
(* (swtpm-proxy.ts:178-183, 214-219).                                      *)
(***************************************************************************)
CloseReportedOnce ==
  alive => closeEvents = IF closed /\ ~closedByUser THEN 1 ELSE 0

(***************************************************************************)
(* As long as the child starts and lives and the user does not close the   *)
(* driver, no listener throws: in particular the child is not started      *)
(* before both addresses are known (swtpm-proxy.ts:64-106).                *)
(***************************************************************************)
SafeWhileChildLives == ~alive => closedByUser \/ child = "exited"

(***************************************************************************)
(* The child, which reads its arguments with another parser than the one   *)
(* that read the driver's, dials the addresses the servers listen on, in   *)
(* whatever form and order they were given (swtpm-proxy.ts:64-87,          *)
(* main.cc:92-165).  Two are beyond it: for an IPv6 address it dials the   *)
(* loopback, and a path that holds "tcp:" it refuses.                      *)
(***************************************************************************)
ChildDialsServers ==
  child # "none" =>
    \A c \in Channel :
      dialled[c] = IF IsIpv6(AddressOf(c))
                   THEN [AddressOf(c) EXCEPT !.addr = Loopback]
                   ELSE IF HidesTcp(AddressOf(c)) THEN Missing ELSE AddressOf(c)

\* listenAndWait() settles, unless the child goes before it has connected,
\* the driver is closed or the process ends (swtpm-proxy.ts:63-152).
ListenSettles ==
  promise = "pending"
    ~> promise \in {"resolved", "rejected"} \/ closed \/ ~alive
         \/ child = "exited"

\* Once both connections were there, the loss of the child is reported by
\* 'close', or ends the process (swtpm-proxy.ts:130, 139, 214-219).
LossIsReported ==
  promise = "resolved" /\ child = "exited" ~> closed \/ ~alive

(***************************************************************************)
(* A closed driver leaves no child behind, although its kill(0) sends no   *)
(* signal and the last writes may still be on their way: an end the child  *)
(* finds on either connection stops it (swtpm-proxy.ts:192-203, main.cc:   *)
(* 381-402).  Only when both ends came together with bytes, so that one    *)
(* read took the bytes and no event is left (main.cc:168-178), does it     *)
(* stay.                                                                   *)
(***************************************************************************)
CloseStopsChild ==
  closed ~> ~ChildRuns \/ \A c \in Channel : outbound[c] = "missed"

=============================================================================
