------------------------- MODULE SwtpmProxyProcess -------------------------
(***************************************************************************)
(* The swtpm_proxy program of packages/tpm2-proxy/native/src/main.cc: one  *)
(* thread and its epoll loop between a client that speaks the swtpm socket *)
(* protocol (the front end) and the proxy framework (the back end), each   *)
(* with a control and a data connection.  The behaviour begins where the   *)
(* back-end connections are made and the loop starts.                      *)
(*                                                                         *)
(* Bytes are counted, not told apart: every stream has one reader and one  *)
(* writer.  A packet has PacketSize of them, and a read takes at most      *)
(* ReadSize (4096).  A control command or its answer counts as one; how a  *)
(* command is put together is in ControlChannel.                           *)
(*                                                                         *)
(* The peers keep to the protocol: one command at a time on each channel,  *)
(* and a data connection is handed over, or replaced, between packets.     *)
(***************************************************************************)
EXTENDS Integers

CONSTANTS DataFds,      \* data connections the client may hand over
          PacketSize,   \* bytes of a TPM command or response
          ReadSize,     \* size of the buffer in forward_by_read
          MaxPackets,   \* bound on the TPM commands
          MaxControl,   \* bound on the control commands
          MaxClients    \* bound on the clients that connect

ASSUME SizeAssumption ==
  /\ PacketSize \in Nat \ {0}
  /\ ReadSize \in Nat \ {0}
  /\ PacketSize <= ReadSize

ASSUME BoundsAssumption ==
  /\ MaxPackets \in Nat
  /\ MaxControl \in Nat
  /\ MaxClients \in Nat

ControlFds == {"server", "control", "beControl", "beData"}

ASSUME FdsAssumption ==
  DataFds \cap (ControlFds \cup {"none", "other"}) = {}

Fd == ControlFds \cup DataFds

VARIABLES
  running,     \* the loop runs; FALSE also once SIGPIPE has ended the process
  registered,  \* file descriptors added to epoll; "server" only until it fired
  edge,        \* those that became readable since they were last reported
  events,      \* what epoll_wait returned and has not been handled
  inbound,     \* per file descriptor: bytes (connections) to be read
  gone,        \* per file descriptor: the peer has closed it
  connFd,      \* fe_control_conn_fd: "none" or "control"
  dataFd,      \* fe_data_fd: "none" or one of DataFds
  clients,     \* clients that have connected; the first is the one served
  command,     \* the control command on its way: "other", or a data
               \* connection to be set; "none"
  answering,   \* the back end has answered the control command
  commands,    \* control commands sent so far
  clientFd,    \* the data connection the client uses: "none" or of DataFds
  packets,     \* TPM commands begun so far
  busy,        \* the last of them has not been answered
  toSend,      \* bytes of the current TPM command the client has yet to send
  atBackend,   \* bytes of it the back end has
  toAnswer,    \* bytes of its response the back end has yet to send
  atClient,    \* bytes of it the client has
  lost,        \* sides for which something was read that was not delivered
  clean        \* back-end connections that had nothing unread at their end

loop == <<registered, edge, events>>
ctx == <<connFd, dataFd>>
controlExchange == <<clients, command, answering, commands, clientFd>>
dataExchange == <<packets, busy, toSend, atBackend, toAnswer, atClient>>
history == <<lost, clean>>
vars == <<running, loop, inbound, gone, ctx, controlExchange, dataExchange,
          history>>

TypeOK ==
  /\ running \in BOOLEAN
  /\ registered \subseteq Fd
  /\ edge \subseteq Fd
  /\ events \subseteq Fd
  /\ inbound \in [Fd -> Nat]
  /\ gone \in [Fd -> BOOLEAN]
  /\ connFd \in {"none", "control"}
  /\ dataFd \in {"none"} \cup DataFds
  /\ clients \in Nat
  /\ command \in {"none", "other"} \cup DataFds
  /\ answering \in BOOLEAN
  /\ commands \in Nat
  /\ clientFd \in {"none"} \cup DataFds
  /\ packets \in Nat
  /\ busy \in BOOLEAN
  /\ {toSend, atBackend, toAnswer, atClient} \subseteq 0 .. PacketSize
  /\ lost \subseteq {"client", "backend"}
  /\ clean \subseteq {"beControl", "beData"}

Init ==
  /\ running = TRUE
  /\ registered = {"server", "beControl", "beData"}
  /\ edge = {}
  /\ events = {}
  /\ inbound = [fd \in Fd |-> 0]
  /\ gone = [fd \in Fd |-> FALSE]
  /\ connFd = "none"
  /\ dataFd = "none"
  /\ clients = 0
  /\ command = "none"
  /\ answering = FALSE
  /\ commands = 0
  /\ clientFd = "none"
  /\ packets = 0
  /\ busy = FALSE
  /\ toSend = 0
  /\ atBackend = 0
  /\ toAnswer = 0
  /\ atClient = 0
  /\ lost = {}
  /\ clean = {}

Readable(fd) == inbound[fd] > 0 \/ gone[fd]

ClientGone == gone["control"]
BackendGone == gone["beData"]

-----------------------------------------------------------------------------
(* The peers. *)

\* n more bytes can be read from fd.
Arrive(fd, n) ==
  /\ inbound' = [inbound EXCEPT ![fd] = @ + n]
  /\ edge' = edge \cup ({fd} \cap registered)

\* The peer closes the connections in S.
Leave(S) ==
  /\ gone' = [fd \in Fd |-> gone[fd] \/ fd \in S]
  /\ edge' = edge \cup (S \cap registered)

ClientConnects ==
  /\ clients < MaxClients
  /\ clients' = clients + 1
  /\ Arrive("server", 1)
  /\ UNCHANGED <<running, registered, events, gone, ctx, command, answering>>
  /\ UNCHANGED <<commands, clientFd, dataExchange, history>>

\* A control command: CMD_SET_DATAFD with a new connection, or another.
ClientCommands(c) ==
  /\ clients > 0 /\ ~ClientGone
  /\ command = "none"
  /\ commands < MaxControl
  /\ c \in DataFds => c \notin registered /\ ~busy
  /\ command' = c
  /\ commands' = commands + 1
  /\ Arrive("control", 1)
  /\ UNCHANGED <<running, registered, events, gone, ctx, clients, answering>>
  /\ UNCHANGED <<clientFd, dataExchange, history>>

BackendCommanded ==
  /\ ~BackendGone
  /\ command = "other"
  /\ inbound["control"] = 0 /\ ~answering
  /\ answering' = TRUE
  /\ Arrive("beControl", 1)
  /\ UNCHANGED <<running, registered, events, gone, ctx, clients, command>>
  /\ UNCHANGED <<commands, clientFd, dataExchange, history>>

ClientBegins ==
  /\ ~ClientGone
  /\ clientFd # "none" /\ command \notin DataFds
  /\ packets < MaxPackets
  /\ ~busy
  /\ packets' = packets + 1
  /\ busy' = TRUE
  /\ toSend' = PacketSize
  /\ UNCHANGED <<running, loop, inbound, gone, ctx, controlExchange>>
  /\ UNCHANGED <<atBackend, toAnswer, atClient, history>>

ClientSends(n) ==
  /\ ~ClientGone
  /\ n <= toSend
  /\ toSend' = toSend - n
  /\ Arrive(clientFd, n)
  /\ UNCHANGED <<running, registered, events, gone, ctx, controlExchange>>
  /\ UNCHANGED <<packets, busy, atBackend, toAnswer, atClient, history>>

BackendSends(n) ==
  /\ ~BackendGone
  /\ n <= toAnswer
  /\ toAnswer' = toAnswer - n
  /\ Arrive("beData", n)
  /\ UNCHANGED <<running, registered, events, gone, ctx, controlExchange>>
  /\ UNCHANGED <<packets, busy, toSend, atBackend, atClient, history>>

\* A data connection the client has replaced.
ClientClosesOld(fd) ==
  /\ clientFd # "none" /\ fd \in registered /\ fd # clientFd
  /\ ~gone[fd]
  /\ command # fd
  /\ Leave({fd})
  /\ UNCHANGED <<running, registered, events, inbound, ctx, controlExchange>>
  /\ UNCHANGED <<dataExchange, history>>

ClientLeaves ==
  /\ clients > 0 /\ ~ClientGone
  /\ Leave({"control"} \cup DataFds)
  /\ UNCHANGED <<running, registered, events, inbound, ctx, controlExchange>>
  /\ UNCHANGED <<dataExchange, history>>

\* The back end closes both connections; what it has sent can still be read.
BackendLeaves ==
  /\ ~BackendGone
  /\ Leave({"beControl", "beData"})
  /\ clean' = {fd \in {"beControl", "beData"} : inbound[fd] = 0}
  /\ UNCHANGED <<running, registered, events, inbound, ctx, controlExchange>>
  /\ UNCHANGED <<dataExchange, lost>>

-----------------------------------------------------------------------------
(* The loop. *)

(***************************************************************************)
(* epoll_wait, edge-triggered: reports once each descriptor on which       *)
(* something has arrived since its last report, if it can still be read.   *)
(* The server's is reported once (EPOLLONESHOT).  The loop handles what is *)
(* reported, in any order, before it waits again.                          *)
(***************************************************************************)
EpollWait ==
  LET reported == {fd \in edge : Readable(fd)}
  IN  /\ running
      /\ events = {}
      /\ reported # {}
      /\ events' = reported
      /\ edge' = {}
      /\ registered' = registered \ ({"server"} \cap reported)
      /\ UNCHANGED <<running, inbound, gone, ctx, controlExchange>>
      /\ UNCHANGED <<dataExchange, history>>

\* The event the loop handles next.
Handling(fd) ==
  /\ running
  /\ fd \in events
  /\ events' = events \ {fd}

\* epoll_ctl(EPOLL_CTL_ADD): what is readable already is an edge.
Register(fd) ==
  /\ registered' = registered \cup {fd}
  /\ edge' = IF Readable(fd) THEN edge \cup {fd} ELSE edge

\* Mutant of Stop: the end of a stream is not looked at.
GoOn == UNCHANGED running

Stop == running' = FALSE

\* Mutant of KeepConn: the new connection is not remembered.
KeepNoConn == UNCHANGED connFd

KeepConn == connFd' = "control"

\* fe_control_server_fd
HandleServer ==
  /\ Handling("server")
  /\ inbound' = [inbound EXCEPT !["server"] = @ - 1]
  /\ KeepConn
  /\ Register("control")
  /\ UNCHANGED <<running, gone, dataFd, controlExchange, dataExchange>>
  /\ UNCHANGED history

(***************************************************************************)
(* write_full to a connection its peer has closed: SIGPIPE ends the        *)
(* process, or the write goes nowhere and the reset comes back as an edge. *)
(***************************************************************************)
WriteToClosed(fd, rest) ==
  \/ Stop /\ inbound' = rest /\ UNCHANGED edge
  \/ /\ inbound' = [rest EXCEPT ![fd] = 0]
     /\ edge' = edge \cup {fd}
     /\ UNCHANGED running

\* What was read for a side does not get there.
Lose(side) == lost' = lost \cup {side}

\* Mutant of KeepData: the old connection stays the one written to.
KeepFirstData(fd) == dataFd' = IF dataFd = "none" THEN fd ELSE dataFd

KeepData(fd) == dataFd' = fd

\* CMD_SET_DATAFD: remember the connection, watch it, answer.
SetDataFd(fd, rest) ==
  /\ KeepData(fd)
  /\ registered' = registered \cup {fd}
  /\ IF ClientGone
     THEN WriteToClosed("control", rest) /\ UNCHANGED <<command, clientFd>>
     ELSE /\ inbound' = rest
          /\ edge' = IF Readable(fd) THEN edge \cup {fd} ELSE edge
          /\ command' = "none"
          /\ clientFd' = fd
          /\ UNCHANGED running
  /\ UNCHANGED <<answering, lost>>

\* Another command: forward_data; its result is not looked at.
ForwardCommand(rest) ==
  /\ IF BackendGone
     THEN WriteToClosed("beControl", rest) /\ Lose("backend")
     ELSE inbound' = rest /\ UNCHANGED <<running, edge, lost>>
  /\ UNCHANGED <<dataFd, registered, command, clientFd, answering>>

\* handleFrontControlChannel: the call fails at the end of the stream, or
\* when the rest of a command does not come in time.
HandleControl ==
  LET rest == [inbound EXCEPT !["control"] = 0]
  IN  /\ connFd = "control" /\ Handling("control")
      /\ \/ /\ inbound["control"] > 0
            /\ IF command \in DataFds
               THEN SetDataFd(command, rest)
               ELSE ForwardCommand(rest)
         \/ /\ Stop
            /\ inbound' = rest
            /\ UNCHANGED <<dataFd, registered, edge, command, answering>>
            /\ UNCHANGED <<clientFd, lost>>
      /\ UNCHANGED <<gone, connFd, clients, commands, dataExchange, clean>>

\* Mutant of Taken: the size of the buffer is taken for that of the data.
TakenBuffer(fd) == ReadSize

\* read_eintr in forward_by_read.
Taken(fd) == IF inbound[fd] < ReadSize THEN inbound[fd] ELSE ReadSize

\* Mutant of Delivered: one write(), which may be short.
DeliveredOnce(out, in) ==
  IF out = "none" THEN 0
  ELSE IF gone[out] THEN 0
  ELSE IF Taken(in) > 1 THEN Taken(in) - 1 ELSE Taken(in)

\* How much of it comes to the other end of out.
Delivered(out, in) ==
  IF out = "none" THEN 0 ELSE IF gone[out] THEN 0 ELSE Taken(in)

(***************************************************************************)
(* forward_by_read(out, in) for a side: what cannot be written, for want   *)
(* of an out or as that is closed, is lost, and the return value, the      *)
(* number of bytes read, does not tell.                                    *)
(***************************************************************************)
Forward(side, out, in) ==
  LET n    == Taken(in)
      rest == [inbound EXCEPT ![in] = @ - n]
  IN  \/ /\ n = 0
         /\ Stop
         /\ UNCHANGED <<inbound, edge, lost>>
      \/ /\ n > 0 /\ out = "none"
         /\ Lose(side)
         /\ inbound' = rest
         /\ UNCHANGED <<running, edge>>
      \/ /\ n > 0 /\ out # "none"
         /\ IF gone[out]
            THEN WriteToClosed(out, rest) /\ Lose(side)
            ELSE inbound' = rest /\ UNCHANGED <<running, edge, lost>>

\* The back end that has a whole command will answer it.
HandleFrontData ==
  LET n == Delivered("beData", dataFd)
  IN  /\ dataFd # "none" /\ Handling(dataFd)
      /\ Forward("backend", "beData", dataFd)
      /\ atBackend' = atBackend + n
      /\ toAnswer' = IF n > 0 /\ atBackend' = PacketSize
                     THEN PacketSize ELSE toAnswer
      /\ UNCHANGED <<registered, gone, ctx, controlExchange>>
      /\ UNCHANGED <<packets, busy, toSend, atClient, clean>>

\* Mutant of ControlOut: the two connections of the client are mixed up.
DataOut == dataFd

\* Where the back end's control answers go.
ControlOut == connFd

\* An answer that reaches the client ends the control exchange.
HandleBackControl ==
  /\ Handling("beControl")
  /\ Forward("client", ControlOut, "beControl")
  /\ IF Delivered(ControlOut, "beControl") > 0
     THEN command' = "none" /\ answering' = FALSE
     ELSE UNCHANGED <<command, answering>>
  /\ UNCHANGED <<registered, gone, ctx, clients, commands, clientFd>>
  /\ UNCHANGED <<dataExchange, clean>>

\* A response that has arrived whole ends the exchange.
HandleBackData ==
  LET n == IF dataFd = clientFd THEN Delivered(dataFd, "beData") ELSE 0
  IN  /\ Handling("beData")
      /\ Forward("client", dataFd, "beData")
      /\ IF atClient + n = PacketSize
         THEN busy' = FALSE /\ atClient' = 0 /\ atBackend' = 0
         ELSE /\ atClient' = atClient + n
              /\ UNCHANGED <<busy, atBackend>>
      /\ UNCHANGED <<registered, gone, ctx, controlExchange>>
      /\ UNCHANGED <<packets, toSend, toAnswer, clean>>

\* UNKNOWN FD: a data connection that has been replaced.
HandleUnknown(fd) ==
  /\ fd \notin {dataFd, connFd}
  /\ Handling(fd)
  /\ UNCHANGED <<running, registered, edge, inbound, gone, ctx>>
  /\ UNCHANGED <<controlExchange, dataExchange, history>>

-----------------------------------------------------------------------------

Handle ==
  \/ HandleServer
  \/ HandleControl
  \/ HandleFrontData
  \/ HandleBackControl
  \/ HandleBackData
  \/ \E fd \in DataFds \cup {"control"} : HandleUnknown(fd)

Next ==
  \/ ClientConnects
  \/ \E c \in {"other"} \cup DataFds : ClientCommands(c)
  \/ ClientBegins
  \/ \E n \in 1 .. toSend : ClientSends(n)
  \/ \E fd \in DataFds : ClientClosesOld(fd)
  \/ ClientLeaves
  \/ BackendCommanded
  \/ \E n \in 1 .. toAnswer : BackendSends(n)
  \/ BackendLeaves
  \/ EpollWait
  \/ Handle

(***************************************************************************)
(* The process runs; the client finishes the packet it has begun; the back *)
(* end, which passes on what the TPM answers, answers.                     *)
(***************************************************************************)
Fairness ==
  /\ WF_vars(EpollWait)
  /\ WF_vars(Handle)
  /\ WF_vars(\E n \in 1 .. toSend : ClientSends(n))
  /\ WF_vars(\E n \in 1 .. toAnswer : BackendSends(n))
  /\ WF_vars(BackendCommanded)

SafeSpec == Init /\ [][Next]_vars

Spec == SafeSpec /\ Fairness

-----------------------------------------------------------------------------
(* Properties. *)

(***************************************************************************)
(* What was read for a side that has not left gets there.  That a write    *)
(* fails, on a connection that is closed or was never made, goes unnoticed *)
(* (main.cc:171-177, 258-261), so this rests on the order in which the     *)
(* connections come about and are replaced, and on which is written to.    *)
(***************************************************************************)
NothingDropped ==
  /\ "client" \in lost => ClientGone
  /\ "backend" \in lost => BackendGone

(***************************************************************************)
(* No byte of a TPM command or response is lost or doubled on its way,     *)
(* also when the client replaces its data connection between two packets   *)
(* (main.cc:244, 370-402).                                                 *)
(***************************************************************************)
Conserved ==
  running /\ ~ClientGone /\ ~BackendGone /\ busy =>
    LET forth == toSend + inbound[clientFd] + atBackend
        back  == toAnswer + inbound["beData"] + atClient
    IN  /\ forth = PacketSize
        /\ back = IF atBackend = PacketSize THEN PacketSize ELSE 0

(***************************************************************************)
(* A packet begun is answered, unless somebody leaves or the client is too *)
(* slow with a control command.  The loop reads a connection once for each *)
(* edge (main.cc:168-178, 316, 328, 354), so it takes packets that fit one *)
(* read.                                                                   *)
(***************************************************************************)
PacketsAnswered ==
  busy ~> ~busy \/ ~running \/ ClientGone \/ BackendGone

\* A control command is answered under the same conditions.
CommandsAnswered ==
  command # "none" ~> command = "none" \/ ~running \/ ClientGone \/ BackendGone

\* The process does not survive its client: it sees the end of a stream, or
\* the answer to the client's last words fails (main.cc:364-402).
ClientLossEnds == ClientGone /\ connFd # "none" ~> ~running \/ BackendGone

(***************************************************************************)
(* Nor does it survive its back end, if that has left nothing unread on    *)
(* one of its connections.  On a connection with something unread the read *)
(* brings that and not the end, and there is no other edge                 *)
(* (main.cc:168-178, 381-402).                                             *)
(***************************************************************************)
BackendLossEnds == clean # {} ~> ~running

=============================================================================
