---------------------- MODULE SwtpmProxyProcessProofs ----------------------
(***************************************************************************)
(* Proofs about the swtpm_proxy program, for any number of data            *)
(* connections, packets, commands and clients, and any sizes of packets    *)
(* and of reads: nothing read for a side that is there is dropped, and no  *)
(* byte is lost or doubled.                                                *)
(*                                                                         *)
(* The loop looks at two global variables, fe_control_conn_fd and          *)
(* fe_data_fd, that may still be unset.  The invariant says why the        *)
(* back end has nothing to answer as long as they are.                     *)
(***************************************************************************)
EXTENDS SwtpmProxyProcess, TLAPS

(***************************************************************************)
(* What epoll watches and reports.  A connection is known to the loop as   *)
(* long as it is watched, and a report of the server, which is made once,  *)
(* stands for a connection that can be accepted.                           *)
(***************************************************************************)
EventsInv ==
  \A fd \in events :
    /\ fd \in registered \cup {"server"}
    /\ fd = "server" => inbound["server"] > 0

LoopInv ==
  /\ EventsInv
  /\ edge \subseteq registered
  /\ {"beControl", "beData"} \subseteq registered
  /\ "control" \in registered <=> connFd = "control"
  /\ dataFd # "none" => dataFd \in registered
  /\ ~gone["server"]

\* Before the client's control connection is known no command has been read,
\* so the back end has not been asked anything on its own.
ControlInv ==
  connFd = "none" =>
    /\ ~answering
    /\ inbound["beControl"] = 0
    /\ command # "none" => inbound["control"] > 0

(***************************************************************************)
(* The client sends packets on the one connection the loop took from it    *)
(* last, and hands over another only between packets.  As long as it has   *)
(* not left, the loop writes to that connection and it is open.            *)
(***************************************************************************)
DataInv ==
  /\ dataFd = "none" => clientFd = "none"
  /\ busy => clientFd # "none" /\ command \notin DataFds
  /\ \A fd \in DataFds : inbound[fd] > 0 => busy /\ fd = clientFd
  /\ ~ClientGone =>
       /\ dataFd = clientFd
       /\ clientFd # "none" => ~gone[clientFd]
       /\ command \in DataFds => ~gone[command]
       /\ \A fd \in DataFds : gone[fd] => fd \in registered

\* Where the bytes of a command and of its response are, whoever has left.
CountInv ==
  /\ ~busy => /\ toSend = 0 /\ atBackend = 0
              /\ toAnswer = 0 /\ atClient = 0 /\ inbound["beData"] = 0
  /\ busy => /\ toSend + inbound[clientFd] + atBackend <= PacketSize
             /\ toAnswer + inbound["beData"] + atClient <= PacketSize
             /\ atBackend # PacketSize =>
                  toAnswer + inbound["beData"] + atClient = 0
             /\ atClient # PacketSize

\* The inductive invariant.
IInv ==
  /\ TypeOK
  /\ LoopInv
  /\ ControlInv
  /\ DataInv
  /\ CountInv
  /\ NothingDropped
  /\ Conserved

-----------------------------------------------------------------------------
(* What an action does to the events, and what a read takes. *)

\* Descriptors are told apart from each other and from the absence of one.
LEMMA Descriptors ==
  /\ "server" \in Fd /\ "control" \in Fd
  /\ "beControl" \in Fd /\ "beData" \in Fd
  /\ "none" \notin Fd /\ "other" \notin Fd
  /\ DataFds \subseteq Fd
  /\ \A fd \in DataFds :
       /\ fd # "server" /\ fd # "control" /\ fd # "beControl" /\ fd # "beData"
       /\ fd # "none" /\ fd # "other"
BY FdsAssumption DEF Fd, ControlFds

\* The counts are numbers, and the client's data connection exists while it
\* is busy.
LEMMA Counts ==
  ASSUME IInv
  PROVE  /\ PacketSize \in Nat /\ PacketSize > 0
         /\ toSend \in Nat /\ atBackend \in Nat
         /\ toAnswer \in Nat /\ atClient \in Nat
         /\ inbound["beData"] \in Nat
         /\ busy => clientFd \in DataFds /\ clientFd \in Fd
         /\ busy => inbound[clientFd] \in Nat
  BY Descriptors, SizeAssumption DEF IInv, TypeOK, DataInv

\* The event that is handled is one of those reported.
LEMMA HandlingTakes ==
  ASSUME TypeOK, NEW fd, Handling(fd)
  PROVE  events' \subseteq Fd /\ fd \in events
BY DEF Handling, TypeOK

\* The rest of the events stays true when nothing is taken off the watch and
\* the server's connection is accepted in its own event only.
LEMMA HandlingKeepsEvents ==
  ASSUME EventsInv, NEW fd, Handling(fd),
         registered \subseteq registered',
         fd = "server" \/ inbound'["server"] = inbound["server"]
  PROVE  EventsInv'
BY DEF Handling, EventsInv

\* What arrives is counted where it arrives, and watched ends see an edge.
LEMMA ArriveMoves ==
  ASSUME TypeOK, NEW to \in Fd, NEW n \in Nat, Arrive(to, n)
  PROVE  /\ \A fd \in Fd :
              inbound'[fd] = IF fd = to THEN inbound[fd] + n ELSE inbound[fd]
         /\ inbound' \in [Fd -> Nat]
         /\ edge \subseteq edge'
         /\ edge' \subseteq edge \cup registered
<1>1. /\ inbound \in [Fd -> Nat]
      /\ inbound' = [inbound EXCEPT ![to] = @ + n]
      /\ edge' = edge \cup ({to} \cap registered)
  BY DEF TypeOK, Arrive
<1>2. QED
  BY <1>1

-----------------------------------------------------------------------------
(* The peers keep the invariant. *)

\* The environment: a client connects.
LEMMA ConnectsKeeps ==
  ASSUME IInv, ClientConnects
  PROVE  IInv'
<1>1. UNCHANGED <<running, registered, events, gone, connFd, dataFd,
                 command, answering, commands, clientFd, packets, busy,
                 toSend, atBackend, toAnswer, atClient, lost, clean>>
  BY DEF ClientConnects, Arrive, loop, ctx, controlExchange, dataExchange,
         history
<1>2. /\ clients' = clients + 1
      /\ \A fd \in Fd :
           inbound'[fd] = IF fd = "server" THEN inbound[fd] + 1 ELSE inbound[fd]
      /\ inbound' \in [Fd -> Nat]
      /\ edge \subseteq edge'
      /\ edge' \subseteq edge \cup registered
      /\ inbound'["server"] > 0
  <2>1. Arrive("server", 1) /\ TypeOK /\ clients' = clients + 1
    BY DEF ClientConnects, IInv
  <2>2. inbound["server"] \in Nat
    BY Descriptors DEF IInv, TypeOK
  <2>3. QED
    BY <2>1, <2>2, Descriptors, ArriveMoves
<1>3. TypeOK'
  <2>1. edge' \subseteq Fd /\ inbound' \in [Fd -> Nat]
    BY <1>2 DEF IInv, TypeOK
  <2>2. QED
    BY <1>1, <1>2, <2>1, SizeAssumption DEF IInv, TypeOK
<1>4. LoopInv'
  <2>1. inbound["server"] \in Nat /\ "server" \in Fd
    BY Descriptors DEF IInv, TypeOK
  <2>2. inbound["server"] > 0 => inbound'["server"] > 0
    BY <1>2, <2>1
  <2>3. EventsInv'
    BY <1>1, <2>2 DEF IInv, LoopInv, EventsInv
  <2>4. QED
    BY <1>1, <1>2, <2>3, Descriptors DEF IInv, TypeOK, LoopInv
<1>5. ControlInv'
  BY <1>1, <1>2, Descriptors DEF IInv, TypeOK, ControlInv
<1>6. DataInv'
  BY <1>1, <1>2, Descriptors, SizeAssumption
     DEF IInv, TypeOK, DataInv, ClientGone
<1>7. CountInv'
  BY <1>1, <1>2, Descriptors, SizeAssumption
     DEF IInv, TypeOK, CountInv, DataInv
<1>8. (NothingDropped /\ Conserved)'
  BY <1>1, <1>2, Descriptors, SizeAssumption
     DEF IInv, TypeOK, CountInv, DataInv, NothingDropped, Conserved,
         ClientGone, BackendGone
<1>9. QED
  BY <1>3, <1>4, <1>5, <1>6, <1>7, <1>8 DEF IInv

\* The client sends a control command, perhaps with a data connection.
LEMMA CommandsKeeps ==
  ASSUME IInv, NEW c \in {"other"} \cup DataFds, ClientCommands(c)
  PROVE  IInv'
<1>1. UNCHANGED <<running, registered, events, gone, connFd, dataFd,
                 clients, answering, clientFd, packets, busy, toSend,
                 atBackend, toAnswer, atClient, lost, clean>>
  BY DEF ClientCommands, ClientGone, Arrive, loop, ctx, controlExchange,
         dataExchange,
         history
<1>2. /\ command = "none" /\ clients > 0
      /\ ~gone["control"]
      /\ c \in DataFds => c \notin registered /\ ~busy
      /\ command' = c /\ commands' = commands + 1
      /\ \A fd \in Fd :
           inbound'[fd] = IF fd = "control" THEN inbound[fd] + 1 ELSE inbound[fd]
      /\ inbound' \in [Fd -> Nat]
      /\ edge \subseteq edge'
      /\ edge' \subseteq edge \cup registered
  <2>1. Arrive("control", 1) /\ TypeOK
    BY DEF ClientCommands, IInv
  <2>2. QED
    BY <2>1, Descriptors, ArriveMoves DEF ClientCommands, ClientGone
<1>3. TypeOK'
  <2>1. edge' \subseteq Fd /\ inbound' \in [Fd -> Nat]
    BY <1>2 DEF IInv, TypeOK
  <2>2. QED
    BY <1>1, <1>2, <2>1, SizeAssumption DEF IInv, TypeOK
<1>4. LoopInv'
  <2>1. inbound["server"] \in Nat /\ "server" \in Fd
    BY Descriptors DEF IInv, TypeOK
  <2>2. inbound["server"] > 0 => inbound'["server"] > 0
    BY <1>2, <2>1
  <2>3. EventsInv'
    BY <1>1, <2>2 DEF IInv, LoopInv, EventsInv
  <2>4. QED
    BY <1>1, <1>2, <2>3, Descriptors DEF IInv, TypeOK, LoopInv
<1>5. ControlInv'
  BY <1>1, <1>2, Descriptors, SMTT(30) DEF IInv, TypeOK, ControlInv
<1>6. DataInv'
  BY <1>1, <1>2, Descriptors, SizeAssumption
     DEF IInv, TypeOK, DataInv, ClientGone
<1>7. CountInv'
  BY <1>1, <1>2, Descriptors, SizeAssumption
     DEF IInv, TypeOK, CountInv, DataInv
<1>8. (NothingDropped /\ Conserved)'
  BY <1>1, <1>2, Descriptors, SizeAssumption
     DEF IInv, TypeOK, CountInv, DataInv, NothingDropped, Conserved,
         ClientGone, BackendGone
<1>9. QED
  BY <1>3, <1>4, <1>5, <1>6, <1>7, <1>8 DEF IInv

\* The client begins a packet.
LEMMA BeginsKeeps ==
  ASSUME IInv, ClientBegins
  PROVE  IInv'
<1>1. UNCHANGED <<running, registered, edge, events, inbound, gone, connFd,
                 dataFd, clients, command, answering, commands, clientFd,
                 atBackend, toAnswer, atClient, lost, clean>>
  BY DEF ClientBegins, loop, ctx, controlExchange, dataExchange,
         history
<1>2. /\ ~busy /\ clientFd # "none" /\ command \notin DataFds
      /\ packets' = packets + 1 /\ busy' = TRUE /\ toSend' = PacketSize
  BY Descriptors, SizeAssumption
     DEF ClientBegins, IInv, TypeOK, DataInv, CountInv
<1>3. TypeOK'
  BY <1>1, <1>2, Descriptors, SizeAssumption DEF IInv, TypeOK
<1>4. LoopInv'
  BY <1>1, <1>2, Descriptors, SizeAssumption
     DEF IInv, TypeOK, LoopInv, EventsInv
<1>5. ControlInv'
  BY <1>1, <1>2, Descriptors, SizeAssumption DEF IInv, TypeOK, ControlInv
<1>6. DataInv'
  BY <1>1, <1>2, Descriptors, SizeAssumption
     DEF IInv, TypeOK, DataInv, ClientGone
<1>7. CountInv'
  BY <1>1, <1>2, Descriptors, SizeAssumption
     DEF IInv, TypeOK, CountInv, DataInv
<1>8. (NothingDropped /\ Conserved)'
  BY <1>1, <1>2, Descriptors, SizeAssumption
     DEF IInv, TypeOK, CountInv, DataInv, NothingDropped, Conserved,
         ClientGone, BackendGone
<1>9. QED
  BY <1>3, <1>4, <1>5, <1>6, <1>7, <1>8 DEF IInv

\* The client sends a part of its packet.
LEMMA SendsKeeps ==
  ASSUME IInv, NEW n \in 1 .. toSend, ClientSends(n)
  PROVE  IInv'
<1>1. UNCHANGED <<running, registered, events, gone, connFd, dataFd,
                 clients, command, answering, commands, clientFd, packets,
                 busy, atBackend, toAnswer, atClient, lost, clean>>
  BY DEF ClientSends, Arrive, loop, ctx, controlExchange, dataExchange,
         history
<1>2. /\ busy /\ clientFd \in DataFds
      /\ toSend' = toSend - n
      /\ \A fd \in Fd :
           inbound'[fd] = IF fd = clientFd THEN inbound[fd] + n ELSE inbound[fd]
      /\ inbound' \in [Fd -> Nat]
      /\ edge \subseteq edge'
      /\ edge' \subseteq edge \cup registered
  <2>1. /\ toSend > 0 /\ n \in Nat /\ toSend' = toSend - n
        /\ Arrive(clientFd, n) /\ TypeOK
    BY SizeAssumption DEF ClientSends, IInv, TypeOK
  <2>2. busy /\ clientFd \in DataFds /\ clientFd \in Fd
    <3>1. busy
      BY <2>1 DEF IInv, CountInv
    <3>2. QED
      BY <3>1, Counts
  <2>3. QED
    BY <2>1, <2>2, ArriveMoves
<1>3. TypeOK'
  <2>1. n \in Nat /\ toSend' \in 0 .. PacketSize
    BY <1>2, SizeAssumption DEF IInv, TypeOK
  <2>2. edge' \subseteq Fd /\ inbound' \in [Fd -> Nat]
    BY <1>2 DEF IInv, TypeOK
  <2>3. QED
    BY <1>1, <2>1, <2>2 DEF IInv, TypeOK
<1>4. LoopInv'
  <2>1. inbound["server"] \in Nat /\ "server" \in Fd
    BY Descriptors DEF IInv, TypeOK
  <2>2. inbound["server"] > 0 => inbound'["server"] > 0
    BY <1>2, <2>1
  <2>3. EventsInv'
    BY <1>1, <2>2 DEF IInv, LoopInv, EventsInv
  <2>4. QED
    BY <1>1, <1>2, <2>3, Descriptors DEF IInv, TypeOK, LoopInv
<1>5. ControlInv'
  BY <1>1, <1>2, Descriptors DEF IInv, TypeOK, ControlInv
<1>6. DataInv'
  BY <1>1, <1>2, Descriptors, SizeAssumption
     DEF IInv, TypeOK, DataInv, ClientGone
<1>7. CountInv'
  <2>1. /\ toSend \in Nat /\ atBackend \in Nat /\ n \in Nat
        /\ toSend' = toSend - n
    BY <1>2, SizeAssumption DEF IInv, TypeOK
  <2>2. /\ inbound[clientFd] \in Nat
        /\ inbound'[clientFd] = inbound[clientFd] + n
        /\ inbound'["beData"] = inbound["beData"]
    BY <1>2, Descriptors DEF IInv, TypeOK
  <2>3. QED
    BY <1>1, <1>2, <2>1, <2>2, SizeAssumption DEF IInv, CountInv
<1>8. (NothingDropped /\ Conserved)'
  <2>1. NothingDropped'
    BY <1>1 DEF IInv, NothingDropped, ClientGone, BackendGone
  <2>2. (busy => inbound'[clientFd] = inbound[clientFd] + n)
        /\ inbound'["beData"] = inbound["beData"]
    BY <1>2, Descriptors
  <2>3. Conserved'
    BY <1>1, <1>2, <2>2, Counts
       DEF IInv, Conserved, ClientGone, BackendGone
  <2>4. QED
    BY <2>1, <2>3
<1>9. QED
  BY <1>3, <1>4, <1>5, <1>6, <1>7, <1>8 DEF IInv

\* The client closes a data connection it has replaced.
LEMMA ClosesKeeps ==
  ASSUME IInv, NEW fd \in DataFds, ClientClosesOld(fd)
  PROVE  IInv'
<1>1. UNCHANGED <<running, registered, events, inbound, connFd, dataFd,
                 clients, command, answering, commands, clientFd, packets,
                 busy, toSend, atBackend, toAnswer, atClient, lost, clean>>
  BY DEF ClientClosesOld, Leave, loop, ctx, controlExchange, dataExchange,
         history
<1>2. /\ fd \in registered /\ fd # clientFd /\ command # fd
      /\ \A g \in Fd : gone'[g] <=> (gone[g] \/ g = fd)
      /\ gone' \in [Fd -> BOOLEAN]
      /\ edge' \subseteq edge \cup registered
  BY Descriptors, SizeAssumption DEF ClientClosesOld, Leave, IInv, TypeOK
<1>3. TypeOK'
  BY <1>1, <1>2, Descriptors, SizeAssumption DEF IInv, TypeOK
<1>4. LoopInv'
  BY <1>1, <1>2, Descriptors, SizeAssumption
     DEF IInv, TypeOK, LoopInv, EventsInv
<1>5. ControlInv'
  BY <1>1, <1>2, Descriptors, SizeAssumption DEF IInv, TypeOK, ControlInv
<1>6. DataInv'
  BY <1>1, <1>2, Descriptors, SizeAssumption
     DEF IInv, TypeOK, DataInv, ClientGone
<1>7. CountInv'
  BY <1>1, <1>2, Descriptors, SizeAssumption
     DEF IInv, TypeOK, CountInv, DataInv
<1>8. (NothingDropped /\ Conserved)'
  BY <1>1, <1>2, Descriptors, SizeAssumption
     DEF IInv, TypeOK, CountInv, DataInv, NothingDropped, Conserved,
         ClientGone, BackendGone
<1>9. QED
  BY <1>3, <1>4, <1>5, <1>6, <1>7, <1>8 DEF IInv

\* The client leaves, and all its connections end.
LEMMA LeavesKeeps ==
  ASSUME IInv, ClientLeaves
  PROVE  IInv'
<1>1. UNCHANGED <<running, registered, events, inbound, connFd, dataFd,
                 clients, command, answering, commands, clientFd, packets,
                 busy, toSend, atBackend, toAnswer, atClient, lost, clean>>
  BY DEF ClientLeaves, Leave, loop, ctx, controlExchange, dataExchange,
         history
<1>2. /\ \A fd \in Fd :
           gone'[fd] <=> (gone[fd] \/ fd \in {"control"} \cup DataFds)
      /\ gone' \in [Fd -> BOOLEAN]
      /\ edge' \subseteq edge \cup registered
  BY Descriptors, SizeAssumption DEF ClientLeaves, Leave, IInv, TypeOK
<1>3. TypeOK'
  BY <1>1, <1>2, Descriptors, SizeAssumption DEF IInv, TypeOK
<1>4. LoopInv'
  BY <1>1, <1>2, Descriptors, SizeAssumption
     DEF IInv, TypeOK, LoopInv, EventsInv
<1>5. ControlInv'
  BY <1>1, <1>2, Descriptors, SizeAssumption DEF IInv, TypeOK, ControlInv
<1>6. DataInv'
  BY <1>1, <1>2, Descriptors, SizeAssumption
     DEF IInv, TypeOK, DataInv, ClientGone
<1>7. CountInv'
  BY <1>1, <1>2, Descriptors, SizeAssumption
     DEF IInv, TypeOK, CountInv, DataInv
<1>8. (NothingDropped /\ Conserved)'
  BY <1>1, <1>2, Descriptors, SizeAssumption
     DEF IInv, TypeOK, CountInv, DataInv, NothingDropped, Conserved,
         ClientGone, BackendGone
<1>9. QED
  BY <1>3, <1>4, <1>5, <1>6, <1>7, <1>8 DEF IInv

\* The back end answers a control command.
LEMMA CommandedKeeps ==
  ASSUME IInv, BackendCommanded
  PROVE  IInv'
<1>1. UNCHANGED <<running, registered, events, gone, connFd, dataFd,
                 clients, command, commands, clientFd, packets, busy,
                 toSend, atBackend, toAnswer, atClient, lost, clean>>
  BY DEF BackendCommanded, Arrive, loop, ctx, controlExchange, dataExchange,
         history
<1>2. /\ command = "other" /\ inbound["control"] = 0
      /\ answering' = TRUE
      /\ \A fd \in Fd :
           inbound'[fd] = IF fd = "beControl" THEN inbound[fd] + 1 ELSE inbound[fd]
      /\ inbound' \in [Fd -> Nat]
      /\ edge \subseteq edge'
      /\ edge' \subseteq edge \cup registered
  BY Descriptors, SizeAssumption DEF BackendCommanded, Arrive, IInv, TypeOK
<1>3. TypeOK'
  BY <1>1, <1>2, Descriptors, SizeAssumption DEF IInv, TypeOK
<1>4. LoopInv'
  <2>1. EventsInv'
    BY <1>1, <1>2, Descriptors DEF IInv, LoopInv, EventsInv
  <2>2. QED
    BY <1>1, <1>2, <2>1 DEF IInv, LoopInv
<1>5. ControlInv'
  BY <1>1, <1>2, Descriptors, SizeAssumption DEF IInv, TypeOK, ControlInv
<1>6. DataInv'
  BY <1>1, <1>2, Descriptors, SizeAssumption
     DEF IInv, TypeOK, DataInv, ClientGone
<1>7. CountInv'
  BY <1>1, <1>2, Descriptors, SizeAssumption
     DEF IInv, TypeOK, CountInv, DataInv
<1>8. (NothingDropped /\ Conserved)'
  BY <1>1, <1>2, Descriptors, SizeAssumption
     DEF IInv, TypeOK, CountInv, DataInv, NothingDropped, Conserved,
         ClientGone, BackendGone
<1>9. QED
  BY <1>3, <1>4, <1>5, <1>6, <1>7, <1>8 DEF IInv

\* The back end sends a part of the response.
LEMMA AnswersKeeps ==
  ASSUME IInv, NEW n \in 1 .. toAnswer, BackendSends(n)
  PROVE  IInv'
<1>1. UNCHANGED <<running, registered, events, gone, connFd, dataFd,
                 clients, command, answering, commands, clientFd, packets,
                 busy, toSend, atBackend, atClient, lost, clean>>
  BY DEF BackendSends, Arrive, loop, ctx, controlExchange, dataExchange,
         history
<1>2. /\ toAnswer' = toAnswer - n
      /\ n \in Nat \ {0} /\ toAnswer \in Nat \ {0}
      /\ toAnswer' \in 0 .. PacketSize
      /\ \A fd \in Fd :
           inbound'[fd] = IF fd = "beData" THEN inbound[fd] + n ELSE inbound[fd]
      /\ inbound' \in [Fd -> Nat]
      /\ edge \subseteq edge'
      /\ edge' \subseteq edge \cup registered
  <2>1. /\ toAnswer' = toAnswer - n
        /\ Arrive("beData", n) /\ TypeOK
    BY DEF BackendSends, IInv
  <2>2. /\ n \in Nat \ {0} /\ toAnswer \in Nat \ {0}
        /\ toAnswer' \in 0 .. PacketSize
    BY <2>1, SizeAssumption DEF TypeOK
  <2>3. QED
    BY <2>1, <2>2, Descriptors, ArriveMoves
<1>3. TypeOK'
  <2>1. edge' \subseteq Fd /\ inbound' \in [Fd -> Nat]
    BY <1>2 DEF IInv, TypeOK
  <2>2. QED
    BY <1>1, <1>2, <2>1, SizeAssumption DEF IInv, TypeOK
<1>4. LoopInv'
  <2>1. inbound["server"] \in Nat /\ "server" \in Fd
    BY Descriptors DEF IInv, TypeOK
  <2>2. inbound["server"] > 0 => inbound'["server"] > 0
    BY <1>2, <2>1
  <2>3. EventsInv'
    BY <1>1, <2>2 DEF IInv, LoopInv, EventsInv
  <2>4. QED
    BY <1>1, <1>2, <2>3, Descriptors DEF IInv, TypeOK, LoopInv
<1>5. ControlInv'
  BY <1>1, <1>2, Descriptors DEF IInv, TypeOK, ControlInv
<1>6. DataInv'
  BY <1>1, <1>2, Descriptors, SizeAssumption
     DEF IInv, TypeOK, DataInv, ClientGone
<1>7. CountInv'
  <2>1. /\ inbound["beData"] \in Nat
        /\ inbound'["beData"] = inbound["beData"] + n
        /\ clientFd \in DataFds => inbound'[clientFd] = inbound[clientFd]
    BY <1>2, Descriptors DEF IInv, TypeOK
  <2>2. busy => clientFd \in DataFds
    BY DEF IInv, DataInv, TypeOK
  <2>3. atClient \in Nat
    BY SizeAssumption DEF IInv, TypeOK
  <2>4. QED
    BY <1>1, <1>2, <2>1, <2>2, <2>3, SizeAssumption DEF IInv, CountInv
<1>8. (NothingDropped /\ Conserved)'
  <2>1. NothingDropped'
    BY <1>1 DEF IInv, NothingDropped, ClientGone, BackendGone
  <2>2. /\ inbound'["beData"] = inbound["beData"] + n
        /\ busy => inbound'[clientFd] = inbound[clientFd]
    BY <1>2, Descriptors, Counts
  <2>3. n \in Nat /\ toAnswer' = toAnswer - n
    BY <1>2
  <2>4. Conserved'
    BY <1>1, <2>2, <2>3, Counts DEF IInv, Conserved, ClientGone, BackendGone
  <2>5. QED
    BY <2>1, <2>4
<1>9. QED
  BY <1>3, <1>4, <1>5, <1>6, <1>7, <1>8 DEF IInv

\* The back end ends its connections.
LEMMA GoesKeeps ==
  ASSUME IInv, BackendLeaves
  PROVE  IInv'
<1>1. UNCHANGED <<running, registered, events, inbound, connFd, dataFd,
                 clients, command, answering, commands, clientFd, packets,
                 busy, toSend, atBackend, toAnswer, atClient, lost>>
  BY DEF BackendLeaves, Leave, loop, ctx, controlExchange, dataExchange,
         history
<1>2. /\ \A fd \in Fd :
           gone'[fd] <=> (gone[fd] \/ fd \in {"beControl", "beData"})
      /\ gone' \in [Fd -> BOOLEAN]
      /\ edge' \subseteq edge \cup registered
      /\ clean' \subseteq {"beControl", "beData"}
  BY Descriptors, SizeAssumption DEF BackendLeaves, Leave, IInv, TypeOK
<1>3. TypeOK'
  BY <1>1, <1>2, Descriptors, SizeAssumption DEF IInv, TypeOK
<1>4. LoopInv'
  BY <1>1, <1>2, Descriptors, SizeAssumption
     DEF IInv, TypeOK, LoopInv, EventsInv
<1>5. ControlInv'
  BY <1>1, <1>2, Descriptors, SizeAssumption DEF IInv, TypeOK, ControlInv
<1>6. DataInv'
  BY <1>1, <1>2, Descriptors, SizeAssumption
     DEF IInv, TypeOK, DataInv, ClientGone
<1>7. CountInv'
  BY <1>1, <1>2, Descriptors, SizeAssumption
     DEF IInv, TypeOK, CountInv, DataInv
<1>8. (NothingDropped /\ Conserved)'
  BY <1>1, <1>2, Descriptors, SizeAssumption
     DEF IInv, TypeOK, CountInv, DataInv, NothingDropped, Conserved,
         ClientGone, BackendGone
<1>9. QED
  BY <1>3, <1>4, <1>5, <1>6, <1>7, <1>8 DEF IInv

-----------------------------------------------------------------------------
(* The loop keeps the invariant. *)

\* The loop: epoll_wait reports the connections that have had an edge.
LEMMA EpollWaitKeeps ==
  ASSUME IInv, EpollWait
  PROVE  IInv'
<1>1. UNCHANGED <<running, inbound, gone, connFd, dataFd, clients, command,
                 answering, commands, clientFd, packets, busy, toSend,
                 atBackend, toAnswer, atClient, lost, clean>>
  BY DEF EpollWait, ctx, controlExchange, dataExchange,
         history
<1>2. /\ edge' = {}
      /\ registered' \subseteq registered
      /\ \A fd \in registered : fd # "server" => fd \in registered'
  BY DEF EpollWait
<1>3. /\ events' \subseteq Fd
      /\ \A fd \in events' : fd \in edge /\ Readable(fd)
  BY DEF EpollWait, IInv, TypeOK
<1>4. TypeOK'
  BY <1>1, <1>2, <1>3 DEF IInv, TypeOK
<1>5. LoopInv'
  <2>1. EventsInv'
    BY <1>1, <1>2, <1>3, Descriptors
       DEF IInv, LoopInv, EventsInv, TypeOK, Readable
  <2>2. QED
    BY <1>1, <1>2, <2>1, Descriptors DEF IInv, LoopInv, TypeOK
<1>6. ControlInv'
  BY <1>1 DEF IInv, ControlInv
<1>7. DataInv'
  BY <1>1, <1>2, Descriptors DEF IInv, DataInv, ClientGone
<1>8. CountInv'
  BY <1>1 DEF IInv, CountInv
<1>9. (NothingDropped /\ Conserved)'
  BY <1>1 DEF IInv, NothingDropped, Conserved, ClientGone, BackendGone
<1>10. QED
  BY <1>4, <1>5, <1>6, <1>7, <1>8, <1>9 DEF IInv

\* The server's event: the client's control connection is accepted.
LEMMA HandleServerKeeps ==
  ASSUME IInv, HandleServer
  PROVE  IInv'
<1>1. UNCHANGED <<running, gone, dataFd, clients, command, answering,
                 commands, clientFd, packets, busy, toSend, atBackend,
                 toAnswer, atClient, lost, clean>>
  BY DEF HandleServer, controlExchange, dataExchange,
         history
<1>2. inbound["server"] > 0
  BY HandlingTakes DEF HandleServer, IInv, LoopInv, EventsInv, TypeOK
<1>3. /\ inbound' \in [Fd -> Nat]
      /\ \A fd \in Fd : fd # "server" => inbound'[fd] = inbound[fd]
      /\ connFd' = "control"
      /\ registered' = registered \cup {"control"}
      /\ edge' \subseteq edge \cup {"control"}
  BY <1>2, Descriptors DEF HandleServer, KeepConn, Register, IInv, TypeOK
<1>4. TypeOK'
  BY <1>1, <1>3, HandlingTakes, Descriptors DEF HandleServer, IInv, TypeOK
<1>5. LoopInv'
  <2>1. EventsInv'
    BY <1>3, HandlingKeepsEvents DEF HandleServer, IInv, LoopInv
  <2>2. QED
    BY <1>1, <1>3, <2>1 DEF IInv, LoopInv
<1>6. ControlInv'
  BY <1>3 DEF ControlInv
<1>7. DataInv'
  BY <1>1, <1>3, Descriptors DEF IInv, DataInv, ClientGone
<1>8. CountInv'
  BY <1>1, <1>3, Descriptors DEF IInv, CountInv, DataInv, TypeOK
<1>9. (NothingDropped /\ Conserved)'
  BY <1>1, <1>3, Descriptors
     DEF IInv, TypeOK, DataInv, NothingDropped, Conserved,
         ClientGone, BackendGone
<1>10. QED
  BY <1>4, <1>5, <1>6, <1>7, <1>8, <1>9 DEF IInv

(***************************************************************************)
(* What handling a control message moves: the message is gone, and what    *)
(* waited on the control connection of the back end may be.                *)
(***************************************************************************)
LEMMA HandleControlMoves ==
  ASSUME IInv, HandleControl
  PROVE  /\ UNCHANGED <<gone, connFd, clients, commands, packets, busy, toSend,
                        atBackend, toAnswer, atClient, clean>>
         /\ UNCHANGED answering
         /\ connFd = "control"
         /\ inbound' \in [Fd -> Nat]
         /\ \A fd \in Fd \ {"control", "beControl"} :
               inbound'[fd] = inbound[fd]
         /\ running' \in BOOLEAN /\ (running' => running)
         /\ \/ /\ command \in DataFds
               /\ dataFd' = command
               /\ registered' = registered \cup {command}
               /\ IF ClientGone
                  THEN UNCHANGED <<command, clientFd>>
                  ELSE command' = "none" /\ clientFd' = command
            \/ UNCHANGED <<dataFd, registered, command, clientFd>>
         /\ edge' \subseteq edge \cup registered'
         /\ \/ UNCHANGED lost
            \/ BackendGone /\ lost' = lost \cup {"backend"}
<1>1. connFd = "control" /\ {"control", "beControl"} \subseteq registered
  <2>1. "control" \in events
    BY HandlingTakes DEF HandleControl, IInv
  <2>2. "control" \in registered
    BY <2>1 DEF IInv, LoopInv, EventsInv
  <2>3. QED
    BY <2>2 DEF IInv, LoopInv
<1>2. /\ UNCHANGED <<gone, connFd, clients, commands, packets, busy, toSend,
                     atBackend, toAnswer, atClient, clean>>
      /\ UNCHANGED answering
  <2>1. UNCHANGED <<gone, connFd, clients, commands, packets, busy, toSend,
                    atBackend, toAnswer, atClient, clean>>
    BY DEF HandleControl, dataExchange
  <2>2. UNCHANGED answering
    BY DEF HandleControl, SetDataFd, ForwardCommand
  <2>3. QED
    BY <2>1, <2>2
<1> DEFINE rest == [inbound EXCEPT !["control"] = 0]
<1>0. /\ rest \in [Fd -> Nat]
      /\ \A fd \in Fd \ {"control"} : rest[fd] = inbound[fd]
      /\ running \in BOOLEAN
      /\ registered \subseteq Fd /\ edge \subseteq registered
  BY Descriptors DEF IInv, TypeOK, LoopInv
<1> HIDE DEF rest
<1>written. ASSUME NEW fd \in {"control", "beControl"}, WriteToClosed(fd, rest)
      PROVE  /\ inbound' \in [Fd -> Nat]
             /\ \A g \in Fd \ {"control", "beControl"} :
                  inbound'[g] = inbound[g]
             /\ running' \in BOOLEAN /\ (running' => running)
             /\ edge' \subseteq edge \cup registered
  <2>1. running' = FALSE \/ running' = running
    BY <1>written, Zenon DEF WriteToClosed, Stop
  <2>2. running' \in BOOLEAN
    BY <1>0, <2>1
  <2>3. running' => running
    BY <2>1
  <2>4. /\ inbound' \in [Fd -> Nat]
        /\ \A g \in Fd \ {"control", "beControl"} : inbound'[g] = inbound[g]
        /\ edge' \subseteq edge \cup registered
    BY <1>1, <1>0, <1>written DEF WriteToClosed
  <2>5. QED
    BY <2>2, <2>3, <2>4, Zenon
<1>lost. \/ UNCHANGED lost
         \/ BackendGone /\ lost' = lost \cup {"backend"}
  BY Zenon DEF HandleControl, SetDataFd, ForwardCommand, Lose
<1>3. CASE /\ inbound["control"] > 0 /\ command \in DataFds
           /\ SetDataFd(command, rest)
  <2>1. dataFd' = command /\ registered' = registered \cup {command}
    BY <1>3 DEF SetDataFd, KeepData
  <2>2. CASE ClientGone
    <3>1. WriteToClosed("control", rest) /\ UNCHANGED <<command, clientFd>>
      BY <1>3, <2>2 DEF SetDataFd
    <3>2. QED
      BY <1>lost, <1>1, <1>2, <1>3, <1>written, <2>1, <2>2, <3>1
  <2>3. CASE ~ClientGone
    <3>1. /\ inbound' = rest /\ edge' \subseteq edge \cup {command}
          /\ command' = "none" /\ clientFd' = command /\ running' = running
      BY <1>3, <2>3 DEF SetDataFd
    <3>2. QED
      BY <1>lost, <1>1, <1>2, <1>3, <1>0, <2>1, <2>3, <3>1
  <2>4. QED
    BY <2>2, <2>3
<1>4. CASE inbound["control"] > 0 /\ ForwardCommand(rest)
  <2>1. UNCHANGED <<dataFd, registered, command, clientFd>>
    BY <1>4 DEF ForwardCommand
  <2>2. \/ WriteToClosed("beControl", rest)
        \/ inbound' = rest /\ UNCHANGED <<running, edge>>
    BY <1>4 DEF ForwardCommand
  <2>3. QED
    BY <1>lost, <1>1, <1>2, <1>0, <1>written, <2>1, <2>2
<1>5. CASE Stop /\ inbound' = rest
           /\ UNCHANGED <<dataFd, registered, edge, command, answering>>
           /\ UNCHANGED clientFd
  BY <1>lost, <1>1, <1>2, <1>5, <1>0 DEF Stop
<1>6. QED
  BY <1>3, <1>4, <1>5 DEF HandleControl, rest

\* An event of the control connection.
LEMMA HandleControlKeeps ==
  ASSUME IInv, HandleControl
  PROVE  IInv'
<1>0. /\ inbound'["beData"] = inbound["beData"]
      /\ busy => clientFd' = clientFd /\ inbound'[clientFd] = inbound[clientFd]
  BY HandleControlMoves, Descriptors DEF IInv, DataInv, TypeOK
<1>1. TypeOK'
  BY HandleControlMoves, HandlingTakes, Descriptors
     DEF HandleControl, IInv, TypeOK, LoopInv
<1>2. LoopInv'
  <2>1. EventsInv'
    BY HandleControlMoves, HandlingKeepsEvents, Descriptors
       DEF HandleControl, IInv, LoopInv
  <2>2. QED
    BY <2>1, HandleControlMoves, Descriptors DEF IInv, LoopInv
<1>3. ControlInv'
  BY HandleControlMoves DEF ControlInv
<1>4. DataInv'
  BY HandleControlMoves, Descriptors DEF IInv, DataInv, ClientGone
<1>5. CountInv'
  BY <1>0, HandleControlMoves DEF IInv, CountInv
<1>6. (NothingDropped /\ Conserved)'
  BY <1>0, HandleControlMoves, Descriptors
     DEF IInv, NothingDropped, Conserved, ClientGone, BackendGone
<1>7. QED
  BY <1>1, <1>2, <1>3, <1>4, <1>5, <1>6 DEF IInv

\* What one read moves, when it has somewhere to write to or nothing to write.
LEMMA ForwardMoves ==
  ASSUME TypeOK, NEW side \in {"client", "backend"},
         NEW in \in Fd, NEW out \in Fd \cup {"none"},
         out # in, Forward(side, out, in),
         out = "none" => inbound[in] = 0
  PROVE  /\ Taken(in) \in Nat /\ Taken(in) <= inbound[in]
         /\ Delivered(out, in) \in Nat /\ Delivered(out, in) <= Taken(in)
         /\ inbound' \in [Fd -> Nat]
         /\ inbound'[in] = inbound[in] - Taken(in)
         /\ \A fd \in Fd \ {in, out} : inbound'[fd] = inbound[fd]
         /\ out \in Fd => inbound'[out] <= inbound[out]
         /\ out \in Fd /\ ~gone[out] => /\ Delivered(out, in) = Taken(in)
                                        /\ inbound'[out] = inbound[out]
         /\ \/ lost' = lost
            \/ out \in Fd /\ gone[out] /\ lost' = lost \cup {side}
         /\ running' \in BOOLEAN
         /\ running' => running /\ Taken(in) > 0
         /\ edge' \subseteq edge \cup ({out} \ {"none"})
<1>1. /\ Taken(in) \in Nat /\ Taken(in) <= inbound[in]
      /\ inbound[in] \in Nat
  BY SizeAssumption DEF TypeOK, Taken
<1>2. Delivered(out, in) \in Nat /\ Delivered(out, in) <= Taken(in)
  BY <1>1 DEF Delivered
<1>3. out \in Fd /\ ~gone[out] => Delivered(out, in) = Taken(in)
  BY Descriptors DEF Delivered
<1> DEFINE n == Taken(in)
           rest == [inbound EXCEPT ![in] = @ - n]
<1>4. /\ rest \in [Fd -> Nat]
      /\ rest[in] = inbound[in] - n
      /\ \A fd \in Fd \ {in} : rest[fd] = inbound[fd]
  BY <1>1 DEF TypeOK
<1> HIDE DEF rest
<1>5. CASE n = 0 /\ Stop /\ UNCHANGED <<inbound, edge, lost>>
  <2>1. inbound[in] = inbound[in] - Taken(in)
    BY <1>1, <1>5
  <2>2. /\ inbound' \in [Fd -> Nat] /\ inbound' = inbound /\ edge' = edge
        /\ lost' = lost /\ running' = FALSE
        /\ \A fd \in Fd : inbound[fd] <= inbound[fd]
    BY <1>5 DEF TypeOK, Stop
  <2>3. QED
    BY <1>1, <1>2, <1>3, <2>1, <2>2
<1>6. CASE n > 0 /\ out = "none"
  BY <1>1, <1>6
<1>7. CASE /\ n > 0 /\ out # "none"
           /\ IF gone[out]
              THEN WriteToClosed(out, rest) /\ Lose(side)
              ELSE inbound' = rest /\ UNCHANGED <<running, edge, lost>>
  <2>1. out \in Fd
    BY <1>7
  <2>2. CASE WriteToClosed(out, rest) /\ gone[out] /\ Lose(side)
    <3>1. inbound[out] \in Nat
      BY <2>1 DEF TypeOK
    <3>2. /\ inbound' \in {rest, [rest EXCEPT ![out] = 0]}
          /\ (~running') \/ (running' <=> running)
          /\ edge' \in {edge, edge \cup {out}}
      BY <2>2 DEF WriteToClosed, Stop, TypeOK
    <3>3. /\ inbound' \in [Fd -> Nat]
          /\ inbound'[in] = rest[in] /\ inbound'[out] <= inbound[out]
          /\ \A fd \in Fd \ {in, out} : inbound'[fd] = inbound[fd]
      BY <1>4, <2>1, <3>1, <3>2
    <3>4. /\ running' \in BOOLEAN
          /\ running' => running
          /\ lost' = lost \cup {side}
      <4>1. running' = FALSE \/ running' = running
        BY <2>2, Zenon DEF WriteToClosed, Stop
      <4>2. running \in BOOLEAN
        BY DEF TypeOK
      <4>3. running' \in BOOLEAN
        BY <4>1, <4>2
      <4>4. running' => running
        BY <4>1
      <4>5. QED
        BY <2>2, <4>3, <4>4, Zenon DEF Lose
    <3>5. edge' \subseteq edge \cup ({out} \ {"none"})
      BY <1>7, <3>2
    <3>6. QED
      BY <1>1, <1>2, <1>4, <1>7, <2>1, <2>2, <3>3, <3>4, <3>5
  <2>3. CASE inbound' = rest /\ UNCHANGED <<running, edge, lost>>
    BY <1>1, <1>2, <1>3, <1>4, <1>7, <2>1, <2>3 DEF TypeOK
  <2>4. QED
    BY <1>7, <2>2, <2>3
<1>8. QED
  BY <1>5, <1>6, <1>7 DEF Forward, rest

\* An event of the client's data connection.
LEMMA HandleFrontDataKeeps ==
  ASSUME IInv, HandleFrontData
  PROVE  IInv'
<1> DEFINE n == Delivered("beData", dataFd)
<1>1. /\ UNCHANGED <<registered, gone, connFd, dataFd, clients, command,
                     answering, commands, clientFd, packets, busy, toSend,
                     atClient, clean>>
      /\ atBackend' = atBackend + n
      /\ toAnswer' = IF n > 0 /\ atBackend' = PacketSize
                     THEN PacketSize ELSE toAnswer
  BY DEF HandleFrontData, ctx, controlExchange
<1>2. /\ dataFd \in DataFds /\ dataFd \in Fd
      /\ dataFd # "beData" /\ dataFd \in registered
  BY Descriptors DEF HandleFrontData, IInv, TypeOK, LoopInv
<1>3. /\ Taken(dataFd) \in Nat /\ Taken(dataFd) <= inbound[dataFd]
      /\ n \in Nat /\ n <= Taken(dataFd)
      /\ inbound' \in [Fd -> Nat]
      /\ inbound'[dataFd] = inbound[dataFd] - Taken(dataFd)
      /\ \A fd \in Fd \ {dataFd, "beData"} : inbound'[fd] = inbound[fd]
      /\ inbound'["beData"] <= inbound["beData"]
      /\ ~gone["beData"] => /\ n = Taken(dataFd)
                             /\ inbound'["beData"] = inbound["beData"]
      /\ \/ lost' = lost
         \/ gone["beData"] /\ lost' = lost \cup {"backend"}
      /\ running' \in BOOLEAN /\ (running' => running /\ Taken(dataFd) > 0)
      /\ edge' \subseteq edge \cup {"beData"}
  <2>1. Forward("backend", "beData", dataFd)
    BY DEF HandleFrontData
  <2>2. TypeOK
    BY DEF IInv
  <2>3. QED
    BY <1>2, <2>1, <2>2, Descriptors, ForwardMoves
<1> HIDE DEF n
\* What can be read on the connection written to belongs to a packet begun.
<1>4. n > 0 => busy /\ dataFd = clientFd
  BY <1>2, <1>3 DEF IInv, DataInv, TypeOK
<1>0. \A fd \in Fd : /\ inbound'[fd] \in Nat /\ inbound[fd] \in Nat
                     /\ inbound'[fd] <= inbound[fd]
  <2>1. inbound \in [Fd -> Nat] /\ inbound' \in [Fd -> Nat]
    BY <1>3 DEF IInv, TypeOK
  <2>2. \A fd \in Fd : inbound'[fd] \in Nat /\ inbound[fd] \in Nat
    BY <2>1
  <2>3. inbound'[dataFd] <= inbound[dataFd]
    BY <1>2, <1>3, <2>2
  <2>4. QED
    BY <1>3, <2>2, <2>3
<1>5. /\ {toSend, atBackend, toAnswer, atClient, inbound["beData"],
          inbound'["beData"], inbound[dataFd], inbound'[dataFd]} \subseteq Nat
      /\ busy => clientFd \in Fd /\ clientFd # "beData"
      /\ busy => inbound[clientFd] \in Nat /\ inbound'[clientFd] \in Nat
      /\ busy /\ clientFd # dataFd => inbound'[clientFd] = inbound[clientFd]
  <2>1. busy => clientFd \in Fd /\ clientFd # "beData"
    BY Counts, Descriptors
  <2>2. {toSend, atBackend, toAnswer, atClient} \subseteq Nat
    BY Counts
  <2>3. busy /\ clientFd # dataFd => inbound'[clientFd] = inbound[clientFd]
    BY <1>3, <2>1
  <2>4. QED
    BY <1>0, <1>2, <2>1, <2>2, <2>3, Descriptors
<1>6. /\ ~busy => atBackend' = 0 /\ toAnswer' = 0 /\ inbound'["beData"] = 0
      /\ busy => /\ toSend + inbound'[clientFd] + atBackend' <= PacketSize
                 /\ toAnswer' + inbound'["beData"] + atClient <= PacketSize
                 /\ atBackend' # PacketSize =>
                      toAnswer' + inbound'["beData"] + atClient = 0
  <2>1. CASE n = 0
    <3>1. atBackend' = atBackend /\ toAnswer' = toAnswer
      BY <1>1, <1>5, <2>1
    <3>2. /\ inbound'["beData"] <= inbound["beData"]
          /\ busy => inbound'[clientFd] <= inbound[clientFd]
      BY <1>5, <1>0, Descriptors
    <3>3. CASE busy
      <4>1. inbound'[clientFd] \in Nat /\ inbound'["beData"] \in Nat
        BY <1>5, <3>3
      <4>2. /\ toSend + inbound[clientFd] + atBackend <= PacketSize
            /\ toAnswer + inbound["beData"] + atClient <= PacketSize
            /\ atBackend # PacketSize =>
                 toAnswer + inbound["beData"] + atClient = 0
        BY <3>3 DEF IInv, CountInv
      <4>3. QED
        BY <3>1, <3>2, <3>3, <4>1, <4>2, Counts
    <3>4. CASE ~busy
      BY <1>5, <3>1, <3>2, <3>4 DEF IInv, CountInv
    <3>5. QED
      BY <3>3, <3>4
  <2>2. CASE n > 0
    <3>1. busy /\ dataFd = clientFd /\ atBackend # PacketSize
      BY <1>3, <1>4, <1>5, <2>2, SizeAssumption DEF IInv, CountInv
    <3>2. toAnswer = 0 /\ inbound["beData"] = 0 /\ atClient = 0
      BY <1>5, <3>1 DEF IInv, CountInv
    <3>3. QED
      BY <1>1, <1>3, <1>5, <2>2, <3>1, <3>2, SizeAssumption DEF IInv, CountInv
  <2>3. QED
    BY <1>3, <2>1, <2>2
<1>7. TypeOK'
  <2>1. /\ atBackend' \in 0 .. PacketSize /\ toAnswer' \in 0 .. PacketSize
        /\ toSend' \in 0 .. PacketSize /\ atClient' \in 0 .. PacketSize
    <3>1. {toSend, atBackend, toAnswer, atClient} \subseteq 0 .. PacketSize
      BY DEF IInv, TypeOK
    <3>2. QED
      BY <1>1, <1>3, <1>5, <1>6, <3>1, Counts
  <2>2. events' \subseteq Fd
    BY HandlingTakes DEF HandleFrontData, IInv
  <2>3. edge' \subseteq Fd
    BY <1>3, Descriptors DEF IInv, TypeOK
  <2>4. QED
    BY <1>1, <1>3, <2>1, <2>2, <2>3 DEF IInv, TypeOK
<1>8. LoopInv'
  <2>1. EventsInv'
    BY <1>1, <1>2, <1>3, HandlingKeepsEvents, Descriptors
       DEF HandleFrontData, IInv, LoopInv
  <2>2. QED
    BY <1>1, <1>3, <2>1 DEF IInv, LoopInv
<1>9. ControlInv'
  BY <1>1, <1>2, <1>3, Descriptors DEF IInv, ControlInv
<1>10. DataInv'
  <2>1. \A fd \in DataFds : inbound'[fd] > 0 => inbound[fd] > 0
    BY <1>0, Descriptors
  <2>2. QED
    BY <1>1, <2>1 DEF IInv, DataInv, ClientGone
<1>11. CountInv'
  BY <1>1, <1>6 DEF IInv, CountInv
<1>12. NothingDropped'
  BY <1>1, <1>3 DEF IInv, NothingDropped, ClientGone, BackendGone
<1>13. Conserved'
  <2> SUFFICES ASSUME running', ~gone["control"], ~gone["beData"], busy
               PROVE  /\ toSend + inbound'[clientFd] + atBackend' = PacketSize
                      /\ toAnswer' + inbound'["beData"] + atClient =
                           IF atBackend' = PacketSize THEN PacketSize ELSE 0
    BY <1>1 DEF Conserved, ClientGone, BackendGone
  <2>1. running /\ n > 0 /\ n = Taken(dataFd) /\ dataFd = clientFd
    BY <1>3, <1>4
  <2>2. /\ toSend + inbound[clientFd] + atBackend = PacketSize
        /\ toAnswer + inbound["beData"] + atClient =
             IF atBackend = PacketSize THEN PacketSize ELSE 0
    BY <2>1 DEF IInv, Conserved, ClientGone, BackendGone
  <2>3. atBackend # PacketSize
    BY <1>3, <1>5, <2>1, <2>2, SizeAssumption
  <2>4. toAnswer = 0 /\ inbound["beData"] = 0 /\ atClient = 0
    BY <1>5, <2>2, <2>3
  <2>5. /\ inbound'[clientFd] = inbound[clientFd] - n
        /\ inbound'["beData"] = 0
    BY <1>3, <2>1, <2>4
  <2>6. QED
    BY <1>1, <1>3, <1>5, <2>1, <2>2, <2>4, <2>5, SizeAssumption
<1>14. QED
  BY <1>7, <1>8, <1>9, <1>10, <1>11, <1>12, <1>13 DEF IInv

\* An event of the back end's control connection.
LEMMA HandleBackControlKeeps ==
  ASSUME IInv, HandleBackControl
  PROVE  IInv'
<1>1. /\ UNCHANGED <<registered, gone, connFd, dataFd, clients, commands,
                     clientFd, packets, busy, toSend, atBackend, toAnswer,
                     atClient, clean>>
      /\ \/ UNCHANGED <<command, answering>>
         \/ command' = "none" /\ answering' = FALSE
  BY DEF HandleBackControl, ctx, dataExchange
<1>2. /\ inbound' \in [Fd -> Nat]
      /\ \A fd \in Fd \ {"beControl", "control"} : inbound'[fd] = inbound[fd]
      /\ inbound'["beControl"] <= inbound["beControl"]
      /\ connFd = "none" =>
           inbound' = inbound /\ UNCHANGED <<command, answering>>
      /\ \/ lost' = lost
         \/ gone["control"] /\ lost' = lost \cup {"client"}
      /\ running' \in BOOLEAN /\ (running' => running)
      /\ edge' \subseteq edge \cup registered
  <2>1. Forward("client", connFd, "beControl") /\ TypeOK
    BY DEF HandleBackControl, ControlOut, IInv
  <2>2. connFd \in {"none", "control"} /\ connFd # "beControl"
    BY DEF IInv, TypeOK
  <2>3. connFd = "none" => inbound["beControl"] = 0
    BY DEF IInv, ControlInv
  <2>4. inbound["beControl"] \in Nat /\ inbound \in [Fd -> Nat]
    BY Descriptors DEF IInv, TypeOK
  <2>5. /\ Taken("beControl") \in Nat
        /\ Taken("beControl") <= inbound["beControl"]
        /\ inbound' \in [Fd -> Nat]
        /\ inbound'["beControl"] = inbound["beControl"] - Taken("beControl")
        /\ \A fd \in Fd \ {"beControl", connFd} : inbound'[fd] = inbound[fd]
        /\ \/ lost' = lost
           \/ connFd \in Fd /\ gone[connFd] /\ lost' = lost \cup {"client"}
        /\ running' \in BOOLEAN /\ (running' => running)
        /\ edge' \subseteq edge \cup ({connFd} \ {"none"})
    BY <2>1, <2>2, <2>3, Descriptors, ForwardMoves
  <2>6. connFd = "none" =>
          inbound' = inbound /\ UNCHANGED <<command, answering>>
    <3> SUFFICES ASSUME connFd = "none"
                 PROVE  inbound' = inbound /\ UNCHANGED <<command, answering>>
      OBVIOUS
    <3>1. \A fd \in Fd : inbound'[fd] = inbound[fd]
      BY <2>3, <2>4, <2>5, Descriptors
    <3>2. inbound' = inbound
      BY <2>4, <2>5, <3>1
    <3>3. Delivered(connFd, "beControl") = 0
      BY DEF Delivered
    <3>4. QED
      BY <3>2, <3>3 DEF HandleBackControl, ControlOut
  <2>7. {connFd} \ {"none"} \subseteq registered
    BY <2>2 DEF IInv, LoopInv
  <2>8. QED
    BY <2>2, <2>4, <2>5, <2>6, <2>7, Descriptors
<1>3. TypeOK'
  BY <1>1, <1>2, HandlingTakes DEF HandleBackControl, IInv, TypeOK
<1>4. LoopInv'
  <2>1. EventsInv'
    BY <1>1, <1>2, HandlingKeepsEvents, Descriptors
       DEF HandleBackControl, IInv, LoopInv
  <2>2. QED
    BY <1>1, <1>2, <2>1 DEF IInv, LoopInv
<1>5. ControlInv'
  BY <1>1, <1>2 DEF IInv, ControlInv
<1>6. DataInv'
  BY <1>1, <1>2, Descriptors DEF IInv, DataInv, ClientGone
<1>7. CountInv'
  BY <1>1, <1>2, Descriptors DEF IInv, CountInv, DataInv, TypeOK
<1>8. (NothingDropped /\ Conserved)'
  BY <1>1, <1>2, Descriptors
     DEF IInv, TypeOK, DataInv, NothingDropped, Conserved,
         ClientGone, BackendGone
<1>9. QED
  BY <1>3, <1>4, <1>5, <1>6, <1>7, <1>8 DEF IInv

\* An event of the back end's data connection.
LEMMA HandleBackDataKeeps ==
  ASSUME IInv, HandleBackData
  PROVE  IInv'
<1> DEFINE n == IF dataFd = clientFd THEN Delivered(dataFd, "beData") ELSE 0
<1>1. /\ UNCHANGED <<registered, gone, connFd, dataFd, clients, command,
                     answering, commands, clientFd, packets, toSend, toAnswer,
                     clean>>
      /\ IF atClient + n = PacketSize
         THEN busy' = FALSE /\ atClient' = 0 /\ atBackend' = 0
         ELSE atClient' = atClient + n /\ UNCHANGED <<busy, atBackend>>
  BY DEF HandleBackData, ctx, controlExchange
<1>2. dataFd = "none" => ~busy /\ inbound["beData"] = 0
  BY Descriptors DEF IInv, DataInv, CountInv
<1>3. /\ dataFd \in Fd \cup {"none"} /\ dataFd # "beData"
      /\ dataFd # "none" => dataFd \in DataFds /\ dataFd \in registered
  BY Descriptors DEF IInv, TypeOK, LoopInv
<1>4. /\ Taken("beData") \in Nat /\ Taken("beData") <= inbound["beData"]
      /\ n \in Nat /\ n <= Taken("beData")
      /\ inbound' \in [Fd -> Nat]
      /\ inbound'["beData"] = inbound["beData"] - Taken("beData")
      /\ \A fd \in Fd \ {dataFd, "beData"} : inbound'[fd] = inbound[fd]
      /\ dataFd \in Fd => inbound'[dataFd] <= inbound[dataFd]
      /\ dataFd \in Fd /\ ~gone[dataFd] => inbound'[dataFd] = inbound[dataFd]
      /\ dataFd \in Fd /\ ~gone[dataFd] /\ dataFd = clientFd =>
           n = Taken("beData")
      /\ \/ lost' = lost
         \/ dataFd \in Fd /\ gone[dataFd] /\ lost' = lost \cup {"client"}
      /\ running' \in BOOLEAN /\ (running' => running)
      /\ edge' \subseteq edge \cup registered
  <2>1. Forward("client", dataFd, "beData") /\ TypeOK
    BY DEF HandleBackData, IInv
  <2>2. /\ Taken("beData") \in Nat /\ Taken("beData") <= inbound["beData"]
        /\ Delivered(dataFd, "beData") \in Nat
        /\ Delivered(dataFd, "beData") <= Taken("beData")
        /\ inbound' \in [Fd -> Nat]
        /\ inbound'["beData"] = inbound["beData"] - Taken("beData")
        /\ \A fd \in Fd \ {"beData", dataFd} : inbound'[fd] = inbound[fd]
        /\ dataFd \in Fd => inbound'[dataFd] <= inbound[dataFd]
        /\ dataFd \in Fd /\ ~gone[dataFd] =>
             /\ Delivered(dataFd, "beData") = Taken("beData")
             /\ inbound'[dataFd] = inbound[dataFd]
        /\ \/ lost' = lost
           \/ dataFd \in Fd /\ gone[dataFd] /\ lost' = lost \cup {"client"}
        /\ running' \in BOOLEAN /\ (running' => running)
        /\ edge' \subseteq edge \cup ({dataFd} \ {"none"})
    BY <2>1, <1>2, <1>3, Descriptors, ForwardMoves
  <2>3. {dataFd} \ {"none"} \subseteq registered
    BY <1>3
  <2>4. QED
    BY <2>2, <2>3
<1> HIDE DEF n
<1>5. \A fd \in Fd : /\ inbound'[fd] \in Nat /\ inbound[fd] \in Nat
                     /\ inbound'[fd] <= inbound[fd]
  <2>1. inbound \in [Fd -> Nat] /\ inbound' \in [Fd -> Nat]
    BY <1>4 DEF IInv, TypeOK
  <2>2. \A fd \in Fd : inbound'[fd] \in Nat /\ inbound[fd] \in Nat
    BY <2>1
  <2>3. QED
    BY <1>3, <1>4, <2>2
<1>6. /\ n <= inbound["beData"]
      /\ inbound'["beData"] <= inbound["beData"] - n
      /\ inbound'["beData"] \in Nat
  BY <1>4, <1>5, Counts, Descriptors
<1>7. /\ atClient + n <= PacketSize
      /\ n > 0 => busy
      /\ ~busy => UNCHANGED <<busy, atBackend, atClient>>
  <2>1. CASE busy
    <3>1. atClient + n <= PacketSize
      BY <1>4, <1>6, <2>1, Counts DEF IInv, CountInv
    <3>2. QED
      BY <2>1, <3>1
  <2>2. CASE ~busy
    <3>1. n = 0 /\ atClient = 0 /\ atBackend = 0
      BY <1>4, <1>6, <2>2 DEF IInv, CountInv
    <3>2. atClient + n # PacketSize
      BY <3>1, Counts
    <3>3. QED
      BY <1>1, <2>2, <3>1, <3>2, Counts
  <2>3. QED
    BY <2>1, <2>2
\* The last byte of the response leaves nothing behind.
<1>8. atClient + n = PacketSize =>
        /\ busy /\ toSend = 0 /\ toAnswer = 0
        /\ inbound'["beData"] = 0
        /\ \A fd \in DataFds : inbound'[fd] = 0
  <2> SUFFICES ASSUME atClient + n = PacketSize
               PROVE  /\ busy /\ toSend = 0 /\ toAnswer = 0
                      /\ inbound'["beData"] = 0
                      /\ \A fd \in DataFds : inbound'[fd] = 0
    OBVIOUS
  <2>1. busy
    <3> SUFFICES ASSUME ~busy PROVE FALSE
      OBVIOUS
    <3>1. atClient = 0 /\ n = 0
      BY <1>4, <1>7, Counts DEF IInv, CountInv
    <3>2. QED
      BY <3>1, Counts
  <2>2. n > 0
    BY <1>4, <1>7, <2>1, Counts DEF IInv, CountInv
  <2>3. atBackend = PacketSize
    BY <1>4, <1>6, <2>1, <2>2, Counts DEF IInv, CountInv
  <2>4. toSend = 0 /\ inbound[clientFd] = 0
    BY <2>1, <2>3, Counts DEF IInv, CountInv
  <2>5. toAnswer = 0 /\ inbound'["beData"] = 0
    BY <1>4, <1>6, <2>1, Counts DEF IInv, CountInv
  <2>6. \A fd \in DataFds : inbound[fd] = 0
    BY <1>5, <2>4, Descriptors DEF IInv, DataInv
  <2>7. \A fd \in DataFds : inbound'[fd] = 0
    BY <1>5, <2>6, Descriptors
  <2>8. QED
    BY <2>1, <2>4, <2>5, <2>7
<1>9. TypeOK'
  <2>1. /\ atBackend' \in 0 .. PacketSize /\ toAnswer' \in 0 .. PacketSize
        /\ toSend' \in 0 .. PacketSize /\ atClient' \in 0 .. PacketSize
    <3>1. {toSend, atBackend, toAnswer, atClient} \subseteq 0 .. PacketSize
      BY DEF IInv, TypeOK
    <3>2. QED
      BY <1>1, <1>4, <1>6, <1>7, <3>1, Counts
  <2>2. events' \subseteq Fd
    BY HandlingTakes DEF HandleBackData, IInv
  <2>3. edge' \subseteq Fd
    BY <1>4, Descriptors DEF IInv, TypeOK
  <2>4. busy' \in BOOLEAN
    BY <1>1 DEF IInv, TypeOK
  <2>5. QED
    BY <1>1, <1>4, <2>1, <2>2, <2>3, <2>4 DEF IInv, TypeOK
<1>10. LoopInv'
  <2>1. EventsInv'
    BY <1>1, <1>3, <1>4, HandlingKeepsEvents, Descriptors
       DEF HandleBackData, IInv, LoopInv
  <2>2. QED
    BY <1>1, <1>4, <2>1 DEF IInv, LoopInv
<1>11. ControlInv'
  BY <1>1, <1>3, <1>4, Descriptors DEF IInv, ControlInv
<1>12. DataInv'
  <2>1. \A fd \in DataFds : inbound'[fd] > 0 => inbound[fd] > 0
    BY <1>5, Descriptors
  <2>2. busy' => busy
    BY <1>1
  <2>3. \A fd \in DataFds : inbound'[fd] > 0 => busy'
    <3>1. CASE atClient + n = PacketSize
      BY <1>8, <3>1
    <3>2. CASE atClient + n # PacketSize
      BY <1>1, <2>1, <3>2 DEF IInv, DataInv
    <3>3. QED
      BY <3>1, <3>2
  <2>4. QED
    BY <1>1, <2>1, <2>2, <2>3 DEF IInv, DataInv, ClientGone
<1>13. CountInv'
  <2>1. CASE atClient + n = PacketSize
    BY <1>1, <1>8, <2>1 DEF CountInv
  <2>2. CASE atClient + n # PacketSize /\ ~busy
    <3>1. inbound'["beData"] = 0
      BY <1>5, <2>2, Descriptors DEF IInv, CountInv
    <3>2. QED
      BY <1>1, <1>7, <2>2, <3>1 DEF IInv, CountInv
  <2>3. CASE atClient + n # PacketSize /\ busy
    <3>1. /\ inbound'[clientFd] \in Nat /\ inbound[clientFd] \in Nat
          /\ inbound'[clientFd] <= inbound[clientFd]
          /\ inbound'["beData"] \in Nat /\ inbound["beData"] \in Nat
      BY <1>5, <2>3, Counts, Descriptors
    <3>2. /\ toSend + inbound[clientFd] + atBackend <= PacketSize
          /\ toAnswer + inbound["beData"] + atClient <= PacketSize
          /\ atBackend # PacketSize =>
               toAnswer + inbound["beData"] + atClient = 0
      BY <2>3 DEF IInv, CountInv
    <3>3. /\ busy' /\ atBackend' = atBackend /\ atClient' = atClient + n
          /\ n \in Nat /\ inbound'["beData"] <= inbound["beData"] - n
      BY <1>1, <1>4, <1>6, <2>3
    <3>4. /\ toSend + inbound'[clientFd] + atBackend' <= PacketSize
          /\ toAnswer + inbound'["beData"] + atClient' <= PacketSize
          /\ atBackend' # PacketSize =>
               toAnswer + inbound'["beData"] + atClient' = 0
      <4>1. toSend + inbound'[clientFd] + atBackend' <= PacketSize
        BY <2>3, <3>1, <3>2, <3>3, Counts
      <4>2. toAnswer + inbound'["beData"] + (atClient + n)
              <= toAnswer + inbound["beData"] + atClient
        BY <2>3, <3>1, <3>3, Counts
      <4>3. toAnswer + inbound'["beData"] + (atClient + n) >= 0
        BY <2>3, <3>1, <3>3, Counts
      <4>4. toAnswer + inbound'["beData"] + (atClient + n) \in Int
        BY <2>3, <3>1, <3>3, Counts
      <4>5. atClient' = atClient + n /\ atBackend' = atBackend
        BY <3>3
      <4> HIDE DEF n
      <4>6. toAnswer + inbound'["beData"] + atClient' <= PacketSize
        BY <3>1, <3>2, <4>2, <4>4, <4>5, Counts
      <4>7. atBackend' # PacketSize =>
               toAnswer + inbound'["beData"] + atClient' = 0
        BY <3>1, <3>2, <4>2, <4>3, <4>4, <4>5, Counts
      <4>8. QED
        BY <4>1, <4>6, <4>7
    <3>5. QED
      BY <1>1, <2>3, <3>3, <3>4 DEF CountInv
  <2>4. QED
    BY <2>1, <2>2, <2>3
<1>14. NothingDropped'
  <2>1. dataFd \in Fd /\ gone[dataFd] => gone["control"]
    BY Descriptors DEF IInv, DataInv, ClientGone
  <2>2. QED
    BY <1>1, <1>4, <2>1 DEF IInv, NothingDropped, ClientGone, BackendGone
<1>15. Conserved'
  <2> SUFFICES ASSUME running', ~gone["control"], ~gone["beData"], busy'
               PROVE  /\ toSend + inbound'[clientFd] + atBackend' = PacketSize
                      /\ toAnswer + inbound'["beData"] + atClient' =
                           IF atBackend' = PacketSize THEN PacketSize ELSE 0
    BY <1>1 DEF Conserved, ClientGone, BackendGone
  <2>1. /\ running /\ busy /\ atBackend' = atBackend /\ atClient' = atClient + n
    BY <1>1, <1>4
  <2>2. dataFd = clientFd /\ clientFd \in Fd /\ ~gone[clientFd]
    <3>1. clientFd \in DataFds /\ clientFd \in Fd /\ clientFd # "none"
      BY <2>1, Counts, Descriptors
    <3>2. QED
      BY <3>1 DEF IInv, DataInv, ClientGone
  <2>3. /\ toSend + inbound[clientFd] + atBackend = PacketSize
        /\ toAnswer + inbound["beData"] + atClient =
             IF atBackend = PacketSize THEN PacketSize ELSE 0
    BY <2>1 DEF IInv, Conserved, ClientGone, BackendGone
  <2>4. /\ inbound'[clientFd] = inbound[clientFd]
        /\ inbound'["beData"] = inbound["beData"] - n
        /\ inbound["beData"] \in Nat
    BY <1>4, <1>5, <2>2, Descriptors
  <2>5. QED
    BY <1>4, <1>6, <2>1, <2>3, <2>4, Counts
<1>16. QED
  BY <1>9, <1>10, <1>11, <1>12, <1>13, <1>14, <1>15 DEF IInv

\* An event of a connection that has been replaced.
LEMMA HandleUnknownKeeps ==
  ASSUME IInv, NEW fd, HandleUnknown(fd)
  PROVE  IInv'
<1>1. UNCHANGED <<running, registered, edge, inbound, gone, connFd, dataFd,
                 clients, command, answering, commands, clientFd, packets,
                 busy, toSend, atBackend, toAnswer, atClient, lost, clean>>
  BY DEF HandleUnknown, ctx, controlExchange, dataExchange,
         history
<1>2. events' \subseteq Fd /\ EventsInv'
  BY <1>1, HandlingTakes, HandlingKeepsEvents DEF HandleUnknown, IInv, LoopInv
<1>3. TypeOK' /\ LoopInv'
  BY <1>1, <1>2 DEF IInv, TypeOK, LoopInv
<1>4. ControlInv' /\ DataInv' /\ CountInv'
  BY <1>1 DEF IInv, ControlInv, DataInv, CountInv, ClientGone
<1>5. NothingDropped' /\ Conserved'
  BY <1>1 DEF IInv, NothingDropped, Conserved, ClientGone, BackendGone
<1>6. QED
  BY <1>3, <1>4, <1>5 DEF IInv

-----------------------------------------------------------------------------

\* The invariant holds at first, and every step preserves it.
LEMMA Inductive == SafeSpec => []IInv
<1>1. Init => IInv
  <2> SUFFICES ASSUME Init PROVE IInv
    OBVIOUS
  <2>1. TypeOK
    <3>1. {toSend, atBackend, toAnswer, atClient} \subseteq 0 .. PacketSize
      BY SizeAssumption DEF Init
    <3>2. events \subseteq Fd /\ {"server", "beControl", "beData"} \subseteq Fd
      BY Descriptors DEF Init
    <3>3. QED
      BY <3>1, <3>2 DEF Init, TypeOK
  <2>2. LoopInv
    BY Descriptors DEF Init, LoopInv, EventsInv
  <2>3. ControlInv /\ DataInv
    BY Descriptors DEF Init, ControlInv, DataInv, ClientGone
  <2>4. CountInv /\ NothingDropped /\ Conserved
    BY Descriptors DEF Init, CountInv, NothingDropped, Conserved
  <2>5. QED
    BY <2>1, <2>2, <2>3, <2>4 DEF IInv
<1>2. IInv /\ [Next]_vars => IInv'
  <2> SUFFICES ASSUME IInv, [Next]_vars PROVE IInv'
    OBVIOUS
  <2>1. CASE ClientConnects
    BY <2>1, ConnectsKeeps
  <2>2. CASE \E c \in {"other"} \cup DataFds : ClientCommands(c)
    BY <2>2, CommandsKeeps
  <2>3. CASE ClientBegins
    BY <2>3, BeginsKeeps
  <2>4. CASE \E n \in 1 .. toSend : ClientSends(n)
    BY <2>4, SendsKeeps
  <2>5. CASE \E fd \in DataFds : ClientClosesOld(fd)
    BY <2>5, ClosesKeeps
  <2>6. CASE ClientLeaves
    BY <2>6, LeavesKeeps
  <2>7. CASE BackendCommanded
    BY <2>7, CommandedKeeps
  <2>8. CASE \E n \in 1 .. toAnswer : BackendSends(n)
    BY <2>8, AnswersKeeps
  <2>9. CASE BackendLeaves
    BY <2>9, GoesKeeps
  <2>10. CASE EpollWait
    BY <2>10, EpollWaitKeeps
  <2>11. CASE Handle
    BY <2>11, HandleServerKeeps, HandleControlKeeps, HandleFrontDataKeeps,
       HandleBackControlKeeps, HandleBackDataKeeps, HandleUnknownKeeps
     DEF Handle
  <2>12. CASE UNCHANGED vars
    <3>1. UNCHANGED <<running, registered, edge, events, inbound, gone, connFd,
                      dataFd, clients, command, answering, commands, clientFd,
                      packets, busy, toSend, atBackend, toAnswer, atClient,
                      lost, clean>>
      BY <2>12 DEF vars, loop, ctx, controlExchange, dataExchange,
         history
    <3>2. TypeOK' /\ LoopInv'
      BY <3>1 DEF IInv, TypeOK, LoopInv, EventsInv
    <3>3. ControlInv' /\ DataInv' /\ CountInv'
      BY <3>1 DEF IInv, ControlInv, DataInv, CountInv, ClientGone
    <3>4. NothingDropped' /\ Conserved'
      BY <3>1 DEF IInv, NothingDropped, Conserved, ClientGone, BackendGone
    <3>5. QED
      BY <3>2, <3>3, <3>4 DEF IInv
  <2>13. QED
    BY <2>1, <2>2, <2>3, <2>4, <2>5, <2>6, <2>7, <2>8, <2>9, <2>10, <2>11,
       <2>12 DEF Next
<1>3. QED
  BY <1>1, <1>2, PTL DEF SafeSpec

\* The variables keep their types; the counts of a packet's bytes stay within
\* its size, whoever leaves and whenever (main.cc:164-178, 285-405).
THEOREM ProcessTypeCorrect == SafeSpec => []TypeOK
<1>1. IInv => TypeOK
  BY DEF IInv
<1>2. QED
  BY <1>1, Inductive, PTL

(***************************************************************************)
(* What was read for a side that has not left gets there: when the back    *)
(* end has something to say, the connection it goes to is known and, until *)
(* the client leaves, open (main.cc:171-177, 258-261, 370-402).            *)
(***************************************************************************)
THEOREM NothingIsDropped == SafeSpec => []NothingDropped
<1>1. IInv => NothingDropped
  BY DEF IInv
<1>2. QED
  BY <1>1, Inductive, PTL

(***************************************************************************)
(* No byte of a command or of its response is lost or doubled as long as   *)
(* both peers are there, whatever the sizes of packets and reads and       *)
(* however often the data connection is replaced (main.cc:164-178, 244).   *)
(***************************************************************************)
THEOREM BytesConserved == SafeSpec => []Conserved
<1>1. IInv => Conserved
  BY DEF IInv
<1>2. QED
  BY <1>1, Inductive, PTL

=============================================================================
