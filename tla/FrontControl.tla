---------------------------- MODULE FrontControl ----------------------------
(***************************************************************************)
(* handleFrontControlChannel of native/src/main.cc composed with the       *)
(* receiver it calls: what a call returns goes to the back end as it is,   *)
(* unless its code is CMD_SET_DATAFD; a call that fails ends the process.  *)
(* SwtpmProxyProcess counts commands; this is what it counts.              *)
(*                                                                         *)
(* The data connection comes with the first byte of CMD_SET_DATAFD: that   *)
(* cell, with the descriptor attached to it, has a value of its own.       *)
(***************************************************************************)
EXTENDS ControlChannel

CONSTANTS
  SetDataFd,   \* CMD_SET_DATAFD
  Attached     \* the first cell of that command

IsSetDataFd(m) == m[1] = Attached

ASSUME SetDataFdAssumption ==
  /\ SetDataFd \notin Fixed \cup Counted
  /\ \A m \in Commands :
       /\ m[CodeLen] = SetDataFd <=> IsSetDataFd(m)
       /\ IsSetDataFd(m) => Len(m) = CodeLen
       /\ \A i \in 2 .. Len(m) : m[i] # Attached

VARIABLES
  running,     \* the loop of the process runs
  backGone,    \* the back end has closed its connection
  forwarded,   \* history: the cells that came to the back end
  sets         \* how often fe_data_fd has been set

front == <<running, backGone, forwarded, sets>>
frontVars == <<vars, front>>

FrontInit ==
  /\ Init
  /\ running = TRUE
  /\ backGone = FALSE
  /\ forwarded = << >>
  /\ sets = 0

\* Mutant of Forwarded: the whole of the buffer is written.
ForwardedBuffer(bytes) == bytes \o [i \in 1 .. BufferLen - Len(bytes) |-> 0]

Forwarded(bytes) == bytes

\* CMD_SET_DATAFD: the descriptor is kept; then watching it or answering the
\* client may fail, and so does the handler.  Without one it fails at once.
HandleSetDataFd(bytes) ==
  /\ IF IsSetDataFd(bytes)
     THEN sets' = sets + 1 /\ running' \in BOOLEAN
     ELSE running' = FALSE /\ UNCHANGED sets
  /\ UNCHANGED <<backGone, forwarded>>

\* Another command is written to the back end.  When that has gone, the write
\* goes nowhere, which nobody looks at, or SIGPIPE ends the process.
ForwardCommand(bytes) ==
  /\ IF backGone
     THEN running' \in BOOLEAN /\ UNCHANGED forwarded
     ELSE forwarded' = forwarded \o Forwarded(bytes) /\ UNCHANGED running
  /\ UNCHANGED <<backGone, sets>>

(***************************************************************************)
(* What the handler does with the bytes received: recvmsg has brought the  *)
(* descriptor if its cell is there.  The buffer was zero, so less than a   *)
(* code is no code.                                                        *)
(***************************************************************************)
HandleCommand(bytes) ==
  IF Len(bytes) >= CodeLen /\ bytes[CodeLen] = SetDataFd
  THEN HandleSetDataFd(bytes)
  ELSE ForwardCommand(bytes)

\* The steps of a call; the one that returns is also the handler's.
Receive ==
  /\ running
  /\ \/ Call /\ UNCHANGED front
     \/ /\ Read \/ PollReady
        /\ IF results' = results
           THEN UNCHANGED front
           ELSE HandleCommand(Last(results').bytes)
     \/ /\ ReadEnd \/ PollTimesOut
        /\ running' = FALSE
        /\ UNCHANGED <<backGone, forwarded, sets>>

\* All that the client has sent has been dealt with.
Quiet == unsent = << >> /\ wire = << >> /\ phase = "idle"

\* How many CMD_SET_DATAFDs the client has begun.
SetsSent == Cardinality({i \in DOMAIN sent : IsSetDataFd(sent[i])})

\* The client begins a command when it has had the answer to the last one:
\* of the process to CMD_SET_DATAFD, of the back end to another.
Client ==
  /\ \/ /\ Quiet
        /\ sets = SetsSent
        /\ \E m \in Commands : ClientBegins(m)
     \/ \E n \in 1 .. Len(unsent) : ClientSends(n)
     \/ ClientCloses
  /\ UNCHANGED front

BackEndLeaves ==
  /\ ~backGone
  /\ backGone' = TRUE
  /\ UNCHANGED <<vars, running, forwarded, sets>>

FrontNext ==
  \/ Client
  \/ BackEndLeaves
  \/ Receive
  \/ DeadlinePasses /\ UNCHANGED front

FrontSafeSpec == FrontInit /\ [][FrontNext]_frontVars

FrontSpec == FrontSafeSpec /\ WF_frontVars(Receive)

-----------------------------------------------------------------------------

(***************************************************************************)
(* The back end, as long as it is there, sees the client's stream without  *)
(* its CMD_SET_DATAFDs, however late or long commands are and however they *)
(* are cut into pieces: a piece is forwarded and not lost, and what        *)
(* follows it, taken for a command, goes the same way or ends the process. *)
(* The exception is a CMD_SET_DATAFD that was itself cut off               *)
(* (main.cc:216-262, swtpm_protocol.cc:74, 154-155).                       *)
(***************************************************************************)
BackEndSeesClient ==
  LET others == [i \in 1 .. Len(sent) |->
                   IF IsSetDataFd(sent[i]) THEN << >> ELSE sent[i]]
      stream == FlattenSeq(others)
  IN  \/ \E i \in 1 .. Len(results) : results[i].bytes = <<Attached>>
      \/ /\ IsPrefix(forwarded, stream)
         /\ Quiet /\ running /\ ~backGone =>
              forwarded = stream /\ sets = SetsSent

=============================================================================
