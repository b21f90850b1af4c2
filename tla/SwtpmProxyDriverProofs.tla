----------------------- MODULE SwtpmProxyDriverProofs -----------------------
(***************************************************************************)
(* Proofs about the downstream driver: its types, its 'close' event, its   *)
(* promise, its exceptions and what its child dials, for any address       *)
(* texts, any number of chunks and writes and a user who closes at any     *)
(* time.                                                                   *)
(***************************************************************************)
EXTENDS SwtpmProxyDriver, TLAPS, WellFoundedInduction, SequenceTheorems

(***************************************************************************)
(* What has happened to the promise, seen from the servers and sockets: a  *)
(* connection was accepted by a server that had listened, so no server can *)
(* fail any more once both connections are there.                          *)
(***************************************************************************)
PromiseInv ==
  /\ server \in [Channel -> {"none", "starting", "bound", "listening",
                             "failed", "closed"}]
  /\ socket \in [Channel -> {"none", "open", "closed"}]
  /\ promise \in {"none", "pending", "resolved", "rejected"}
  /\ rejected \in BOOLEAN
  /\ promise = "none" => \A c \in Channel : server[c] = "none"
  /\ rejected => promise = "rejected"
  /\ \A c \in Channel :
       socket[c] # "none" => server[c] \in {"listening", "closed"}
  /\ promise = "resolved" => \A c \in Channel : socket[c] # "none"

\* The invariant behind CloseReportedOnce: nothing of it depends on whether
\* the process is alive.
CloseInv ==
  /\ closed \in BOOLEAN
  /\ closedByUser => closed
  /\ closeEvents = IF closed /\ ~closedByUser THEN 1 ELSE 0

(***************************************************************************)
(* Why nothing throws: a server whose 'listening' event has run is there   *)
(* until close() or a rejection takes it away, the child is started once,  *)
(* when both have listened, and a driver that is closed without the user   *)
(* has lost its child.                                                     *)
(***************************************************************************)
SafeInv ==
  /\ SafeWhileChildLives
  /\ isListening \in [Channel -> BOOLEAN]
  /\ promise = "none" => \A c \in Channel : ~isListening[c]
  /\ \A c \in Channel : isListening[c] => server[c] \in {"listening", "closed"}
  /\ \A c \in Channel : server[c] = "closed" => closed \/ rejected
  /\ child # "none" => \A c \in Channel : isListening[c]
  /\ closed => closedByUser \/ child = "exited"
  /\ closedByUser => closed

\* An address a server can listen on and the child can be told of.
Given(address) ==
  /\ address.addr # << >>
  /\ \/ address.family = "tcp" /\ address.port # "none"
     \/ address.family = "unix" /\ address.port = "none"

\* The addresses of the servers do not change once they have begun, and the
\* child was told of both.
AddressInv ==
  /\ backend \in [Channel -> Address]
  /\ dialled \in [Channel -> Address]
  /\ \A c \in Channel : server[c] # "none" => Given(backend[c])
  /\ child # "none" =>
       \A c \in Channel :
         dialled[c] = ParseSocketAddr(ChildArgument(AddressOf(c)))

\* The types that are left, with the sums that bound the counters.
TypesInv ==
  /\ alive \in BOOLEAN
  /\ child \in {"none", "starting", "ctrl", "both", "exited"}
  /\ backlog \in [Channel -> BOOLEAN]
  /\ flowing \in [Channel -> BOOLEAN]
  /\ ended \in [Channel -> BOOLEAN]
  /\ closed \in BOOLEAN
  /\ closedByUser \in BOOLEAN
  /\ closeEvents \in Nat
  /\ resumed \in BOOLEAN

\* The numbers of chunks and writes, for each channel, and what the child
\* has read of them.
CountInv ==
  /\ inbound \in [Channel -> Nat]
  /\ emitted \in [Channel -> Nat]
  /\ writing \in [Channel -> Nat]
  /\ wrote \in [Channel -> Nat]
  /\ outbound \in [Channel -> {"read", "unread", "missed"}]
  /\ \A c \in Channel : inbound[c] + emitted[c] <= MaxChunks
  /\ \A c \in Channel : writing[c] <= wrote[c] /\ wrote[c] <= MaxWrites

-----------------------------------------------------------------------------

(***************************************************************************)
(* The driver emits 'close' once when a lost connection closed it and      *)
(* never when the user did, whatever closes first (swtpm-proxy.ts:178-183, *)
(* 214-219).                                                               *)
(***************************************************************************)
THEOREM ClosesAreReportedOnce == SafeSpec => []CloseReportedOnce
<1>1. Init => CloseInv
  BY DEF Init, CloseInv
<1>2. CloseInv /\ [Next]_vars => CloseInv'
  <2> SUFFICES ASSUME CloseInv, [Next]_vars PROVE CloseInv'
    OBVIOUS
  <2> USE DEF CloseInv, closing
  <2>1. CASE ListenAndWait
    BY <2>1 DEF ListenAndWait
  <2>2. CASE Resume
    BY <2>2 DEF Resume
  <2>3. CASE Close
    BY <2>3 DEF Close, CloseAll
  <2>4. CASE SpawnFails
    BY <2>4 DEF SpawnFails
  <2>5. CASE ChildExits
    BY <2>5 DEF ChildExits
  <2>6. ASSUME NEW c \in Channel, SocketCloses(c)
        PROVE  CloseInv'
    <3>1. UNCHANGED closedByUser
      BY <2>6 DEF SocketCloses
    <3>2. CASE closed
      <4>1. UNCHANGED <<closed, closeEvents>>
        BY <2>6, <3>2 DEF SocketCloses, OnSocketClosed, WasClosed
      <4>2. QED
        BY <3>1, <4>1
    <3>3. CASE ~closed
      <4>1. closed' = TRUE /\ closeEvents' = closeEvents + 1
        BY <2>6, <3>3 DEF SocketCloses, OnSocketClosed, WasClosed, CloseAll
      <4>2. QED
        BY <3>1, <3>3, <4>1
    <3>4. QED
      BY <3>2, <3>3
  <2>7. ASSUME NEW c \in Channel,
               \/ Bind(c) \/ ServerFails(c) \/ Listening(c) \/ OnConnection(c)
               \/ ChildConnects(c) \/ ChildSends(c) \/ ChildReads(c)
               \/ SocketBreaks(c) \/ OnReceived(c) \/ Write(c) \/ Written(c)
        PROVE  CloseInv'
    BY <2>7 DEF Bind, ServerFails, Listening, OnConnection, ChildConnects,
                ChildSends, ChildReads, SocketBreaks, OnReceived, Write, Written
  <2>8. CASE UNCHANGED vars
    BY <2>8 DEF vars
  <2>9. QED
    BY <2>1, <2>2, <2>3, <2>4, <2>5, <2>6, <2>7, <2>8 DEF Next
<1>3. CloseInv => CloseReportedOnce
  BY DEF CloseInv, CloseReportedOnce
<1>4. QED
  BY <1>1, <1>2, <1>3, PTL DEF SafeSpec

\* What the promise says of the servers and sockets is an invariant.
LEMMA PromiseHolds == SafeSpec => []PromiseInv
<1>1. Init => PromiseInv
  <2>1. Init => /\ server = [c \in Channel |-> "none"]
                /\ socket = [c \in Channel |-> "none"]
                /\ promise = "none" /\ rejected = FALSE
    BY DEF Init
  <2>2. QED
    BY <2>1 DEF PromiseInv
<1>2. PromiseInv /\ [Next]_vars => PromiseInv'
  <2> SUFFICES ASSUME PromiseInv, [Next]_vars PROVE PromiseInv'
    OBVIOUS
  <2> USE DEF PromiseInv, setup
  <2>1. CASE ListenAndWait
    BY <2>1 DEF ListenAndWait
  <2>2. CASE Resume
    BY <2>2 DEF Resume
  <2>3. CASE Close
    BY <2>3 DEF Close, CloseAll
  <2>4. CASE SpawnFails
    BY <2>4 DEF SpawnFails
  <2>5. CASE ChildExits
    BY <2>5 DEF ChildExits
  <2>6. ASSUME NEW c \in Channel, SocketCloses(c)
        PROVE  PromiseInv'
    BY <2>6 DEF SocketCloses, OnSocketClosed, WasClosed, CloseAll
  <2>7. ASSUME NEW c \in Channel, Bind(c)
        PROVE  PromiseInv'
    BY <2>7 DEF Bind
  <2>8. ASSUME NEW c \in Channel, ServerFails(c)
        PROVE  PromiseInv'
    BY <2>8 DEF ServerFails, OnError
  <2>9. ASSUME NEW c \in Channel, Listening(c)
        PROVE  PromiseInv'
    BY <2>9 DEF Listening
  <2>10. ASSUME NEW c \in Channel, OnConnection(c)
         PROVE  PromiseInv'
    BY <2>10 DEF OnConnection, OnConnect
  <2>11. ASSUME NEW c \in Channel,
                \/ ChildConnects(c) \/ ChildSends(c) \/ ChildReads(c)
                \/ SocketBreaks(c) \/ OnReceived(c) \/ Write(c) \/ Written(c)
         PROVE  PromiseInv'
    BY <2>11 DEF ChildConnects, ChildSends, ChildReads, SocketBreaks,
                 OnReceived, Write, Written
  <2>12. CASE UNCHANGED vars
    BY <2>12 DEF vars
  <2>13. QED
    BY <2>1, <2>2, <2>3, <2>4, <2>5, <2>6, <2>7, <2>8, <2>9, <2>10, <2>11,
       <2>12 DEF Next
<1>3. QED
  BY <1>1, <1>2, PTL DEF SafeSpec

(***************************************************************************)
(* listenAndWait() resolves only after the child has connected on both     *)
(* channels, and is not rejected afterwards (swtpm-proxy.ts:92-97,         *)
(* 107-112, 126-142).                                                      *)
(***************************************************************************)
THEOREM ResolvesAfterBoth == SafeSpec => []ResolvedAfterBoth
<1>1. PromiseInv => ResolvedAfterBoth
  BY DEF PromiseInv, ResolvedAfterBoth
<1>2. QED
  BY <1>1, PromiseHolds, PTL

\* What the servers and the child are when nothing has thrown.
LEMMA SafeKept == PromiseInv /\ SafeInv /\ [Next]_vars => SafeInv'
<1> SUFFICES ASSUME PromiseInv, SafeInv, [Next]_vars PROVE SafeInv'
  OBVIOUS
<1> USE DEF SafeInv, SafeWhileChildLives, setup, closing
<1>1. CASE ListenAndWait
  BY <1>1 DEF ListenAndWait, PromiseInv
<1>2. CASE Resume
  BY <1>2 DEF Resume
<1>3. CASE Close
  BY <1>3 DEF Close, CloseAll, PromiseInv
<1>4. CASE SpawnFails
  BY <1>4 DEF SpawnFails
<1>5. CASE ChildExits
  BY <1>5 DEF ChildExits, ChildRuns
<1>6. ASSUME NEW c \in Channel, SocketCloses(c)
      PROVE  SafeInv'
  BY <1>6 DEF SocketCloses, OnSocketClosed, WasClosed, CloseAll, PromiseInv
<1>7. ASSUME NEW c \in Channel, Bind(c)
      PROVE  SafeInv'
  BY <1>7 DEF Bind, PromiseInv
<1>8. ASSUME NEW c \in Channel, ServerFails(c)
      PROVE  SafeInv'
  <2>1. (rejected => rejected') /\ (promise' = "none" => promise = "none")
    BY <1>8 DEF ServerFails, OnError
  <2>2. QED
    BY <1>8, <2>1 DEF ServerFails, PromiseInv
<1>9. ASSUME NEW c \in Channel, Listening(c)
      PROVE  SafeInv'
  <2>1. child = "none" /\ server[c] = "bound" /\ alive
    BY <1>9 DEF Listening
  <2>2. promise # "none" /\ isListening' = [isListening EXCEPT ![c] = TRUE]
    BY <1>9, <2>1 DEF Listening, PromiseInv
  <2>3. UNCHANGED <<promise, rejected, closed, closedByUser>>
    BY <1>9 DEF Listening
  <2>4. CASE rejected
    <3>1. child' = child /\ alive' = ~closed
      BY <1>9, <2>4 DEF Listening
    <3>2. server' = [server EXCEPT ![c] = IF closed THEN "listening"
                                         ELSE "closed"]
      BY <1>9, <2>4 DEF Listening
    <3>3. QED
      BY <2>1, <2>2, <2>3, <2>4, <3>1, <3>2 DEF PromiseInv
  <2>5. CASE ~rejected /\ ~BothListen(isListening')
    <3>1. server' = [server EXCEPT ![c] = "listening"]
      BY <1>9, <2>5 DEF Listening
    <3>2. child' = child /\ alive' = alive
      BY <1>9, <2>5 DEF Listening
    <3>3. QED
      BY <2>1, <2>2, <2>3, <2>5, <3>1, <3>2 DEF PromiseInv
  <2>6. CASE ~rejected /\ BothListen(isListening')
    <3>1. server' = [server EXCEPT ![c] = "listening"] /\ StartProcess(server')
      BY <1>9, <2>6 DEF Listening
    <3>2. \A d \in Channel : isListening'[d]
      BY <2>6 DEF BothListen
    <3>3. ~closed => \A d \in Channel : server'[d] = "listening"
      BY <2>2, <2>6, <3>1, <3>2 DEF PromiseInv
    <3>4. CASE closed
      BY <2>1, <2>2, <2>3, <3>1, <3>2, <3>4 DEF StartProcess, PromiseInv
    <3>5. CASE ~closed
      <4>1. child' = "starting" /\ alive' = alive
        BY <3>1, <3>3, <3>5 DEF StartProcess
      <4>2. QED
        BY <2>1, <2>2, <2>3, <3>1, <3>2, <3>5, <4>1 DEF PromiseInv
    <3>6. QED
      BY <3>4, <3>5
  <2>7. QED
    BY <2>3, <2>4, <2>5, <2>6 DEF PromiseInv
<1>10. ASSUME NEW c \in Channel, OnConnection(c)
       PROVE  SafeInv'
  <2>1. promise' = "none" => promise = "none"
    BY <1>10 DEF OnConnection, OnConnect
  <2>2. QED
    BY <1>10, <2>1 DEF OnConnection
<1>11. ASSUME NEW c \in Channel, ChildConnects(c)
       PROVE  SafeInv'
  BY <1>11 DEF ChildConnects
<1>12. ASSUME NEW c \in Channel,
              \/ ChildSends(c) \/ ChildReads(c) \/ SocketBreaks(c)
              \/ OnReceived(c) \/ Write(c) \/ Written(c)
       PROVE  SafeInv'
  BY <1>12 DEF ChildSends, ChildReads, SocketBreaks, OnReceived, Write,
               Written
<1>13. CASE UNCHANGED vars
  BY <1>13 DEF vars
<1>14. QED
  BY <1>1, <1>2, <1>3, <1>4, <1>5, <1>6, <1>7, <1>8, <1>9, <1>10, <1>11,
     <1>12, <1>13 DEF Next

(***************************************************************************)
(* As long as the child starts and lives and the user does not close the   *)
(* driver, no listener throws (swtpm-proxy.ts:64-106).                     *)
(***************************************************************************)
THEOREM NothingThrows == SafeSpec => []SafeWhileChildLives
<1>1. Init => SafeInv
  BY DEF Init, SafeInv, SafeWhileChildLives
<1>2. SafeInv => SafeWhileChildLives
  BY DEF SafeInv
<1>3. QED
  BY <1>1, <1>2, SafeKept, PromiseHolds, PTL DEF SafeSpec

-----------------------------------------------------------------------------
(* The texts and the addresses that are read in them. *)

\* A bounded set of numbers that is not empty has a maximum.
LEMMA MaxIsMember ==
  ASSUME NEW S \in SUBSET Nat, S # {}, NEW n \in Nat, \A x \in S : x <= n
  PROVE  Max(S) \in S
<1> DEFINE T == {n - x : x \in S}
           R == OpToRel(<, Nat)
<1>1. IsWellFoundedOn(R, Nat)
  BY NatLessThanWellFounded
<1>2. \A x, y \in Nat : x < y => <<x, y>> \in R
  BY DEF OpToRel
<1> HIDE DEF R
<1>3. T \subseteq Nat /\ T # {}
  <2>1. \A x \in S : n - x \in Nat
    OBVIOUS
  <2>2. PICK x \in S : TRUE
    OBVIOUS
  <2>3. n - x \in T
    OBVIOUS
  <2>4. QED
    BY <2>1, <2>3
<1>4. PICK t \in T : \A u \in T : ~(<<u, t>> \in R)
  BY <1>1, <1>3, WFMin
<1>5. PICK x \in S : t = n - x
  BY <1>4
<1>6. ASSUME NEW y \in S PROVE x >= y
  <2>1. n - y \in Nat /\ t \in Nat /\ x \in Nat /\ y \in Nat
    BY <1>3, <1>4
  <2>2. ~(n - y < t)
    BY <1>2, <1>4, <2>1
  <2>3. QED
    BY <1>5, <2>1, <2>2
<1>7. \E z \in S : \A y \in S : z >= y
  BY <1>6
<1>8. QED
  BY <1>7 DEF Max

\* What an option is assigned is a sequence of words.
LEMMA ValueAtLastType ==
  ASSUME NEW options \in Seq(Seq(Word) \ {<< >>}),
         NEW at \in SUBSET (DOMAIN options), NEW default \in Seq(Word)
  PROVE  ValueAtLast(options, at, default) \in Seq(Word)
<1>1. CASE at = {}
  BY <1>1 DEF ValueAtLast
<1>2. CASE at # {}
  <2>1. Max(at) \in at
    <3>1. Len(options) \in Nat /\ at \in SUBSET Nat
      OBVIOUS
    <3>3. \A i \in at : i <= Len(options)
      OBVIOUS
    <3>2. QED
      BY <1>2, <3>1, <3>3, MaxIsMember
  <2>2. options[Max(at)] \in Seq(Word) /\ options[Max(at)] # << >>
    BY <2>1
  <2>3. Tail(options[Max(at)]) \in Seq(Word)
    BY <2>2, HeadTailProperties
  <2>4. QED
    BY <1>2, <2>3 DEF ValueAtLast, ParseKeyValue
<1>3. QED
  BY <1>1, <1>2

\* The defaults of the readers are values.
LEMMA DefaultsAreValues ==
  /\ Loopback \in Seq(Word)
  /\ << >> \in Seq(Word)
  /\ <<"0">> \in Seq(Word)
<1>1. "127.0.0.1" \in Word /\ "0" \in Word
  BY DEF Word, Numeral
<1>2. ASSUME NEW w \in Word PROVE <<w>> \in Seq(Word)
  OBVIOUS
<1>3. QED
  BY <1>1, <1>2 DEF Loopback

\* The driver reads an address, and unless there is none it is of one of the
\* two families, with no port on a path.
LEMMA ParamType ==
  ASSUME NEW text \in SocketText
  PROVE  LET p == ParseSocketParam(text)
         IN  /\ p \in Address
             /\ p # Missing => p.family \in {"tcp", "unix"}
             /\ p.family = "unix" => p.port = "none"
<1> DEFINE options == text.options
<1>1. options \in Seq(Seq(Word) \ {<< >>})
  BY DEF SocketText
<1>2. ASSUME NEW keys, NEW default \in Seq(Word)
      PROVE  LastValue(options, keys, default) \in Seq(Word)
  <2> DEFINE at == {i \in DOMAIN options :
                      ParseKeyValue(options[i]).key \in keys}
  <2>1. at \in SUBSET (DOMAIN options)
    OBVIOUS
  <2> HIDE DEF at
  <2>2. ValueAtLast(options, at, default) \in Seq(Word)
    BY <1>1, <2>1, ValueAtLastType
  <2>3. QED
    BY <2>2 DEF LastValue, at
<1>3. \A value : ParsePort(value) \in Numeral \cup {"none"}
  BY DEF ParsePort
<1>4. CASE text.prefix = "tcp"
  <2>1. LastValue(options, {"addr"}, Loopback) \in Seq(Word)
    BY <1>2, DefaultsAreValues
  <2>2. QED
    BY <1>3, <1>4, <2>1 DEF ParseSocketParam, Address, Missing
<1>5. CASE text.prefix = "unix"
  <2>1. LastValue(options, {"path"}, << >>) \in Seq(Word)
    BY <1>2, DefaultsAreValues
  <2>2. QED
    BY <1>5, <2>1 DEF ParseSocketParam, Address, Missing
<1>6. CASE text.prefix \notin {"tcp", "unix"}
  BY <1>6, DefaultsAreValues DEF ParseSocketParam, Address, Missing
<1>7. QED
  BY <1>4, <1>5, <1>6

\* The child reads an address, in any text.
LEMMA ChildParamType ==
  ASSUME NEW text \in SocketText
  PROVE  ParseSocketAddr(text) \in Address
<1> DEFINE options == text.options
           at(key) == {i \in DOMAIN options :
                         Len(options[i]) > 1
                           /\ ParseKeyValue(options[i]).key = key}
           ipv4 == {i \in at("addr") :
                      ParseKeyValue(options[i]).value \notin Ipv6}
           port == ParsePort(ValueAtLast(options, at("port"), <<"0">>))
<1>1. options \in Seq(Seq(Word) \ {<< >>})
  BY DEF SocketText
<1>2. ValueAtLast(options, ipv4, Loopback) \in Seq(Word)
  <2>1. ipv4 \in SUBSET (DOMAIN options)
    OBVIOUS
  <2> HIDE DEF ipv4
  <2>2. QED
    BY <1>1, <2>1, ValueAtLastType, DefaultsAreValues
<1>3. ValueAtLast(options, at("path"), << >>) \in Seq(Word)
  <2>1. at("path") \in SUBSET (DOMAIN options)
    OBVIOUS
  <2> HIDE DEF at
  <2>2. QED
    BY <1>1, <2>1, ValueAtLastType, DefaultsAreValues
<1>4. port \in Numeral \cup {"none"} /\ "0" \in Numeral
  BY DEF ParsePort, Numeral
<1>5. ParseSocketAddr(text) =
        CASE LooksTcp(text) /\ at("path") = {} /\ at("mode") = {} ->
               [family |-> "tcp", addr |-> ValueAtLast(options, ipv4, Loopback),
                port |-> IF port = "none" THEN "0" ELSE port]
          [] /\ ~LooksTcp(text) /\ text.prefix = "unix"
             /\ at("addr") = {} /\ at("port") = {} ->
               [family |-> "unix",
                addr |-> ValueAtLast(options, at("path"), << >>),
                port |-> "none"]
          [] OTHER -> Missing
  BY DEF ParseSocketAddr
<1> HIDE DEF ipv4, port, at
<1>6. CASE LooksTcp(text) /\ at("path") = {} /\ at("mode") = {}
  BY <1>2, <1>4, <1>5, <1>6 DEF Address
<1>7. CASE /\ ~LooksTcp(text) /\ text.prefix = "unix"
           /\ at("addr") = {} /\ at("port") = {}
  BY <1>3, <1>5, <1>7 DEF Address
<1>8. CASE /\ ~(LooksTcp(text) /\ at("path") = {} /\ at("mode") = {})
           /\ ~(/\ ~LooksTcp(text) /\ text.prefix = "unix"
                /\ at("addr") = {} /\ at("port") = {})
  BY <1>5, <1>8, DefaultsAreValues DEF Address, Missing
<1>9. QED
  BY <1>6, <1>7, <1>8

\* What is read in an option that was written as a key, '=' and a value.
LEMMA OptionReads ==
  ASSUME NEW key \in Word, NEW value \in Seq(Word), value # << >>
  PROVE  LET option == <<key>> \o value
         IN  /\ Len(option) > 1
             /\ ParseKeyValue(option).key = key
             /\ ParseKeyValue(option).value = value
<1> DEFINE option == <<key>> \o value
<1>1. <<key>> \in Seq(Word) /\ option \in Seq(Word)
  OBVIOUS
<1>2. Len(option) = 1 + Len(value) /\ Len(value) > 0
  OBVIOUS
<1>3. option[1] = key /\ \A i \in 1 .. Len(value) : option[i + 1] = value[i]
  OBVIOUS
<1> HIDE DEF option
<1>4. Head(option) = key
  BY <1>1, <1>2, <1>3
<1>5. /\ Tail(option) \in Seq(Word)
      /\ Len(Tail(option)) = Len(value)
      /\ \A i \in 1 .. Len(value) : Tail(option)[i] = value[i]
  BY <1>1, <1>2, <1>3, HeadTailProperties
<1>6. Tail(option) = value
  BY <1>5, SeqEqual
<1>7. QED
  BY <1>2, <1>4, <1>6 DEF ParseKeyValue, option

\* The index that is the only one is the last.
LEMMA ValueAtOne ==
  ASSUME NEW options, NEW i \in Nat, NEW default
  PROVE  ValueAtLast(options, {i}, default) = ParseKeyValue(options[i]).value
<1>1. Max({i}) \in {i}
  BY MaxIsMember
<1>2. QED
  BY <1>1 DEF ValueAtLast

\* The child reads the address it is given, when it is neither an IPv6
\* address nor a path in which it finds "tcp:".
LEMMA ChildUnderstands ==
  ASSUME NEW a \in Address, a.addr # << >>,
         \/ a.family = "tcp" /\ a.port # "none"
         \/ a.family = "unix" /\ a.port = "none"
  PROVE  ParseSocketAddr(ChildArgument(a)) =
           IF IsIpv6(a) THEN [a EXCEPT !.addr = Loopback]
           ELSE IF HidesTcp(a) THEN Missing ELSE a
<1> DEFINE text == ChildArgument(a)
           options == text.options
           at(key) == {i \in DOMAIN options :
                         Len(options[i]) > 1
                           /\ ParseKeyValue(options[i]).key = key}
           ipv4 == {i \in at("addr") :
                      ParseKeyValue(options[i]).value \notin Ipv6}
           port == ParsePort(ValueAtLast(options, at("port"), <<"0">>))
<1>1. a.addr \in Seq(Word) /\ {"addr", "path", "port"} \subseteq Word
  BY DEF Address, Word
<1>2. ParseSocketAddr(text) =
        CASE LooksTcp(text) /\ at("path") = {} /\ at("mode") = {} ->
               [family |-> "tcp", addr |-> ValueAtLast(options, ipv4, Loopback),
                port |-> IF port = "none" THEN "0" ELSE port]
          [] /\ ~LooksTcp(text) /\ text.prefix = "unix"
             /\ at("addr") = {} /\ at("port") = {} ->
               [family |-> "unix",
                addr |-> ValueAtLast(options, at("path"), << >>),
                port |-> "none"]
          [] OTHER -> Missing
  BY DEF ParseSocketAddr
<1>3. CASE a.family = "unix"
  <2> DEFINE o == <<"path">> \o a.addr
  <2>1. text = [prefix |-> "unix", options |-> <<o>>]
    BY <1>3 DEF ChildArgument
  <2>2. /\ Len(o) > 1
        /\ ParseKeyValue(o).key = "path"
        /\ ParseKeyValue(o).value = a.addr
    BY <1>1, OptionReads
  <2> HIDE DEF o, text
  <2>3. options = <<o>>
    BY <2>1
  <2>4. at("path") = {1} /\ at("addr") = {} /\ at("port") = {}
    BY <2>2, <2>3
  <2>5. ValueAtLast(options, {1}, << >>) = a.addr
    BY <2>2, <2>3, ValueAtOne
  <2>6. LooksTcp(text) <=> HidesTcp(a)
    <3>1. LooksTcp(text) <=> \E j \in DOMAIN o : o[j] \in HoldsTcp
      BY <2>1 DEF LooksTcp
    <3>2. Len(o) = 1 + Len(a.addr) /\ o[1] = "path"
      BY <1>1 DEF o
    <3>3. \A j \in DOMAIN a.addr : o[j + 1] = a.addr[j]
      BY <1>1 DEF o
    <3>4. DOMAIN o = 1 .. Len(o) /\ DOMAIN a.addr = 1 .. Len(a.addr)
      BY <1>1
    <3>5. "path" \notin HoldsTcp
      BY DEF HoldsTcp
    <3>6. ASSUME NEW j \in DOMAIN o, o[j] \in HoldsTcp
          PROVE  \E i \in DOMAIN a.addr : a.addr[i] \in HoldsTcp
      <4>1. Len(a.addr) \in Nat /\ j \in Nat /\ j # 1
        BY <1>1, <3>2, <3>4, <3>5, <3>6
      <4>2. j - 1 \in DOMAIN a.addr /\ (j - 1) + 1 = j
        BY <3>2, <3>4, <4>1
      <4>3. a.addr[j - 1] \in HoldsTcp
        BY <3>3, <3>6, <4>2
      <4>4. QED
        BY <4>2, <4>3
    <3>7. ASSUME NEW i \in DOMAIN a.addr, a.addr[i] \in HoldsTcp
          PROVE  \E j \in DOMAIN o : o[j] \in HoldsTcp
      <4>1. Len(a.addr) \in Nat
        BY <1>1
      <4>2. i + 1 \in DOMAIN o
        BY <3>2, <3>4, <4>1
      <4>3. QED
        BY <3>3, <3>7, <4>2
    <3>8. QED
      BY <1>3, <3>1, <3>6, <3>7 DEF HidesTcp
  <2> HIDE DEF at, options, ipv4, port
  <2>7. CASE HidesTcp(a)
    BY <1>2, <1>3, <2>4, <2>6, <2>7 DEF IsIpv6, text
  <2>8. CASE ~HidesTcp(a)
    <3>1. ParseSocketAddr(text) = [family |-> "unix", addr |-> a.addr,
                                   port |-> "none"]
      BY <1>2, <2>1, <2>4, <2>5, <2>6, <2>8
    <3>2. QED
      BY <1>3, <2>8, <3>1 DEF Address, IsIpv6, text
  <2>9. QED
    BY <2>7, <2>8
<1>4. CASE a.family = "tcp"
  <2> DEFINE o == <<"addr">> \o a.addr
             n == <<"port", a.port>>
  <2>1. text = [prefix |-> "tcp", options |-> <<o, n>>]
    BY <1>4 DEF ChildArgument
  <2>2. /\ Len(o) > 1
        /\ ParseKeyValue(o).key = "addr"
        /\ ParseKeyValue(o).value = a.addr
    BY <1>1, OptionReads
  <2>3. a.port \in Numeral
    BY <1>4 DEF Address
  <2>4. a.port \in Word
    BY <2>3 DEF Word
  <2> DEFINE value == <<a.port>>
  <2>5. /\ n = <<"port">> \o value
        /\ value \in Seq(Word)
        /\ value # << >>
    BY <2>4
  <2> HIDE DEF n, value
  <2>6. /\ Len(n) > 1
        /\ ParseKeyValue(n).key = "port"
        /\ ParseKeyValue(n).value = value
    BY <1>1, <2>5, OptionReads
  <2> HIDE DEF o, text
  <2>7. options = <<o, n>>
    BY <2>1
  <2>8. at("path") = {} /\ at("mode") = {}
    BY <2>2, <2>6, <2>7
  <2>9. at("addr") = {1} /\ at("port") = {2}
    BY <2>2, <2>6, <2>7
  <2>10. ipv4 = IF a.addr \in Ipv6 THEN {} ELSE {1}
    BY <2>2, <2>7, <2>9
  <2>11. ValueAtLast(options, {2}, <<"0">>) = value
    BY <2>6, <2>7, ValueAtOne
  <2>12. ValueAtLast(options, {1}, Loopback) = a.addr
    BY <2>2, <2>7, ValueAtOne
  <2>13. ValueAtLast(options, {}, Loopback) = Loopback
    BY DEF ValueAtLast
  <2> HIDE DEF at, options, ipv4
  <2>14. port = a.port /\ port # "none"
    BY <1>4, <2>3, <2>9, <2>11 DEF ParsePort, value
  <2> HIDE DEF port
  <2>15. ParseSocketAddr(text) =
           [family |-> "tcp", addr |-> ValueAtLast(options, ipv4, Loopback),
            port |-> a.port]
    BY <1>2, <2>1, <2>8, <2>14 DEF LooksTcp
  <2>16. CASE a.addr \in Ipv6
    BY <1>4, <2>10, <2>13, <2>15, <2>16 DEF Address, IsIpv6, text
  <2>17. CASE a.addr \notin Ipv6
    BY <1>4, <2>10, <2>12, <2>15, <2>17 DEF Address, IsIpv6, HidesTcp, text
  <2>18. QED
    BY <2>16, <2>17
<1>5. QED
  BY <1>3, <1>4

-----------------------------------------------------------------------------
(* The addresses of the servers and of the child. *)

\* What listenAndWait() listens on.
LEMMA BegunIsGiven ==
  ASSUME NEW texts \in Backends, NEW stuck, NEW c \in Channel,
         c \in Begun([d \in Channel |-> ParseSocketParam(texts[d])], stuck)
  PROVE  Given(ParseSocketParam(texts[c]))
<1> DEFINE params == [d \in Channel |-> ParseSocketParam(texts[d])]
           p == ParseSocketParam(texts[c])
<1>1. p # Missing /\ ~(p.family = "tcp" /\ p.port = "none")
  <2>1. params[c] = p
    OBVIOUS
  <2> HIDE DEF params
  <2>2. params[c] # Missing
    BY DEF Begun, params
  <2>3. ~(params[c].family = "tcp" /\ params[c].port = "none")
    BY DEF Begun, params
  <2>4. QED
    BY <2>1, <2>2, <2>3
<1>2. texts[c] \in SocketText /\ p.addr # << >>
  BY <1>1, BackendsAssumption
<1> HIDE DEF p
<1>3. p.family \in {"tcp", "unix"} /\ (p.family = "unix" => p.port = "none")
  BY <1>1, <1>2, ParamType DEF p
<1>4. QED
  BY <1>1, <1>2, <1>3 DEF Given, p

\* What server.address() says of a server that has begun.
LEMMA AddressIsGiven ==
  ASSUME NEW c \in Channel, backend[c] \in Address, Given(backend[c])
  PROVE  AddressOf(c) \in Address /\ Given(AddressOf(c))
<1>1. CASE backend[c].port = "0"
  <2>1. PICK p \in {"40001", "40002"} :
          AddressOf(c) = [backend[c] EXCEPT !.port = p]
    BY <1>1 DEF AddressOf
  <2>2. backend[c].family = "tcp"
    BY <1>1 DEF Given
  <2>3. QED
    BY <2>1, <2>2 DEF Address, Given, Numeral
<1>2. CASE backend[c].port # "0"
  BY <1>2 DEF AddressOf
<1>3. QED
  BY <1>1, <1>2

\* The child reads an address in the argument it is given.
LEMMA ArgumentIsRead ==
  ASSUME NEW a \in Address, Given(a)
  PROVE  ParseSocketAddr(ChildArgument(a)) \in Address
<1>1. a.family \in {"tcp", "unix"}
  BY DEF Given
<1>2. ParseSocketAddr(ChildArgument(a)) =
        IF IsIpv6(a) THEN [a EXCEPT !.addr = Loopback]
        ELSE IF HidesTcp(a) THEN Missing ELSE a
  BY ChildUnderstands DEF Given
<1>3. Loopback \in Seq(Word) /\ Missing \in Address
  BY DefaultsAreValues DEF Missing, Address
<1>4. [a EXCEPT !.addr = Loopback] \in Address
  BY <1>3 DEF Address
<1>5. QED
  BY <1>2, <1>3, <1>4

\* Every step keeps the addresses.
LEMMA AddressKept ==
  PromiseInv /\ SafeInv /\ AddressInv /\ [Next]_vars => AddressInv'
<1> SUFFICES ASSUME PromiseInv, SafeInv, AddressInv, [Next]_vars
             PROVE  AddressInv'
  OBVIOUS
<1>1. ASSUME UNCHANGED <<backend, dialled>>,
             \A c \in Channel : server'[c] # "none" => server[c] # "none",
             child' # "none" => child # "none"
      PROVE  AddressInv'
  BY <1>1 DEF AddressInv, AddressOf
<1>2. CASE ListenAndWait
  <2>1. PICK texts \in Backends, stuck \in SUBSET Channel :
          /\ backend' = [c \in Channel |-> ParseSocketParam(texts[c])]
          /\ \A c \in Channel :
               server'[c] = "none" <=> c \notin Begun(backend', stuck)
    BY <1>2 DEF ListenAndWait
  <2>2. UNCHANGED <<dialled, child>> /\ child = "none"
    BY <1>2 DEF ListenAndWait, SafeInv, Channel
  <2>3. \A c \in Channel : server'[c] # "none" => Given(backend'[c])
    BY <2>1, BegunIsGiven
  <2>4. \A c \in Channel : ParseSocketParam(texts[c]) \in Address
    BY BackendsAssumption, ParamType
  <2>5. backend' \in [Channel -> Address]
    BY <2>1, <2>4
  <2>6. QED
    BY <2>2, <2>3, <2>5 DEF AddressInv
<1>3. ASSUME NEW c \in Channel, Listening(c)
      PROVE  AddressInv'
  <2>1. \A d \in Channel : server'[d] # "none" => server[d] # "none"
    BY <1>3 DEF Listening, PromiseInv
  <2>2. backend' = backend /\ child = "none"
    BY <1>3 DEF Listening, SafeInv
  <2>3. CASE UNCHANGED <<child, dialled>>
    BY <1>1, <2>1, <2>2, <2>3
  <2>4. CASE \E servers : StartProcess(servers) /\ server' = servers
    <3>1. CASE UNCHANGED <<child, dialled>>
      BY <1>1, <2>1, <2>2, <3>1
    <3>2. CASE /\ \A d \in Channel : server'[d] = "listening"
               /\ dialled' = [d \in Channel |->
                               ParseSocketAddr(ChildArgument(AddressOf(d)))]
      <4>1. \A d \in Channel : Given(backend[d]) /\ backend[d] \in Address
        BY <2>1, <3>2 DEF AddressInv
      <4>2. \A d \in Channel : AddressOf(d) \in Address /\ Given(AddressOf(d))
        BY <4>1, AddressIsGiven
      <4>3. \A d \in Channel :
              ParseSocketAddr(ChildArgument(AddressOf(d))) \in Address
        BY <4>2, ArgumentIsRead
      <4>4. \A d \in Channel : AddressOf(d)' = AddressOf(d)
        BY <2>2 DEF AddressOf
      <4>5. QED
        BY <2>2, <3>2, <4>1, <4>3, <4>4 DEF AddressInv
    <3>3. QED
      BY <2>4, <3>1, <3>2 DEF StartProcess
  <2>5. QED
    BY <1>3, <2>3, <2>4 DEF Listening
<1>4. CASE Resume \/ SpawnFails \/ ChildExits
  <2>1. UNCHANGED <<setup, server>> /\ (child' # "none" => child # "none")
    BY <1>4 DEF Resume, SpawnFails, ChildExits, ChildRuns
  <2>2. QED
    BY <1>1, <2>1 DEF setup
<1>5. CASE Close
  <2>1. UNCHANGED <<setup, child>>
    BY <1>5 DEF Close
  <2>2. \A c \in Channel : server'[c] # "none" => server[c] # "none"
    BY <1>5 DEF Close, CloseAll
  <2>3. QED
    BY <1>1, <2>1, <2>2 DEF setup
<1>6. ASSUME NEW c \in Channel, SocketCloses(c)
      PROVE  AddressInv'
  <2>1. UNCHANGED <<setup, child>>
    BY <1>6 DEF SocketCloses
  <2>2. \A d \in Channel : server'[d] # "none" => server[d] # "none"
    BY <1>6 DEF SocketCloses, OnSocketClosed, WasClosed, CloseAll
  <2>3. QED
    BY <1>1, <2>1, <2>2 DEF setup
<1>7. ASSUME NEW c \in Channel, Bind(c) \/ ServerFails(c)
      PROVE  AddressInv'
  <2>1. UNCHANGED <<backend, dialled, child>>
    BY <1>7 DEF Bind, ServerFails, setup
  <2>2. \A d \in Channel : server'[d] # "none" => server[d] # "none"
    BY <1>7 DEF Bind, ServerFails, PromiseInv
  <2>3. QED
    BY <1>1, <2>1, <2>2
<1>8. ASSUME NEW c \in Channel,
             \/ OnConnection(c) \/ ChildConnects(c) \/ ChildSends(c)
             \/ ChildReads(c) \/ SocketBreaks(c) \/ OnReceived(c)
             \/ Write(c) \/ Written(c)
      PROVE  AddressInv'
  <2>1. UNCHANGED <<backend, dialled, server>>
    BY <1>8 DEF OnConnection, ChildConnects, ChildSends, ChildReads,
                SocketBreaks, OnReceived, Write, Written, setup
  <2>2. child' # "none" => child # "none"
    BY <1>8 DEF OnConnection, ChildConnects, ChildSends, ChildReads,
                SocketBreaks, OnReceived, Write, Written
  <2>3. QED
    BY <1>1, <2>1, <2>2
<1>9. CASE UNCHANGED vars
  BY <1>1, <1>9 DEF vars, setup
<1>10. QED
  BY <1>2, <1>3, <1>4, <1>5, <1>6, <1>7, <1>8, <1>9 DEF Next

\* The addresses are an invariant, with what it rests on.
LEMMA AddressHolds == SafeSpec => [](PromiseInv /\ SafeInv /\ AddressInv)
<1>1. Init => SafeInv
  BY DEF Init, SafeInv, SafeWhileChildLives
<1>2. Init => AddressInv
  <2>1. Missing \in Address
    BY DefaultsAreValues DEF Missing, Address
  <2>2. QED
    BY <2>1 DEF Init, AddressInv
<1>3. QED
  BY <1>1, <1>2, SafeKept, AddressKept, PromiseHolds, PTL DEF SafeSpec

(***************************************************************************)
(* The child dials the addresses the servers listen on, whatever form and  *)
(* order they were given in; for an IPv6 address it dials the loopback,    *)
(* and a path that holds "tcp:" it refuses (swtpm-proxy.ts:64-87,          *)
(* main.cc:92-165).                                                        *)
(***************************************************************************)
THEOREM ChildDialsWhatIsServed == SafeSpec => []ChildDialsServers
<1>1. PromiseInv /\ SafeInv /\ AddressInv => ChildDialsServers
  <2> SUFFICES ASSUME PromiseInv, SafeInv, AddressInv, child # "none",
                      NEW c \in Channel
               PROVE  dialled[c] =
                        IF IsIpv6(AddressOf(c))
                        THEN [AddressOf(c) EXCEPT !.addr = Loopback]
                        ELSE IF HidesTcp(AddressOf(c)) THEN Missing
                        ELSE AddressOf(c)
    BY DEF ChildDialsServers
  <2>1. server[c] # "none"
    BY DEF SafeInv
  <2>2. backend[c] \in Address /\ Given(backend[c])
    BY <2>1 DEF AddressInv
  <2>3. AddressOf(c) \in Address /\ Given(AddressOf(c))
    BY <2>2, AddressIsGiven
  <2>4. dialled[c] = ParseSocketAddr(ChildArgument(AddressOf(c)))
    BY DEF AddressInv
  <2>5. QED
    BY <2>3, <2>4, ChildUnderstands DEF Given
<1>2. QED
  BY <1>1, AddressHolds, PTL

-----------------------------------------------------------------------------
(* Type correctness. *)

\* Every step keeps the types of what no other invariant types.
LEMMA TypesKept == TypesInv /\ [Next]_vars => TypesInv'
<1> SUFFICES ASSUME TypesInv, [Next]_vars PROVE TypesInv'
  OBVIOUS
<1> USE DEF TypesInv, closing
<1>1. CASE ListenAndWait
  BY <1>1 DEF ListenAndWait
<1>2. CASE Resume
  BY <1>2 DEF Resume
<1>3. CASE Close
  BY <1>3 DEF Close, CloseAll, EndSockets
<1>4. CASE SpawnFails
  BY <1>4 DEF SpawnFails
<1>5. CASE ChildExits
  BY <1>5 DEF ChildExits
<1>6. ASSUME NEW c \in Channel, SocketCloses(c)
      PROVE  TypesInv'
  <2>1. UNCHANGED <<alive, child, flowing, closedByUser, resumed>>
    BY <1>6 DEF SocketCloses
  <2>2. CASE closed
    BY <1>6, <2>1, <2>2 DEF SocketCloses, OnSocketClosed, WasClosed
  <2>3. CASE ~closed
    <3>1. CloseAll /\ closeEvents' = closeEvents + 1
      BY <1>6, <2>3 DEF SocketCloses, OnSocketClosed, WasClosed
    <3>2. closed' \in BOOLEAN /\ backlog' \in [Channel -> BOOLEAN]
      BY <3>1 DEF CloseAll
    <3>3. ended' \in [Channel -> BOOLEAN]
      BY <3>1 DEF CloseAll, EndSockets
    <3>4. closeEvents' \in Nat
      BY <3>1
    <3>5. QED
      BY <2>1, <3>2, <3>3, <3>4
  <2>4. QED
    BY <2>2, <2>3
<1>7. ASSUME NEW c \in Channel, Listening(c)
      PROVE  TypesInv'
  <2>1. UNCHANGED <<backlog, flowing, ended, closed, closedByUser, closeEvents,
                    resumed>>
    BY <1>7 DEF Listening
  <2>2. child' = child \/ child' = "starting"
    BY <1>7 DEF Listening, StartProcess
  <2>3. alive' \in BOOLEAN
    BY <1>7 DEF Listening, StartProcess
  <2>4. QED
    BY <2>1, <2>2, <2>3
<1>8. ASSUME NEW c \in Channel, OnConnection(c)
      PROVE  TypesInv'
  BY <1>8 DEF OnConnection, Pause
<1>9. ASSUME NEW c \in Channel, ChildConnects(c)
      PROVE  TypesInv'
  BY <1>9 DEF ChildConnects
<1>10. ASSUME NEW c \in Channel,
              \/ Bind(c) \/ ServerFails(c) \/ ChildSends(c) \/ ChildReads(c)
              \/ SocketBreaks(c) \/ OnReceived(c) \/ Write(c) \/ Written(c)
       PROVE  TypesInv'
  BY <1>10 DEF Bind, ServerFails, ChildSends, ChildReads, SocketBreaks,
               OnReceived, Write, Written
<1>11. CASE UNCHANGED vars
  BY <1>11 DEF vars
<1>12. QED
  BY <1>1, <1>2, <1>3, <1>4, <1>5, <1>6, <1>7, <1>8, <1>9, <1>10, <1>11
     DEF Next

\* Every step keeps the counters between their bounds.
LEMMA CountsKept == CountInv /\ [Next]_vars => CountInv'
<1> SUFFICES ASSUME CountInv, [Next]_vars PROVE CountInv'
  OBVIOUS
<1> USE BoundsAssumption DEF CountInv, traffic, writes
<1>1. CASE ListenAndWait \/ Resume \/ Close \/ SpawnFails \/ ChildExits
  BY <1>1 DEF ListenAndWait, Resume, Close, SpawnFails, ChildExits
<1>2. ASSUME NEW c \in Channel, SocketCloses(c)
      PROVE  CountInv'
  BY <1>2 DEF SocketCloses
<1>3. ASSUME NEW c \in Channel, ChildSends(c)
      PROVE  CountInv'
  BY <1>3 DEF ChildSends
<1>4. ASSUME NEW c \in Channel, OnReceived(c)
      PROVE  CountInv'
  BY <1>4 DEF OnReceived, Consume
<1>5. ASSUME NEW c \in Channel, Write(c)
      PROVE  CountInv'
  BY <1>5 DEF Write
<1>6. ASSUME NEW c \in Channel, Written(c)
      PROVE  CountInv'
  BY <1>6 DEF Written
<1>7. ASSUME NEW c \in Channel, ChildReads(c)
      PROVE  CountInv'
  BY <1>7 DEF ChildReads
<1>8. ASSUME NEW c \in Channel,
             \/ Bind(c) \/ ServerFails(c) \/ Listening(c) \/ OnConnection(c)
             \/ ChildConnects(c) \/ SocketBreaks(c)
      PROVE  CountInv'
  BY <1>8 DEF Bind, ServerFails, Listening, OnConnection, ChildConnects,
              SocketBreaks
<1>9. CASE UNCHANGED vars
  BY <1>9 DEF vars
<1>10. QED
  BY <1>1, <1>2, <1>3, <1>4, <1>5, <1>6, <1>7, <1>8, <1>9 DEF Next

(***************************************************************************)
(* The driver's state has its types: among them, no more is emitted than   *)
(* the child sent and no write is settled that was not begun.              *)
(***************************************************************************)
THEOREM DownstreamTypeCorrect == SafeSpec => []TypeOK
<1>1. Init => TypesInv
  <2>1. [c \in Channel |-> FALSE] \in [Channel -> BOOLEAN]
    OBVIOUS
  <2> SUFFICES ASSUME Init PROVE TypesInv
    OBVIOUS
  <2>2. /\ backlog \in [Channel -> BOOLEAN]
        /\ flowing \in [Channel -> BOOLEAN]
        /\ ended \in [Channel -> BOOLEAN]
    BY <2>1, Zenon DEF Init
  <2>3. alive \in BOOLEAN /\ closed \in BOOLEAN
    BY DEF Init
  <2>4. closedByUser \in BOOLEAN /\ resumed \in BOOLEAN
    BY DEF Init
  <2>5. child = "none" /\ closeEvents = 0
    BY DEF Init
  <2>6. QED
    BY <2>2, <2>3, <2>4, <2>5 DEF TypesInv
<1>2. Init => CountInv
  BY BoundsAssumption DEF Init, CountInv
<1>3. CountInv => /\ inbound \in [Channel -> 0 .. MaxChunks]
                  /\ emitted \in [Channel -> 0 .. MaxChunks]
                  /\ writing \in [Channel -> 0 .. MaxWrites]
                  /\ wrote \in [Channel -> 0 .. MaxWrites]
  <2> SUFFICES ASSUME CountInv
               PROVE  \A c \in Channel :
                        /\ inbound[c] \in 0 .. MaxChunks
                        /\ emitted[c] \in 0 .. MaxChunks
                        /\ writing[c] \in 0 .. MaxWrites
                        /\ wrote[c] \in 0 .. MaxWrites
    BY DEF CountInv
  <2>1. QED
    BY BoundsAssumption DEF CountInv
<1>4. PromiseInv /\ SafeInv /\ AddressInv /\ TypesInv /\ CountInv => TypeOK
  <2> SUFFICES ASSUME PromiseInv, SafeInv, AddressInv, TypesInv, CountInv
               PROVE  TypeOK
    OBVIOUS
  <2>1. outbound \in [Channel -> {"read", "unread", "missed"}]
    BY DEF CountInv
  <2>2. QED
    BY <1>3, <2>1 DEF PromiseInv, SafeInv, AddressInv, TypesInv, TypeOK
<1>5. QED
  BY <1>1, <1>2, <1>4, TypesKept, CountsKept, AddressHolds, PTL DEF SafeSpec

=============================================================================
