---------------------------- MODULE SocketParams ----------------------------
(***************************************************************************)
(* The texts in which socket addresses are given, and their four readers   *)
(* and writers: parseSwtpmAddr for the upstream, parseSocketParam for the  *)
(* downstream, and the arguments the downstream driver writes for its      *)
(* child, which native/src/main.cc reads.                                  *)
(*                                                                         *)
(* A text is a prefix and a sequence of options, which commas separate; an *)
(* option is a sequence of words, which '=' separates: <<"path", "a", "b">>*)
(* is path=a=b.  A number is the word of its numeral, an address is given  *)
(* in numbers, and no word holds a separator.  HoldsTcp are the words that *)
(* hold "tcp:", which the child looks for anywhere in a text; none holds   *)
(* "unix:", no key holds another, and a path is not longer than the        *)
(* child's sun_path.                                                       *)
(***************************************************************************)
EXTENDS FiniteSetsExt, Sequences, Naturals

Loopback == <<"127.0.0.1">>

Numeral == {"0", "2321", "2322", "55169", "56169", "40001", "40002"}

\* The addresses that are not IPv4, of those that are used.
Ipv6 == {<<"::1">>}

\* The words that hold "tcp:", of those that are used.
HoldsTcp == {"run/tcp:0"}

\* The words of a text, with those the code writes itself: the provers do not
\* know that a literal is in STRING.
Word == STRING \cup Numeral \cup {"addr", "path", "port", "127.0.0.1"}

\* A text; an option has one word at least, which may be empty.
SocketText == [prefix : STRING, options : Seq(Seq(Word) \ {<< >>})]

Address == [family : {"none", "tcp", "unix"}, addr : Seq(Word),
            port : Numeral \cup {"none"}]

\* An address or parameter that is not there.
Missing == [family |-> "none", addr |-> << >>, port |-> "none"]

ParseKeyValue(option) == [key |-> Head(option), value |-> Tail(option)]

\* parseInt of a text that is no number is NaN, no port at all.
ParsePort(value) ==
  IF value # << >> /\ value[1] \in Numeral THEN value[1] ELSE "none"

\* What is left after the options at some indices have been assigned in turn.
ValueAtLast(options, at, default) ==
  IF at = {} THEN default ELSE ParseKeyValue(options[Max(at)]).value

LastValue(options, keys, default) ==
  ValueAtLast(options, {i \in DOMAIN options :
                          ParseKeyValue(options[i]).key \in keys}, default)

-----------------------------------------------------------------------------
(* The upstream driver. *)

\* parseSwtpmAddr.  Types other than tcp and unixio are passed over.
ParseSwtpmAddr(options) ==
  LET known == {i \in DOMAIN options :
                  options[i] \in {<<"type", "tcp">>, <<"type", "unixio">>}}
      type  == ValueAtLast(options, known, << >>)
      addr  == LastValue(options, {"path", "addr"}, << >>)
  IN  [family |-> IF type = <<"tcp">> THEN "tcp" ELSE "unix",
       addr   |-> IF type = <<"tcp">> /\ addr = << >> THEN Loopback ELSE addr,
       port   |-> ParsePort(LastValue(options, {"port"}, << >>))]

\* connectToSocket: where net.connect connects to, or Missing when it throws
\* because there is no port or no path.
ConnectToSocket(param) ==
  IF \/ param.family = "tcp" /\ param.port \in Numeral
     \/ param.family = "unix" /\ param.addr # << >>
  THEN param
  ELSE Missing

-----------------------------------------------------------------------------
(* The downstream driver and its child. *)

\* parseSocketParam; Missing is the exception for an unknown prefix.
ParseSocketParam(text) ==
  CASE text.prefix = "tcp" ->
         [family |-> "tcp",
          addr   |-> LastValue(text.options, {"addr"}, Loopback),
          port   |-> ParsePort(LastValue(text.options, {"port"}, <<"0">>))]
    [] text.prefix = "unix" ->
         [family |-> "unix",
          addr   |-> LastValue(text.options, {"path"}, << >>),
          port   |-> "none"]
    [] OTHER -> Missing

\* Mutant of ChildArgument: the address is left to its default.
ChildArgumentPort(address) ==
  IF address.family = "unix"
  THEN [prefix |-> "unix", options |-> << <<"path">> \o address.addr >>]
  ELSE [prefix |-> "tcp", options |-> << <<"port", address.port>> >>]

\* startProcess: an argument of the child, from what server.address() says.
ChildArgument(address) ==
  IF address.family = "unix"
  THEN [prefix |-> "unix", options |-> << <<"path">> \o address.addr >>]
  ELSE [prefix  |-> "tcp",
        options |-> << <<"addr">> \o address.addr,
                       <<"port", address.port>> >>]

\* strstr(params, "tcp:"), which finds it in a path just as well.
LooksTcp(text) ==
  \/ text.prefix = "tcp"
  \/ \E i \in DOMAIN text.options :
       \E j \in DOMAIN text.options[i] : text.options[i][j] \in HoldsTcp

(***************************************************************************)
(* parseSocketAddr of the child; Missing is its error return.  An option   *)
(* without '=' matches no key, one of the other family is an error, and an *)
(* address that inet_pton cannot read leaves the one before it.            *)
(***************************************************************************)
ParseSocketAddr(text) ==
  LET options == text.options
      at(key) == {i \in DOMAIN options :
                    Len(options[i]) > 1 /\ ParseKeyValue(options[i]).key = key}
      read(indices, default) == ValueAtLast(options, indices, default)
      ipv4    == {i \in at("addr") :
                    ParseKeyValue(options[i]).value \notin Ipv6}
      port    == ParsePort(read(at("port"), <<"0">>))
  IN  CASE LooksTcp(text) /\ at("path") = {} /\ at("mode") = {} ->
             [family |-> "tcp",
              addr   |-> read(ipv4, Loopback),
              port   |-> IF port = "none" THEN "0" ELSE port]
        [] /\ ~LooksTcp(text) /\ text.prefix = "unix"
           /\ at("addr") = {} /\ at("port") = {} ->
             [family |-> "unix",
              addr   |-> read(at("path"), << >>),
              port   |-> "none"]
        [] OTHER -> Missing

=============================================================================
