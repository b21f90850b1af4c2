----------------------- MODULE MCSwtpmUpstreamDriver -----------------------
EXTENDS SwtpmUpstreamDriver

\* README.md:57-67 with its options in another order, and as a path.
Tcp(port) == << <<"port", port>>, <<"type", "tcp">>, <<"addr", "127.0.0.1">> >>
Path == << <<"type", "unixio">>, <<"path", "run", "a">> >>

\* Options that net.connect throws on: no port, a port that is no number, no
\* path; and no type, which is taken for a path.
NoPort == << <<"type", "tcp">>, <<"addr", "127.0.0.1">> >>
BadPort == << <<"type", "tcp">>, <<"port", "tpm">> >>
NoPath == << <<"type", "unixio">> >>
NoType == << <<"port", "55169">>, <<"server">> >>

MCParams ==
  {[ctrl |-> Tcp("55169"), data |-> Tcp("56169")],
   [ctrl |-> Path, data |-> Tcp("56169")],
   [ctrl |-> NoPort, data |-> Tcp("56169")],
   [ctrl |-> Path, data |-> BadPort],
   [ctrl |-> Tcp("55169"), data |-> NoPath],
   [ctrl |-> NoType, data |-> NoType]}

=============================================================================
