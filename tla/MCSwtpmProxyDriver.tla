------------------------- MODULE MCSwtpmProxyDriver -------------------------
EXTENDS SwtpmProxyDriver

Text(prefix, options) == [prefix |-> prefix, options |-> options]

\* What the driver listens on when it is told nothing.
Default == Text("tcp", << <<"addr", "127.0.0.1">> >>)

\* A fixed port before the address, an option without value, a path with '='.
Fixed == Text("tcp", << <<"port", "2321">>, <<"nodelay">>,
                        <<"addr", "10.0.0.1">> >>)
Path == Text("unix", << <<"mode", "777">>, <<"path", "run", "d">> >>)

Sixth == Text("tcp", << <<"addr", "::1">> >>)

\* A path in which the child finds "tcp:".
TcpPath == Text("unix", << <<"path", "run/tcp:0">> >>)

\* A prefix that is not known, and a port that is no number.
Pipe == Text("pipe", << >>)
BadPort == Text("tcp", << <<"port", "tpm">> >>)

MCBackends ==
  {[ctrl |-> Default, data |-> Default],
   [ctrl |-> Fixed, data |-> Path],
   [ctrl |-> Default, data |-> Sixth],
   [ctrl |-> TcpPath, data |-> Default],
   [ctrl |-> Pipe, data |-> Default],
   [ctrl |-> Default, data |-> BadPort]}

=============================================================================
