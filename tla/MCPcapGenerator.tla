--------------------------- MODULE MCPcapGenerator ---------------------------
EXTENDS PcapGenerator

Whole(n) == [whole |-> n, digits |-> << >>]

\* A command, a chunk of odd length, one whose sums have carries, and times
\* with and without a fraction, of six digits and of seven.
MCPackets ==
  {[channel |-> "downstreamData", data |-> <<128, 1, 0, 0>>,
    time |-> Whole(5000)],
   [channel |-> "upstreamData", data |-> <<128, 1, 7>>,
    time |-> Whole(1001)],
   [channel |-> "downstreamControl", data |-> [i \in 1 .. 212 |-> 255],
    time |-> [whole |-> 3, digits |-> <<0, 0, 0, 2, 5, 9>>]],
   [channel |-> "upstreamControl", data |-> <<0>>,
    time |-> [whole |-> 4, digits |-> <<1, 2, 3, 4, 5, 6, 7>>]]}

\* 1001 / 1000 % 1 * 1000000 is 999.999...
MCRoundedDown == {1001}

=============================================================================
