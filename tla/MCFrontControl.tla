--------------------------- MODULE MCFrontControl ---------------------------
EXTENDS FrontControl, MCControlChannel

MCFrontCommands == MCCommands \cup {MCLongCommand, <<Attached, SetDataFd>>}

=============================================================================
