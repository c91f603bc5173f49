------------------------------ MODULE MCChecksum ------------------------------
EXTENDS Checksum

MCPrefixOrder == <<"p1", "p2">>
=============================================================================
