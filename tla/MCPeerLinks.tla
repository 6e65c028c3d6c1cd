----------------------------- MODULE MCPeerLinks -----------------------------
EXTENDS PeerLinks, TLC
CONSTANTS a, b
BothWays == {<<a, b>>, <<b, a>>}
OneWay == {<<b, a>>}
==============================================================================
