------------------------------ MODULE MCPorts -------------------------------
EXTENDS Ports, TLC

\* Two connections of trader 0.
TwoEnds == {<<0, 1>>, <<0, 2>>}
FilePorts == [x \in Ends |-> 2 * x[1] + x[2]]
FileOwn == [x \in Ends |-> x[2]]
=============================================================================
