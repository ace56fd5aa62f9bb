---------------------------- MODULE MCNodePorts ----------------------------
EXTENDS NodePorts

MCCallPorts == 0..(NodePortEnd + 1)
=============================================================================
