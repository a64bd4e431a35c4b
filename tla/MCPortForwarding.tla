-------------------------- MODULE MCPortForwarding --------------------------
(* PortForwarding for TLC: all containers publish the same host port, as   *)
(* when one replaces the other.                                            *)
EXTENDS PortForwarding

CONSTANT h1

OneHost(n) == h1
=============================================================================
