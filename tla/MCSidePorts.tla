---------------------------- MODULE MCSidePorts ----------------------------
(* SidePorts with interchangeable owners, handlers and servers.             *)
EXTENDS SidePorts, TLC

PortsSymmetry == Permutations(Owners) \cup Permutations(Reqs) \cup Permutations(Ids)
=============================================================================
