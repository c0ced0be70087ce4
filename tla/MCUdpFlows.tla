----------------------------- MODULE MCUdpFlows -----------------------------
(* UdpFlows with interchangeable ports, clients and flow numbers.           *)
EXTENDS UdpFlows, TLC

UdpSymmetry == Permutations(Ports) \cup Permutations(Clients) \cup Permutations(Numbers)
=============================================================================
