---------------------------- MODULE MCPeerTable ----------------------------
(***************************************************************************)
(* Instances of PeerTable for TLC.                                         *)
(***************************************************************************)
EXTENDS PeerTable, TLC

\* Connections are interchangeable, and so are descriptors.
Symmetry == Permutations(Conn) \cup Permutations(Sock)
=============================================================================
