--------------------------- MODULE MCPeerServer ----------------------------
(***************************************************************************)
(* Instances of PeerServer for TLC.                                        *)
(***************************************************************************)
EXTENDS PeerServer, TLC
=============================================================================
