------------------------------- MODULE MCDht -------------------------------
(***************************************************************************)
(* Instances of Dht for TLC: IDs of two bytes of two bits; four nodes that *)
(* meet in the first bucket, two of them with the same ID, and two that    *)
(* make new ones.                                                          *)
(***************************************************************************)
EXTENDS Dht

MCNodes == [id : {{}, {1}, {1, 2}, {0, 1, 3}, {0, 1, 2, 3}}, addr : {"home"}]
           \cup [id : {{1}}, addr : {"away"}]
=============================================================================
