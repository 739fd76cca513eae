------------------------- MODULE MCOutboundArchive -------------------------
(* Instances of OutboundArchive for TLC. *)
EXTENDS OutboundArchive, TLC

Requesters == Permutations(Workers)
=============================================================================
