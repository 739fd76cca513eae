-------------------------- MODULE MCInboundArchive --------------------------
(* Instances of InboundArchive for TLC. *)
EXTENDS InboundArchive
=============================================================================
