------------------------ MODULE MCInboundForwarding ------------------------
(* Instance of InboundForwarding for TLC: workers and the recipient are model *)
(* values, the targets numbers.                                               *)
EXTENDS InboundForwarding
=============================================================================
