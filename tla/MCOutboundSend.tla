--------------------------- MODULE MCOutboundSend ---------------------------
(* Instances of OutboundSend for TLC. *)
EXTENDS OutboundSend

CONSTANTS resend, cloudflare

MCWindow == [p \in {resend} |-> 1]
MCTTL    == [p \in {resend} |-> 2]

\* Both providers are configured in every deployment; OUTBOUND_PROVIDER differs.
Deployment(p) == [active |-> p, configured |-> {resend, cloudflare}]

AllDeployments == {Deployment(resend), Deployment(cloudflare)}

\* A deployment that sends nothing and one that has lost its Resend key.
Deployments ==
  {Deployment(resend), Deployment(None), [active |-> cloudflare, configured |-> {cloudflare}]}
=============================================================================
