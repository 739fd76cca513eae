---------------------------- MODULE MCOperator ----------------------------
\* Two providers with a key and a webhook each, and receive-only.
EXTENDS OperatorTools

MCProviders == {"none", "resend", "brevo"}
MCKeys == {"pepper", "bootstrap", "resend_setup", "resend_key", "resend_hook", "brevo_key", "brevo_hook"}
MCRuntime == [p \in MCProviders |-> CASE p = "resend" -> {"resend_key", "resend_hook"}
                                      [] p = "brevo" -> {"brevo_key", "brevo_hook"}
                                      [] OTHER -> {}]
MCRequired == [p \in MCProviders |-> CASE p = "resend" -> {"resend_key"}
                                       [] p = "brevo" -> {"brevo_key"}
                                       [] OTHER -> {}]
MCWebhookKey == [p \in {"resend", "brevo"} |-> IF p = "resend" THEN "resend_hook" ELSE "brevo_hook"]
MCSetupKeys == [p \in {"resend", "brevo"} |-> IF p = "resend" THEN {"resend_setup"} ELSE {"brevo_key"}]
MCShells == {NoShell, [NoShell EXCEPT !["resend_key"] = 1]}
MCAbsent == {{"resend_key"}}
MCFound == {[d1 |-> "missing", r2 |-> "missing"], [d1 |-> "foreign", r2 |-> "missing"],
            [d1 |-> "missing", r2 |-> "foreign"]}
=============================================================================
