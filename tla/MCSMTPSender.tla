---------------------------- MODULE MCSMTPSender ----------------------------
\* Small instances of SMTPSender for TLC.
EXTENDS SMTPSender, TLC

CONSTANTS c1, c2, a1, a2

\* A message for two addresses and one for one of them.
MCRecipients == c1 :> {a1, a2} @@ c2 :> {a1}

=============================================================================
