----------------------------- MODULE MCMailSync -----------------------------
(* Instances of MailSync for TLC. *)
EXTENDS MailSync, TLC

CONSTANTS puller, refresh, \* syncers
          a, b,            \* messages
          seenFlag, noFlag \* sets of flags

\* One message is there before the first sync.
OneMessage == <<[name |-> a, flags |-> noFlag]>>

=============================================================================
