-------------------------- MODULE MCRunnerMailbox --------------------------
(* Small instances of the mailbox system for TLC.                          *)
EXTENDS RunnerMailbox, TLC

CONSTANTS m1, m2

\* The second mailbox may be opened again after it was removed early.
SystemBindings ==
    {[mailbox |-> m1, claimDeadline |-> 1, deadline |-> 2, responseBytes |-> 2],
     [mailbox |-> m2, claimDeadline |-> 3, deadline |-> 4, responseBytes |-> 2]}

SystemTriples ==
    {[action |-> 1, claim |-> 2, collection |-> 3],
     [action |-> 4, claim |-> 5, collection |-> 6]}

Creds == 0..8
OneByte == [p \in Payload |-> 1]
=============================================================================
