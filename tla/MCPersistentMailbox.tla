------------------------ MODULE MCPersistentMailbox ------------------------
(* Two processes on one database with one mailbox, for TLC.                *)
EXTENDS PersistentMailbox, TLC

CONSTANTS m1

OneBinding ==
    {[mailbox |-> m1, claimDeadline |-> 2, deadline |-> 3, responseBytes |-> 2]}

OneTriple == {[action |-> 1, claim |-> 2, collection |-> 3]}

OneByte == [p \in Payload |-> 1]
=============================================================================
