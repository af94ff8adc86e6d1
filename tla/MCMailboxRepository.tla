------------------------ MODULE MCMailboxRepository ------------------------
(* Small instances of the mailbox repository for TLC.                      *)
EXTENDS MailboxRepository, TLC

CONSTANTS m1, m2, p1, p2

\* Two mailboxes with different deadlines; the second outlives the first.
TwoBindings ==
    {[mailbox |-> m1, claimDeadline |-> 1, deadline |-> 2, responseBytes |-> 2],
     [mailbox |-> m2, claimDeadline |-> 2, deadline |-> 3, responseBytes |-> 3]}

Creds == 0..7

\* Two disjoint triples, and one that shares a digest with the first.
Triples ==
    {[action |-> 1, claim |-> 2, collection |-> 3],
     [action |-> 4, claim |-> 5, collection |-> 6],
     [action |-> 4, claim |-> 5, collection |-> 1]}

OneByte == [p \in Payload |-> 1]
TwoSizes == (p1 :> 1) @@ (p2 :> 2)
=============================================================================
