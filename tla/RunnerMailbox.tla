---------------------------- MODULE RunnerMailbox ----------------------------
(***************************************************************************)
(* The mailbox in use (services/runner_mailbox/service.py over             *)
(* volatile.py): trusted core creates, offers, collects and acknowledges   *)
(* with the credentials it holds; connectors present only credentials they *)
(* were given; the maintenance role sweeps.  A claim may be committed and  *)
(* its answer lost (the AFTER_CLAIM_COMMIT crash point).                   *)
(***************************************************************************)
EXTENDS MailboxRepository

VARIABLES
    known,      \* digests of the credentials connectors have been given
    (* History, read by no operation:                                      *)
    delivered,  \* how often the present action of each mailbox reached a
                \* connector, key and result credential included
    ended       \* when the last removed record of each mailbox id finished

vars == <<records, tombstones, highWater, total, known, delivered, ended>>

SystemInit ==
    /\ Init
    /\ known = {}
    /\ delivered = [m \in Mailbox |-> 0]
    /\ ended = [m \in Mailbox |-> NoTime]

\* open_empty: core creates the mailbox with credentials of which connectors
\* hold none, and hands the claim credential to a connector.
OpenEmpty(b, t, now) ==
    /\ t.action \notin known /\ t.collection \notin known
    /\ Create(b, t, now)
    /\ known' = known \cup {t.claim}
    /\ delivered' = [delivered EXCEPT ![b.mailbox] = 0]
    /\ UNCHANGED ended

\* offer: the service issues the result credential at random, so it is none a
\* connector already has.
OfferAction(b, t, result, now) ==
    /\ result \notin known
    /\ Offer(b, t, result, now)
    /\ UNCHANGED <<known, delivered, ended>>

\* claim: the connector that wins learns the result credential, unless the
\* answer is lost.
ClaimAction(b, c, answered, now) ==
    LET m == b.mailbox
        won == records'[m].state = "CLAIMED_ONCE" /\ answered
    IN  /\ c \in known
        /\ Claim(b, c, now)
        /\ delivered' = [delivered EXCEPT ![m] = IF won THEN @ + 1 ELSE @]
        /\ known' = known \cup (IF won THEN {records[m].resultCredential}
                                       ELSE {})
        /\ UNCHANGED ended

\* stage_evidence and commit_result by whoever holds the credential.
WorkOnResult(b, c, now) ==
    /\ c \in known
    /\ \/ \E o \in Object, p \in Payload : StageEvidence(b, c, o, p, now)
       \/ \E seals \in EvidenceMap, size \in ResultBytes :
              CommitResult(b, c, seals, size, now)
    /\ UNCHANGED <<known, delivered, ended>>

\* collect, acknowledge_collection, abandon and snapshot by core, which holds
\* the collection credential of every mailbox it opened.
CoreAccess(m, now) ==
    /\ LET c == records[m].collect
       IN  \/ Collect(m, c, now)
           \/ AcknowledgeCollection(m, c, now)
           \/ Abandon(m, c, now)
           \/ Snapshot(m, c, now)
    /\ UNCHANGED <<known, delivered, ended>>

\* expire_due
ExpireDue(now) ==
    /\ Expire(Maintenance, now)
    /\ UNCHANGED <<known, delivered, ended>>

\* garbage_collect
Sweep(removed, now) ==
    /\ GarbageCollect(Maintenance, removed, now)
    /\ ended' = [m \in Mailbox |-> IF m \in removed THEN records[m].terminal
                                                   ELSE ended[m]]
    /\ UNCHANGED <<known, delivered>>

SystemNext ==
    \E now \in Time :
        \/ \E b \in Binding, t \in CredentialTriple : OpenEmpty(b, t, now)
        \/ \E b \in Binding, t \in CredentialTriple, result \in IssuedCredential :
               OfferAction(b, t, result, now)
        \/ \E b \in Binding, c \in known, answered \in BOOLEAN :
               ClaimAction(b, c, answered, now)
        \/ \E b \in Binding, c \in known : WorkOnResult(b, c, now)
        \/ \E m \in Mailbox : CoreAccess(m, now)
        \/ ExpireDue(now)
        \/ \E removed \in SUBSET Mailbox : Sweep(removed, now)

SystemSpec == SystemInit /\ [][SystemNext]_vars

-----------------------------------------------------------------------------
(* Correctness.                                                            *)

\* The action key and the result credential of an action reach a connector at
\* most once, however claims, lost answers, retries and expiries interleave.
DeliveredOnce == \A m \in Mailbox : delivered[m] <= 1

\* Evidence and results are only ever accepted for an action whose delivery
\* reached a connector.  When the answer to a claim was lost, nobody can
\* speak for the action any more: it can only expire or be abandoned.
ResultAuthority ==
    \A m \in Live :
        Staged(records[m]) # {} \/ records[m].state = "RESULT_COMMITTED"
            => delivered[m] = 1

\* A mailbox id is not used again before both the terminal retention of its
\* record and the full horizon of its tombstone have passed, however sweeps
\* fall and however full the tombstone table is.
ReplayHorizon ==
    \A m \in Live :
        ended[m] # NoTime =>
            records[m].created >= ended[m] + TerminalRetention + TombstoneRetention

=============================================================================
