------------------------- MODULE MCDurableAuthStore -------------------------
(* Small instances of the durable store, for TLC.                          *)
EXTENDS DurableAuthStore

\* The purposes with a use of their own in the store.
Purposes == {"SETUP_AUTHORITY_CHANGE", "KEY_RECOVERY_CHANGE", "ALL_SESSION_REVOKE"}
=============================================================================
