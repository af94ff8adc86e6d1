---------------------------- MODULE MCAuthStore ----------------------------
(* Small instances of the decision store, for TLC.                         *)
EXTENDS AuthStore

\* The purposes with a use of their own in the store.
Purposes == {"SETUP_AUTHORITY_CHANGE", "KEY_RECOVERY_CHANGE", "ALL_SESSION_REVOKE"}
=============================================================================
