----------------------------- MODULE KeyRecords -----------------------------
(***************************************************************************)
(* The records that the key catalog, the key provider and the service      *)
(* between them pass to one another (application/keys.py).                 *)
(***************************************************************************)
EXTENDS Naturals, FiniteSets

CONSTANTS
    Key,            \* wrapping-key material
    Nonce,          \* the 12-byte nonces the system may draw
    Binding,        \* profile and key version
    Installation,   \* installations, with their catalog and sentinel identity
    None

\* WrappedReadinessSentinel and WrappedProfileKey: a ciphertext is the wrapping
\* key it authenticates under; format, suite and lengths are constants.
Sentinel == [install : Installation, nonce : Nonce, key : Key]

WrappedKey == [binding : Binding, nonce : Nonce, key : Key]

SourceStatus == {"readable", "unavailable", "unsafe", "corrupt"}

\* SecretFailureCode, as far as the model can meet it.
Code == {"ok", "unavailable", "unsafe_storage", "malformed_record", "catalog_key_mismatch",
         "readiness_required", "recovery_required", "provider_already_active",
         "usage_limit", "nonce_reuse"}
=============================================================================
