-------------------------- MODULE MCSQLiteRuntime --------------------------
(* Two runtimes with two threads each, for TLC.                            *)
EXTENDS SQLiteRuntime, TLC

\* Runtimes are interchangeable, and so are threads.
Interchangeable == Permutations(Runtime) \cup Permutations(Thread)
=============================================================================
