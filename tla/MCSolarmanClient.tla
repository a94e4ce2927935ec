---------------------------- MODULE MCSolarmanClient ----------------------------
(* Small instances of SolarmanClient for TLC. *)
EXTENDS SolarmanClient, TLC

\* Sockets and tasks are interchangeable (safety runs only).
Interchangeable == Permutations(Conns) \cup Permutations(Tasks)
=============================================================================
