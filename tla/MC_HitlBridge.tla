---------------------------- MODULE MC_HitlBridge ----------------------------
(* Small instances of HitlBridge for TLC. *)
EXTENDS HitlBridge, TLC

\* Requests and tasks are interchangeable; safety runs only.
Symmetry == Permutations(Request) \cup Permutations(Task)
===============================================================================
