-------------------------- MODULE MC_CommandDispatch --------------------------
(* Small instances of CommandDispatch for TLC. *)
EXTENDS CommandDispatch, TLC

\* Tasks and threads are interchangeable; safety runs only.
Symmetry == Permutations(Task) \cup Permutations(Thread)

-----------------------------------------------------------------------------
(* What the run of the liveness checks. *)

\* A teardown ends, and so does an invocation that is aborted (dispatch_command).
DispatchEnds == TeardownEnds /\ AbortEndsInvocation
===============================================================================
