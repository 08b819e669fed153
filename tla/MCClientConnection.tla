------------------------- MODULE MCClientConnection -------------------------
(* Interchangeable threads for model checking ClientConnection. *)
EXTENDS ClientConnection, TLC

Interchangeable == Permutations(Threads)
=============================================================================
