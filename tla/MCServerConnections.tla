------------------------ MODULE MCServerConnections ------------------------
(* Interchangeable connections for model checking ServerConnections. *)
EXTENDS ServerConnections, TLC

Interchangeable == Permutations(Conns)
=============================================================================
