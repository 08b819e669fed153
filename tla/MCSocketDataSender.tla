------------------------ MODULE MCSocketDataSender ------------------------
(* SocketDataSender as TLC checks it: its bounds are in the .cfg files. *)
EXTENDS SocketDataSender
=============================================================================
