--------------------------- MODULE MCVoiceThreads ---------------------------
(* VoiceThreads with the modules and the holders that it has. *)
EXTENDS VoiceThreads

MCModules == VoiceModules
MCHolders == VoiceHolders
=============================================================================
