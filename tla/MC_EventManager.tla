--------------------------- MODULE MC_EventManager --------------------------
(* Instantiates EventManager for TLC.  MC_EventManager.cfg: one channel,   *)
(* two contexts, one buffer-able and one plain event name, a buffer of two *)
(* so that it overflows within MaxEvents = 3 occurrences.                  *)
(* MC_EventManager_channels.cfg: two channels and two contexts with only   *)
(* the buffer-able name, so that the per-channel #lastMessageSent keys are *)
(* told apart.  Channels and contexts are interchangeable model values.    *)
EXTENDS EventManager, TLC

MCSymmetry == Permutations(Channels) \cup Permutations(Contexts)
=============================================================================
