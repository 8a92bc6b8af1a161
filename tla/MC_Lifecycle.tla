---------------------------- MODULE MC_Lifecycle ----------------------------
(***************************************************************************)
(* Model-checking instance of Lifecycle: one handle, three recording ids   *)
(* (enough for every request a handle can send to get one), each request   *)
(* kind, three messages and two PeerConnections.                           *)
(***************************************************************************)
EXTENDS Lifecycle, TLC

MCRequests == {"record", "play", "start", "stop", "record-generate-offer",
               "record-process-answer"}
=============================================================================
