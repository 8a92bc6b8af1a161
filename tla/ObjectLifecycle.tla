--------------------------- MODULE ObjectLifecycle ---------------------------
(***************************************************************************)
(* What the Record&Play plugin promises about the lifecycle of its         *)
(* sessions, with reference counts, locks and threads left out.            *)
(*                                                                         *)
(* A session is created live, is marked destroyed at most once and only    *)
(* while live, and is freed only once it has been marked destroyed.  Any   *)
(* number of sessions may move in one step, as the plugin's destroy moves  *)
(* every session at once.                                                  *)
(*                                                                         *)
(* Recordings and recorders have no such promise here: the code frees a    *)
(* recording and closes a recorder while a session still points to them   *)
(* (hangup_media_internal clears session->recording and session->arc only  *)
(* after), and readers that take no lock can see them in that window.      *)
(***************************************************************************)
CONSTANTS Handles

VARIABLES
  alive,      \* per handle: "none", "live" or "freed"
  destroyed   \* per handle: session->destroyed

ovars == <<alive, destroyed>>

Init ==
  /\ alive = [h \in Handles |-> "none"]
  /\ destroyed = [h \in Handles |-> FALSE]

SessionStep(h) ==
  /\ alive'[h] # alive[h] =>
       \/ alive[h] = "none" /\ alive'[h] = "live"
       \/ alive[h] = "live" /\ alive'[h] = "freed" /\ destroyed'[h]
  /\ destroyed'[h] # destroyed[h] => ~destroyed[h] /\ alive[h] = "live"

Next == \A h \in Handles : SessionStep(h)

Spec == Init /\ [][Next]_ovars
=============================================================================
