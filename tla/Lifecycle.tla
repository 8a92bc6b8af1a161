------------------------------ MODULE Lifecycle ------------------------------
(***************************************************************************)
(* Sessions, the message handler and the recording registry of the        *)
(* Record&Play plugin, as the Janus core drives them.                      *)
(*                                                                         *)
(* Threads: per handle h, the core's control thread (create_session,       *)
(* setup_media, hangup_media, destroy_session), a transport thread calling *)
(* handle_message, and the media thread calling incoming_rtp and          *)
(* slow_link; one plugin handler thread draining the message queue; a      *)
(* playout thread per setup_media of a non-recorder session.  The core     *)
(* calls init first and destroy last.                                      *)
(*                                                                         *)
(* A recording owns one recorder (session->arc; the video recorder         *)
(* session->vrc is created and closed at the same points and is left out). *)
(* Both are identified by the recording's id.  Payloads (SDP, names,       *)
(* files, JSON) are abstracted away: a request is its kind.                *)
(***************************************************************************)
EXTENDS Integers, Sequences, SequencesExt, FiniteSets

CONSTANTS
  Handles,       \* janus_plugin_session handles the core creates
  RecIds,        \* ids janus_random_uint64 may return
  NoRec,         \* NULL recording / recorder
  Requests,      \* queued requests clients may send
  MaxMsgs,       \* handle_message calls per handle
  MaxSetups,     \* PeerConnections set up per handle
  LateMessages   \* whether handle_message may run after destroy_session

ASSUME NoRec \notin RecIds
ASSUME Requests \subseteq {"record", "play", "start", "stop", "record-generate-offer",
                           "record-process-answer"}

Free   == "free"     \* an unlocked mutex
Leaked == "leaked"   \* a mutex left locked by a call that has returned

VARIABLES
  core,       \* the core's view of each handle: st, pcup, setups, msgs
  sessions,   \* handles in the sessions hash table
  sess,       \* janus_auviousrecordplay_session of each handle
  recs,       \* janus_auviousrecordplay_recording of each id
  registry,   \* ids in the recordings hash table
  queue,      \* the messages GAsyncQueue
  smutex,     \* sessions_mutex holder (recordings_mutex is only ever held
              \* within one step, so it is not a variable)
  ctl,        \* control thread of each handle: pc
  msgt,       \* transport thread of each handle: pc
  handler,    \* handler thread: pc, msg
  hang,       \* a hangup_media_internal in progress (under sessions_mutex)
  rtp,        \* media thread of each handle: pc, ptr
  pl,         \* playout thread started by each setup of each handle: pc, ptr
  qry,        \* the core's query_session call on each handle: pc, ptr
  plugin      \* "uninit" until janus_auviousrecordplay_init; "running" once
              \* it has succeeded and "failed" if it returned -1; "stopping"
              \* once janus_auviousrecordplay_destroy has set stopping;
              \* "destroyed" when it has returned

vars == <<core, sessions, sess, recs, registry, queue, smutex, ctl, msgt,
          handler, hang, rtp, pl, qry, plugin>>

NoHang == [h |-> "none", then |-> "none", rec |-> NoRec]
NoMsg  == [h |-> "none", req |-> "none"]
Idle   == [pc |-> "idle", msg |-> NoMsg]
ExitMsg == [h |-> "exit", req |-> "exit"]   \* &exit_message

-----------------------------------------------------------------------------
(* Reference counts.                                                       *)

\* janus_refcount_decrease on a session: the last one frees it.
SessDec(s, n) ==
  [s EXCEPT !.ref = @ - n, !.st = IF s.ref = n THEN "freed" ELSE @]

\* janus_refcount_decrease on a recording.
RecDec(r, n) ==
  [r EXCEPT !.ref = @ - n, !.st = IF r.ref = n THEN "freed" ELSE @]

\* janus_auviousrecordplay_recording_destroy, run by the hash table when
\* the recording is removed.
RecDestroy(r) ==
  IF r.destroyed THEN r ELSE RecDec([r EXCEPT !.destroyed = TRUE], 1)

-----------------------------------------------------------------------------
(* Core callbacks on the control thread.                                   *)

CreateSession(h) ==
  /\ core[h].st = "new" /\ smutex = Free
  /\ sess' = [sess EXCEPT ![h] = [st |-> "live", ref |-> 1, destroyed |-> FALSE,
                hangingup |-> FALSE, active |-> FALSE, recorder |-> FALSE,
                recording |-> NoRec, arc |-> NoRec]]
  /\ sessions' = sessions \cup {h}
  /\ core' = [core EXCEPT ![h].st = "created"]
  /\ UNCHANGED <<recs, registry, queue, smutex, ctl, msgt, handler, hang, rtp, pl, qry, plugin>>

\* Lookup under sessions_mutex and take a reference.
SetupMedia(h) ==
  /\ core[h].st = "created" /\ ~core[h].pcup /\ core[h].setups < MaxSetups
  /\ ctl[h] = "idle" /\ smutex = Free
  /\ core' = [core EXCEPT ![h].pcup = TRUE, ![h].setups = @ + 1]
  /\ IF h \in sessions /\ ~sess[h].destroyed
       THEN /\ sess' = [sess EXCEPT ![h].ref = @ + 1]
            /\ ctl' = [ctl EXCEPT ![h] = "setup"]
       ELSE UNCHANGED <<sess, ctl, pl, qry, plugin>>
  /\ UNCHANGED <<sessions, recs, registry, queue, smutex, msgt, handler, hang, rtp, pl, qry, plugin>>

\* Outside the lock: mark the session active and start a playout thread
\* (handing it the reference) unless it is a recorder, in which case the
\* reference is dropped; so it is when the thread cannot be started.
SetupBody(h) ==
  /\ ctl[h] = "setup"
  /\ IF sess[h].recorder
       THEN /\ sess' = [sess EXCEPT ![h] = SessDec([@ EXCEPT !.hangingup = FALSE, !.active = TRUE], 1)]
            /\ UNCHANGED pl
       ELSE \/ /\ sess' = [sess EXCEPT ![h].hangingup = FALSE, ![h].active = TRUE]
               /\ pl' = [pl EXCEPT ![h][core[h].setups] = [pc |-> "start", ptr |-> NoRec]]
            \* g_thread_try_new fails: the thread's reference is dropped and
            \* close_pc asks the core to hang up, which it may do later.
            \/ /\ sess' = [sess EXCEPT ![h] = SessDec([@ EXCEPT !.hangingup = FALSE, !.active = TRUE], 1)]
               /\ UNCHANGED pl
  /\ ctl' = [ctl EXCEPT ![h] = "idle"]
  /\ UNCHANGED <<core, sessions, recs, registry, queue, smutex, msgt, handler, hang, rtp, qry, plugin>>

\* Fault variant: the check runs again on a thread that has already exited.
PlayoutCheck_NoGuard(h, k) ==
  /\ pl[h][k].pc # "none"
  /\ IF sess[h].recording = NoRec
       THEN /\ sess' = [sess EXCEPT ![h] = SessDec(@, 1)]
            /\ pl' = [pl EXCEPT ![h][k].pc = "done"]
       ELSE /\ pl' = [pl EXCEPT ![h][k] = [pc |-> "got", ptr |-> sess[h].recording]]
            /\ UNCHANGED sess
  /\ UNCHANGED <<core, sessions, recs, registry, queue, smutex, ctl, msgt, handler, hang, rtp, qry, plugin>>

\* The playout thread's first check, with no lock: without a recording it
\* drops its reference and returns; otherwise it loads session->recording.
PlayoutCheck(h, k) ==
  /\ pl[h][k].pc = "start"
  /\ IF sess[h].recording = NoRec
       THEN /\ sess' = [sess EXCEPT ![h] = SessDec(@, 1)]
            /\ pl' = [pl EXCEPT ![h][k].pc = "done"]
       ELSE /\ pl' = [pl EXCEPT ![h][k] = [pc |-> "got", ptr |-> sess[h].recording]]
            /\ UNCHANGED sess
  /\ UNCHANGED <<core, sessions, recs, registry, queue, smutex, ctl, msgt, handler, hang, rtp, qry, plugin>>

\* Fault variant: the thread returns without dropping the session's reference.
PlayoutRef_NoRelease(h, k) ==
  /\ pl[h][k].pc = "got"
  /\ pl' = [pl EXCEPT ![h][k] = [pc |-> "done", ptr |-> NoRec]]
  /\ UNCHANGED <<core, sessions, sess, recs, registry, queue, smutex, ctl, msgt, handler, hang, rtp, qry, plugin>>

\* It takes a reference on the recording it loaded, finds the session is a
\* recorder (a session has a recording only by recording: play never
\* succeeds), drops both references and returns.
PlayoutRef(h, k) ==
  /\ pl[h][k].pc = "got"
  /\ sess' = [sess EXCEPT ![h] = SessDec(@, 1)]
  /\ pl' = [pl EXCEPT ![h][k] = [pc |-> "done", ptr |-> NoRec]]
  /\ UNCHANGED <<core, sessions, recs, registry, queue, smutex, ctl, msgt, handler, hang, rtp, qry, plugin>>

-----------------------------------------------------------------------------
(* janus_auviousrecordplay_query_session, called by the core's admin API.  *)

\* Lookup and reference under sessions_mutex (a handle without a session
\* returns at once, changing nothing).
QueryLookup(h) ==
  /\ qry[h].pc = "idle" /\ smutex = Free
  /\ core[h].st = "created" /\ h \in sessions
  /\ sess' = [sess EXCEPT ![h].ref = @ + 1]
  /\ qry' = [qry EXCEPT ![h].pc = "read"]
  /\ UNCHANGED <<core, sessions, recs, registry, queue, smutex, ctl, msgt, handler, hang, rtp, pl, plugin>>

\* With the lock released: read session->recording.
QueryRead(h) ==
  /\ qry[h].pc = "read"
  /\ IF sess[h].recording = NoRec
       THEN /\ sess' = [sess EXCEPT ![h] = SessDec(@, 1)]
            /\ qry' = [qry EXCEPT ![h].pc = "idle"]
       ELSE /\ qry' = [qry EXCEPT ![h] = [pc |-> "got", ptr |-> sess[h].recording]]
            /\ UNCHANGED sess
  /\ UNCHANGED <<core, sessions, recs, registry, queue, smutex, ctl, msgt, handler, hang, rtp, pl, plugin>>

\* Take and drop a reference on the recording loaded, read its id and
\* name, drop the session's reference and return.
QueryRef(h) ==
  /\ qry[h].pc = "got"
  /\ sess' = [sess EXCEPT ![h] = SessDec(@, 1)]
  /\ qry' = [qry EXCEPT ![h] = [pc |-> "idle", ptr |-> NoRec]]
  /\ UNCHANGED <<core, sessions, recs, registry, queue, smutex, ctl, msgt, handler, hang, rtp, pl, plugin>>

-----------------------------------------------------------------------------
(* janus_auviousrecordplay_hangup_media_internal, always entered with      *)
(* sessions_mutex held: from hangup_media (then = "hangup"), from          *)
(* destroy_session (then = "destroy") and from the handler's "stop"        *)
(* (then = "stop").                                                        *)

Finish(h, then, s) ==
  /\ sess' = [sess EXCEPT ![h] = CASE then = "destroy" -> SessDec([s EXCEPT !.destroyed = TRUE], 1)
                                   [] then = "stop"    -> SessDec(s, 1)
                                   [] OTHER            -> s]
  /\ sessions' = IF then = "destroy" THEN sessions \ {h} ELSE sessions
  /\ handler' = IF then = "stop" THEN Idle ELSE handler

\* Lock, return at once if the plugin is stopping, look the session up,
\* clear active, return early if destroyed or
\* already hanging up; else close and destroy the recorders and, if the
\* session has a recording, go on to remove it still holding the lock.
HangupEnter(t, h, then) ==
  LET found == plugin = "running" /\ h \in sessions
      s1    == [sess[h] EXCEPT !.active = FALSE]
      go    == found /\ ~sess[h].destroyed /\ ~sess[h].hangingup
      s2    == [s1 EXCEPT !.hangingup = TRUE, !.arc = NoRec]
  IN  /\ smutex = Free
      /\ recs' = IF go /\ sess[h].arc # NoRec
                   THEN [recs EXCEPT ![sess[h].arc].rc = "freed"] ELSE recs
      /\ IF go /\ sess[h].recording # NoRec
           THEN /\ hang' = [h |-> h, then |-> then, rec |-> sess[h].recording]
                /\ smutex' = t
                /\ sess' = [sess EXCEPT ![h] = s2]
                /\ handler' = IF then = "stop" THEN [handler EXCEPT !.pc = "stopping"] ELSE handler
                /\ UNCHANGED sessions
           ELSE /\ Finish(h, then, IF go THEN s2 ELSE IF found THEN s1 ELSE sess[h])
                /\ UNCHANGED <<hang, smutex, pl, qry, plugin>>

\* Fault variant: sessions_mutex is not released when the hangup returns.
HangupRemove_NoUnlock ==
  /\ hang # NoHang
  /\ LET h  == hang.h
         r  == hang.rec
         r1 == IF r \in registry THEN RecDestroy(recs[r]) ELSE recs[r]
     IN  /\ registry' = registry \ {r}
         /\ recs' = [recs EXCEPT ![r] = RecDec(r1, 1)]
         /\ Finish(h, hang.then, [sess[h] EXCEPT !.recording = NoRec])
  /\ hang' = NoHang /\ smutex' = Leaked
  /\ UNCHANGED <<core, queue, ctl, msgt, rtp, pl, qry, plugin>>

\* recordings_remove under recordings_mutex (the table's destroy function
\* marks the recording destroyed and drops the table's reference), then the
\* session's reference is dropped, session->recording cleared and
\* sessions_mutex released.
HangupRemove ==
  /\ hang # NoHang
  /\ LET h  == hang.h
         r  == hang.rec
         r1 == IF r \in registry THEN RecDestroy(recs[r]) ELSE recs[r]
     IN  /\ registry' = registry \ {r}
         /\ recs' = [recs EXCEPT ![r] = RecDec(r1, 1)]
         /\ Finish(h, hang.then, [sess[h] EXCEPT !.recording = NoRec])
  /\ hang' = NoHang /\ smutex' = Free
  /\ UNCHANGED <<core, queue, ctl, msgt, rtp, pl, qry, plugin>>

HangupMedia(h) ==
  /\ core[h].st = "created" /\ core[h].pcup /\ ctl[h] = "idle"
  /\ core' = [core EXCEPT ![h].pcup = FALSE]
  /\ HangupEnter(<<"ctl", h>>, h, "hangup")
  /\ UNCHANGED <<registry, queue, ctl, msgt, rtp, pl, qry, plugin>>

\* destroy_session: its own lookup always succeeds for a handle the core has
\* not destroyed yet.
DestroySession(h) ==
  /\ core[h].st = "created" /\ ctl[h] = "idle"
  /\ core' = [core EXCEPT ![h].st = "destroyed"]
  /\ HangupEnter(<<"ctl", h>>, h, "destroy")
  /\ UNCHANGED <<registry, queue, ctl, msgt, rtp, pl, qry, plugin>>

-----------------------------------------------------------------------------
(* handle_message on a transport thread.                                   *)

\* Lock and look the session up.  Without a session the function jumps to
\* plugin_response, which returns without unlocking sessions_mutex.
HMLookup(h) ==
  /\ msgt[h] = "idle" /\ core[h].msgs < MaxMsgs /\ smutex = Free
  /\ \/ core[h].st = "created"
     \/ LateMessages /\ core[h].st = "destroyed"
  /\ core' = [core EXCEPT ![h].msgs = @ + 1]
  /\ IF h \in sessions
       THEN /\ sess' = [sess EXCEPT ![h].ref = @ + 1]
            /\ msgt' = [msgt EXCEPT ![h] = "check"]
            /\ UNCHANGED smutex
       ELSE /\ smutex' = Leaked
            /\ UNCHANGED <<sess, msgt, pl, qry, plugin>>
  /\ UNCHANGED <<sessions, recs, registry, queue, ctl, handler, hang, rtp, pl, qry, plugin>>

\* After unlocking: a destroyed session, a synchronous request ("list",
\* "update", "configure") or an invalid one is answered at plugin_response,
\* which drops the reference; an asynchronous request is queued, and the
\* message keeps the reference.
HMDispatch(h) ==
  /\ msgt[h] = "check"
  /\ \/ /\ sess' = [sess EXCEPT ![h] = SessDec(@, 1)]
        /\ UNCHANGED queue
     \/ /\ ~sess[h].destroyed
        /\ \E req \in Requests : queue' = Append(queue, [h |-> h, req |-> req])
        /\ UNCHANGED sess
  /\ msgt' = [msgt EXCEPT ![h] = "idle"]
  /\ UNCHANGED <<core, sessions, recs, registry, smutex, ctl, handler, hang, rtp, pl, qry, plugin>>

-----------------------------------------------------------------------------
(* The handler thread.                                                     *)

\* Pop a message; under sessions_mutex drop it (message_free releases its
\* reference) if its session is gone or destroyed.
\* The loop condition: the handler goes on to g_async_queue_pop while the
\* plugin is initialized and not stopping, and leaves the loop otherwise.
HandlerLoop ==
  /\ handler.pc = "idle"
  /\ handler' = [handler EXCEPT !.pc = IF plugin = "running" THEN "pop" ELSE "exited"]
  /\ UNCHANGED <<core, sessions, sess, recs, registry, queue, smutex, ctl, msgt, hang, rtp, pl, qry, plugin>>

\* Popping &exit_message ends the loop.
HandlerPopExit ==
  /\ handler.pc = "pop" /\ queue # <<>> /\ Head(queue) = ExitMsg
  /\ queue' = Tail(queue)
  /\ handler' = [handler EXCEPT !.pc = "exited"]
  /\ UNCHANGED <<core, sessions, sess, recs, registry, smutex, ctl, msgt, hang, rtp, pl, qry, plugin>>

HandlerPop ==
  /\ handler.pc = "pop" /\ queue # <<>> /\ Head(queue) # ExitMsg /\ smutex = Free
  /\ queue' = Tail(queue)
  /\ LET m == Head(queue) IN
       IF m.h \in sessions /\ ~sess[m.h].destroyed
         THEN /\ handler' = [pc |-> "proc", msg |-> m]
              /\ UNCHANGED sess
         ELSE /\ sess' = [sess EXCEPT ![m.h] = SessDec(@, 1)]
              /\ handler' = Idle
  /\ UNCHANGED <<core, sessions, recs, registry, smutex, ctl, msgt, hang, rtp, pl, qry, plugin>>

\* A new recording for the handler's session: under recordings_mutex pick
\* an unused id, create the recording (one reference for the table, one
\* for the recording session), open the recorder, make the session its
\* recorder and insert it; then reply and free the message.  clear says
\* whether the reply carries a JSEP, which clears hangingup.
NewRecording(clear) ==
  /\ \E r \in RecIds : recs[r].st = "none"
  /\ LET h == handler.msg.h
         r == CHOOSE r \in RecIds : recs[r].st = "none"
     IN  /\ recs' = [recs EXCEPT ![r] = [st |-> "live", ref |-> 2, destroyed |-> FALSE, rc |-> "open"]]
         /\ registry' = registry \cup {r}
         /\ sess' = [sess EXCEPT ![h] =
                       SessDec([@ EXCEPT !.recorder = TRUE, !.recording = r, !.arc = r,
                                  !.hangingup = IF clear THEN FALSE ELSE @], 1)]
  /\ handler' = Idle
  /\ UNCHANGED <<core, sessions, queue, smutex, ctl, msgt, hang, rtp, pl, qry, plugin>>

\* "record" with an SDP offer: a new recording, answered with a JSEP.
HandlerRecord ==
  /\ handler.pc = "proc" /\ handler.msg.req = "record"
  /\ NewRecording(TRUE)

\* "record-process-answer" with an SDP answer to the plugin's offer: a new
\* recording, acknowledged without a JSEP.
HandlerProcessAnswer ==
  /\ handler.pc = "proc" /\ handler.msg.req = "record-process-answer"
  /\ NewRecording(FALSE)

\* "record-generate-offer": reply with an offer (a JSEP, so hangingup is
\* cleared) and free the message.
HandlerGenOffer ==
  /\ handler.pc = "proc" /\ handler.msg.req = "record-generate-offer"
  /\ sess' = [sess EXCEPT ![handler.msg.h] = SessDec([@ EXCEPT !.hangingup = FALSE], 1)]
  /\ handler' = Idle
  /\ UNCHANGED <<core, sessions, recs, registry, queue, smutex, ctl, msgt, hang, rtp, pl, qry, plugin>>

\* "record" or "record-process-answer" with "update": a renegotiation of
\* the current recording, which replies with a JSEP (clearing hangingup)
\* and frees the message.
HandlerRecordUpdate ==
  /\ handler.pc = "proc" /\ handler.msg.req \in {"record", "record-process-answer"}
  /\ sess[handler.msg.h].recorder /\ sess[handler.msg.h].recording # NoRec
  /\ sess' = [sess EXCEPT ![handler.msg.h] = SessDec([@ EXCEPT !.hangingup = FALSE], 1)]
  /\ handler' = Idle
  /\ UNCHANGED <<core, sessions, recs, registry, queue, smutex, ctl, msgt, hang, rtp, pl, qry, plugin>>

\* Fault variant: the error path replies without freeing the message.
HandlerReject_NoFree ==
  /\ handler.pc = "proc"
  /\ handler' = Idle
  /\ UNCHANGED <<core, sessions, sess, recs, registry, queue, smutex, ctl, msgt, hang, rtp, pl, qry, plugin>>

\* A request that fails validation (missing or unparsable SDP, bad fields,
\* an id already in use) and every "play" and "start": no recording ever
\* has an offer (generate_offer is never called), so "play" ends at "No
\* such recording" after taking and dropping the recording's reference, and
\* "start" finds no frames.  The error label replies and frees the message.
HandlerReject ==
  /\ handler.pc = "proc"
  /\ sess' = [sess EXCEPT ![handler.msg.h] = SessDec(@, 1)]
  /\ handler' = Idle
  /\ UNCHANGED <<core, sessions, recs, registry, queue, smutex, ctl, msgt, hang, rtp, pl, qry, plugin>>

\* "stop": hangup_media on the handler thread, then free the message.
HandlerStop ==
  /\ handler.pc = "proc" /\ handler.msg.req = "stop"
  /\ HangupEnter("handler", handler.msg.h, "stop")
  /\ UNCHANGED <<core, registry, queue, ctl, msgt, rtp, pl, qry, plugin>>

-----------------------------------------------------------------------------
(* incoming_rtp on the media thread, while the PeerConnection is up: it    *)
(* reads session->arc without rec_mutex and writes the frame to it.        *)

RtpRead(h) ==
  /\ rtp[h].pc = "idle" /\ core[h].pcup /\ core[h].st = "created"
  /\ sess[h].st = "live" /\ ~sess[h].destroyed /\ sess[h].recorder
  /\ rtp' = [rtp EXCEPT ![h] = [pc |-> "save", ptr |-> sess[h].arc]]
  /\ UNCHANGED <<core, sessions, sess, recs, registry, queue, smutex, ctl, msgt, handler, hang, pl, qry, plugin>>

RtpSave(h) ==
  /\ rtp[h].pc = "save"
  /\ rtp' = [rtp EXCEPT ![h] = [pc |-> "idle", ptr |-> NoRec]]
  /\ UNCHANGED <<core, sessions, sess, recs, registry, queue, smutex, ctl, msgt, handler, hang, pl, qry, plugin>>

\* slow_link, on the same thread: under sessions_mutex look the session up
\* and take a reference unless it is gone or destroyed (then it returns,
\* changing nothing).
SlowLinkLookup(h) ==
  /\ rtp[h].pc = "idle" /\ smutex = Free /\ core[h].pcup /\ core[h].st = "created"
  /\ h \in sessions /\ ~sess[h].destroyed
  /\ sess' = [sess EXCEPT ![h].ref = @ + 1]
  /\ rtp' = [rtp EXCEPT ![h].pc = "slow"]
  /\ UNCHANGED <<core, sessions, recs, registry, queue, smutex, ctl, msgt, handler, hang, pl, qry, plugin>>

\* With the lock released: push the slow_link event, drop the reference.
SlowLinkDone(h) ==
  /\ rtp[h].pc = "slow"
  /\ sess' = [sess EXCEPT ![h] = SessDec(@, 1)]
  /\ rtp' = [rtp EXCEPT ![h].pc = "idle"]
  /\ UNCHANGED <<core, sessions, recs, registry, queue, smutex, ctl, msgt, handler, hang, pl, qry, plugin>>

-----------------------------------------------------------------------------
\* janus_auviousrecordplay_init, which the core calls once, before any other
\* call.  It returns -1 when no recordings path is configured or the folder
\* cannot be created, and when the handler thread cannot be started: then
\* initialized is reset and the tables it created are left allocated.  Only
\* a 0 return lets the core use the plugin; otherwise it is never called
\* again.  On success the tables and the queue are empty and the handler
\* thread is at the top of its loop.
PluginInit ==
  /\ plugin = "uninit"
  /\ \/ plugin' = "running" /\ handler' = Idle
     \/ plugin' = "failed" /\ UNCHANGED handler
  /\ UNCHANGED <<core, sessions, sess, recs, registry, queue, smutex, ctl, msgt, hang, rtp, pl, qry>>

-----------------------------------------------------------------------------
(* janus_auviousrecordplay_destroy, called by the core at shutdown, when   *)
(* it makes no other call into the plugin: no callback is in progress.     *)

\* Fault variant: stopping is set but exit_message is not pushed.
PluginStop_NoExitMessage ==
  /\ plugin = "running"
  /\ \A h \in Handles : ctl[h] = "idle" /\ msgt[h] = "idle" /\ qry[h].pc = "idle"
       /\ rtp[h].pc = "idle"
  /\ (hang = NoHang \/ hang.then = "stop")
  /\ plugin' = "stopping"
  /\ UNCHANGED <<core, sessions, sess, recs, registry, queue, smutex, ctl, msgt, handler, hang, rtp, pl, qry>>

\* Set stopping and push exit_message for the handler.
PluginStop ==
  /\ plugin = "running"
  /\ \A h \in Handles : ctl[h] = "idle" /\ msgt[h] = "idle" /\ qry[h].pc = "idle"
       /\ rtp[h].pc = "idle"
  /\ (hang = NoHang \/ hang.then = "stop")
  /\ plugin' = "stopping"
  /\ queue' = Append(queue, ExitMsg)
  /\ UNCHANGED <<core, sessions, sess, recs, registry, smutex, ctl, msgt, handler, hang, rtp, pl, qry>>

\* Messages still queued for h.
QueuedFor(h) == Cardinality({i \in DOMAIN queue : queue[i].h = h})

\* Once the handler is joined: under sessions_mutex destroy the sessions
\* table (session_destroy marks each session destroyed and drops the
\* table's reference) and the recordings table (recording_destroy), then
\* unref the queue, whose message_free drops each remaining message's
\* reference.  Recorders are not closed and sessions keep their recording.
PluginFinish ==
  /\ plugin = "stopping" /\ handler.pc = "exited" /\ smutex = Free
  /\ LET n(h) == (IF h \in sessions THEN 1 ELSE 0) + QueuedFor(h)
         s(h) == IF h \in sessions THEN [sess[h] EXCEPT !.destroyed = TRUE] ELSE sess[h]
     IN  sess' = [h \in Handles |-> IF n(h) > 0 THEN SessDec(s(h), n(h)) ELSE sess[h]]
  /\ recs' = [r \in RecIds |-> IF r \in registry THEN RecDestroy(recs[r]) ELSE recs[r]]
  /\ sessions' = {} /\ registry' = {} /\ queue' = <<>>
  /\ plugin' = "destroyed"
  /\ UNCHANGED <<core, smutex, ctl, msgt, handler, hang, rtp, pl, qry>>

-----------------------------------------------------------------------------
Init ==
  /\ core = [h \in Handles |-> [st |-> "new", pcup |-> FALSE, setups |-> 0, msgs |-> 0]]
  /\ sessions = {}
  /\ sess = [h \in Handles |-> [st |-> "none", ref |-> 0, destroyed |-> FALSE,
                hangingup |-> FALSE, active |-> FALSE, recorder |-> FALSE,
                recording |-> NoRec, arc |-> NoRec]]
  /\ recs = [r \in RecIds |-> [st |-> "none", ref |-> 0, destroyed |-> FALSE, rc |-> "none"]]
  /\ registry = {}
  /\ queue = <<>>
  /\ smutex = Free
  /\ ctl = [h \in Handles |-> "idle"]
  /\ msgt = [h \in Handles |-> "idle"]
  /\ handler = [Idle EXCEPT !.pc = "none"]
  /\ hang = NoHang
  /\ rtp = [h \in Handles |-> [pc |-> "idle", ptr |-> NoRec]]
  /\ pl = [h \in Handles |-> [k \in 1..MaxSetups |-> [pc |-> "none", ptr |-> NoRec]]]
  /\ qry = [h \in Handles |-> [pc |-> "idle", ptr |-> NoRec]]
  /\ plugin = "uninit"

\* What the core does: its callbacks, each of which returns at once once
\* stopping is set; init at start and, at shutdown,
\* janus_auviousrecordplay_destroy.
Core ==
  \/ PluginInit \/ PluginStop
  \/ plugin = "running" /\ \E h \in Handles :
       \/ CreateSession(h) \/ SetupMedia(h) \/ HangupMedia(h) \/ DestroySession(h)
       \/ HMLookup(h) \/ RtpRead(h) \/ SlowLinkLookup(h) \/ QueryLookup(h)

\* What the plugin's threads do once called or started.
HandlerStep ==
  \/ HandlerLoop \/ HandlerPopExit \/ HandlerPop \/ HandlerRecord \/ HandlerProcessAnswer \/ HandlerRecordUpdate
  \/ HandlerGenOffer
  \/ HandlerReject \/ HandlerStop

Plugin ==
  \/ HangupRemove \/ HandlerStep \/ PluginFinish
  \/ \E h \in Handles :
       \/ SetupBody(h) \/ HMDispatch(h) \/ RtpSave(h) \/ SlowLinkDone(h)
       \/ QueryRead(h) \/ QueryRef(h)
       \/ \E k \in 1..MaxSetups : PlayoutCheck(h, k) \/ PlayoutRef(h, k)

Next == Core \/ Plugin

\* Every thread is an OS thread that is scheduled: a call in progress
\* completes and the handler keeps draining the queue (weak fairness per
\* thread), and plugin destroy, once called, returns.  The core's calls,
\* and the arrival of media, need none.
Fairness ==
  /\ WF_vars(HandlerStep) /\ WF_vars(HangupRemove) /\ WF_vars(PluginFinish)
  /\ \A h \in Handles :
       /\ WF_vars(SetupBody(h)) /\ WF_vars(HMDispatch(h)) /\ WF_vars(RtpSave(h))
       /\ WF_vars(SlowLinkDone(h))
       /\ WF_vars(QueryRead(h)) /\ WF_vars(QueryRef(h))
       /\ \A k \in 1..MaxSetups : WF_vars(PlayoutCheck(h, k)) /\ WF_vars(PlayoutRef(h, k))

Spec == Init /\ [][Next]_vars /\ Fairness
-----------------------------------------------------------------------------
\* Who holds a reference to the session of h: the sessions table, each
\* queued message, the message the handler is processing, a handle_message
\* call between its lookup and its reply, a setup_media call, a
\* query_session or slow_link call, and each playout thread that has not
\* returned.
Holders(h) ==
  (IF h \in sessions THEN 1 ELSE 0)
  + Cardinality({i \in DOMAIN queue : queue[i].h = h})
  + (IF handler.pc # "idle" /\ handler.msg.h = h THEN 1 ELSE 0)
  + (IF msgt[h] = "check" THEN 1 ELSE 0)
  + (IF ctl[h] = "setup" THEN 1 ELSE 0)
  + (IF qry[h].pc # "idle" THEN 1 ELSE 0)
  + (IF rtp[h].pc = "slow" THEN 1 ELSE 0)
  + Cardinality({k \in 1..MaxSetups : pl[h][k].pc \in {"start", "got"}})

TypeOK ==
  /\ sessions \subseteq Handles /\ registry \subseteq RecIds
  /\ \A h \in Handles :
       /\ sess[h].st \in {"none", "live", "freed"} /\ sess[h].ref \in Nat
       /\ sess[h].recording \in RecIds \cup {NoRec} /\ sess[h].arc \in RecIds \cup {NoRec}
       /\ ctl[h] \in {"idle", "setup"} /\ msgt[h] \in {"idle", "check"}
       /\ rtp[h].pc \in {"idle", "save", "slow"} /\ qry[h].pc \in {"idle", "read", "got"}
       /\ \A k \in 1..MaxSetups : pl[h][k].pc \in {"none", "start", "got", "done"}
  /\ \A r \in RecIds : recs[r].st \in {"none", "live", "freed"} /\ recs[r].ref \in Nat
  /\ handler.pc \in {"none", "idle", "pop", "proc", "stopping", "exited"}
  /\ \A i \in DOMAIN queue :
       queue[i] = ExitMsg \/ (queue[i].h \in Handles /\ queue[i].req \in Requests)
  /\ plugin \in {"uninit", "running", "failed", "stopping", "destroyed"}

\* The session reference count is exact: it always equals the number of
\* holders the code's janus_refcount_increase/decrease pairs stand for, so
\* a session is freed exactly when nobody can use it any more, and is never
\* freed twice (handle_message, the handler's message_free, setup_media,
\* the playout thread and destroy_session's table removal).
SessionRefExact ==
  \A h \in Handles : sess[h].st # "none" => sess[h].ref = Holders(h)

\* Every queued message is eventually handled: the handler thread keeps
\* popping while sessions_mutex is released by every path that takes it.
QueueDrains == queue # <<>> ~> queue = <<>>

\* A recording stays in the recordings table only while the live, not
\* destroyed session that recorded it still points to it: once a session
\* is destroyed its recording has been removed (hangup_media_internal).
RegistryOwned ==
  \A r \in registry : \E h \in Handles :
    sess[h].st = "live" /\ ~sess[h].destroyed /\ sess[h].recording = r

\* incoming_rtp only writes to an open recorder: the recorder it read from
\* session->arc is not closed and freed by a concurrent hangup before
\* janus_recorder_save_frame uses it.
RecorderAliveWhenSaved ==
  \A h \in Handles : rtp[h].pc = "save" /\ rtp[h].ptr # NoRec =>
    recs[rtp[h].ptr].rc = "open"

\* Every session the core destroys is eventually freed: each holder of a
\* reference (queued and in-process messages, handle_message, setup_media,
\* query_session and the playout threads) drops it, so the last
\* janus_refcount_decrease runs session_free.
SessionsFreed ==
  \A h \in Handles : core[h].st = "destroyed" ~> sess[h].st = "freed"

\* A reference is only taken on a live recording: query_session and the
\* playout thread load session->recording without sessions_mutex and then
\* increase its reference count; the recording they loaded is not freed by
\* then.
LoadedRecordingAlive ==
  /\ \A h \in Handles : qry[h].pc = "got" => recs[qry[h].ptr].st # "freed"
  /\ \A h \in Handles, k \in 1..MaxSetups :
       pl[h][k].pc = "got" => recs[pl[h][k].ptr].st # "freed"

\* Plugin destroy completes and releases every session: once stopping is
\* set the handler leaves its loop (on the flag or on exit_message) and is
\* joined, the tables and the queue are destroyed, and every session is
\* eventually freed as its remaining holders (playout threads) return.
ShutdownCompletes ==
  plugin = "stopping" ~> (plugin = "destroyed" /\ \A h \in Handles : sess[h].st # "live")

\* The plugin keeps the promise of ObjectLifecycle: every step of every
\* thread moves sessions only along their lifecycle, so no session is freed
\* before destroy_session (or the sessions table's destruction in plugin
\* destroy) has marked it destroyed, whichever holder drops the last
\* reference, and no session is marked destroyed twice or after it is freed.
Objects == INSTANCE ObjectLifecycle WITH
  alive     <- [h \in Handles |-> sess[h].st],
  destroyed <- [h \in Handles |-> sess[h].destroyed]

=============================================================================
