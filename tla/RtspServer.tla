------------------------------- MODULE RtspServer -------------------------------
(***************************************************************************)
(* GstRtspServer (gst_rtsp_server.cpp).  Three kinds of thread share its   *)
(* fields and no lock guards them: the main thread (start, stop), the      *)
(* threads of gst-rtsp-server (media_configure_callback,                   *)
(* media_unprepared_callback) and the thread that pushes frames.  Every    *)
(* read or write of a shared field is a step of its own.                   *)
(*                                                                         *)
(* One frame is pushed at a time: raw_data_callback holds cameras_mutex_.  *)
(* gst-rtsp-server is external: it configures one shared media at a time   *)
(* and frees its elements some time after the "unprepared" signal.         *)
(***************************************************************************)
EXTENDS Integers, Sequences

CONSTANTS
    MaxMedia,       \* bound: connections, one media each
    MaxTime,        \* bound: the camera's clock stops here
    Wrap            \* 2^64, or any number above MaxTime

ASSUME BoundAssumption ==
    /\ MaxMedia \in Nat
    /\ MaxTime \in Nat \ {0}
    /\ Wrap \in Nat
    /\ MaxTime < Wrap

Track == {"video", "audio"}
Media == 1..MaxMedia
Null == 0

VARIABLES
    running,        \* running_
    loop,           \* "null", "made", "running", "quit"
    serverThread,   \* "off", "attach", "make", "run", "in", "exit"
    stopping,       \* where stop() stands: "no", "quit", "join", "done"
    appsrc,         \* video_appsrc_, audio_appsrc_: the media they belong to
    first,          \* first_video_frame_, first_audio_frame_
    base,           \* video_base_timestamp_, audio_base_timestamp_
    push,           \* the push_video_frame or push_audio_frame under way
    media,          \* the last media configured, 0 before any
    mediaStep,      \* where its callback stands, 0 outside of one
    alive,          \* media whose elements are not freed
    clock,          \* the camera's clock
    sent,           \* for each track, what the session's client was sent
    overlapped      \* tracks a push of which overlapped the last "unprepared"

vars == <<running, loop, serverThread, stopping, appsrc, first, base, push, media,
          mediaStep, alive, clock, sent, overlapped>>
lifecycle == <<running, loop, serverThread, stopping>>
stream == <<appsrc, first, base>>
mediaVars == <<media, mediaStep, alive, overlapped>>

NoPush == [pc |-> "idle", track |-> "video", ts |-> 0, pts |-> 0, target |-> Null]
NothingSent == [first |-> -1, last |-> -1, sorted |-> TRUE]

\* media_configure_callback and media_unprepared_callback, step by step.
Script == <<
    [op |-> "set",   track |-> "video"], [op |-> "set",   track |-> "audio"],
    [op |-> "serve", track |-> "none"],
    [op |-> "first", track |-> "video"], [op |-> "first", track |-> "audio"],
    [op |-> "base",  track |-> "video"], [op |-> "base",  track |-> "audio"],
    [op |-> "clear", track |-> "video"], [op |-> "clear", track |-> "audio"] >>
Serve == 3
Unpreparing == mediaStep > Serve

TypeOK ==
    /\ running \in BOOLEAN
    /\ loop \in {"null", "made", "running", "quit"}
    /\ serverThread \in {"off", "attach", "make", "run", "in", "exit"}
    /\ stopping \in {"no", "quit", "join", "done"}
    /\ appsrc \in [Track -> Media \cup {Null}]
    /\ first \in [Track -> BOOLEAN]
    /\ base \in [Track -> 0..MaxTime]
    /\ push \in [pc : {"idle", "first", "base", "seen", "pts", "load", "emit"},
                 track : Track, ts : 0..MaxTime, pts : 0..(Wrap - 1),
                 target : Media \cup {Null}]
    /\ media \in 0..MaxMedia
    /\ mediaStep \in 0..Len(Script)
    /\ alive \subseteq Media
    /\ clock \in 1..MaxTime
    /\ sent \in [Track -> [first : -1..Wrap, last : -1..Wrap, sorted : BOOLEAN]]
    /\ overlapped \subseteq Track

Init ==
    /\ running = FALSE /\ loop = "null" /\ serverThread = "off" /\ stopping = "no"
    /\ appsrc = [t \in Track |-> Null]
    /\ first = [t \in Track |-> TRUE]
    /\ base = [t \in Track |-> 0]
    /\ push = NoPush
    /\ media = 0 /\ mediaStep = 0 /\ alive = {} /\ overlapped = {}
    /\ clock = 1
    /\ sent = [t \in Track |-> NothingSent]

--------------------------------------------------------------------------------
(* start(), the thread of the main loop, stop().                            *)

Start ==
    /\ ~running /\ stopping = "no"
    /\ running' = TRUE
    /\ serverThread' = "attach"
    /\ UNCHANGED <<loop, stopping, stream, push, mediaVars, clock, sent>>

ServerThread ==
    /\ \/ serverThread = "attach" /\ serverThread' = "make" /\ UNCHANGED loop
       \/ serverThread = "make" /\ serverThread' = "run" /\ loop' = "made"
       \* g_main_loop_run clears what an earlier g_main_loop_quit has set.
       \/ serverThread = "run" /\ serverThread' = "in" /\ loop' = "running"
       \/ serverThread = "in" /\ loop = "quit" /\ serverThread' = "exit" /\ UNCHANGED loop
    /\ UNCHANGED <<running, stopping, stream, push, mediaVars, clock, sent>>

StopBegins ==
    /\ running /\ stopping = "no"
    /\ running' = FALSE
    /\ stopping' = "quit"
    /\ UNCHANGED <<loop, serverThread, stream, push, mediaVars, clock, sent>>

\* if (loop_) g_main_loop_quit(loop_); the variant does not call it.
QuitMut == loop
Quit == IF loop = "null" THEN loop ELSE "quit"

StopQuits ==
    /\ stopping = "quit"
    /\ loop' = Quit
    /\ stopping' = "join"
    /\ UNCHANGED <<running, serverThread, stream, push, mediaVars, clock, sent>>

StopJoins ==
    /\ stopping = "join"
    /\ serverThread = "exit"
    /\ loop' = "null"
    /\ stopping' = "done"
    /\ UNCHANGED <<running, serverThread, stream, push, mediaVars, clock, sent>>

--------------------------------------------------------------------------------
(* The callbacks of gst-rtsp-server.                                        *)

\* A client connects and no media is there to share.
Connect ==
    /\ serverThread = "in" /\ loop = "running"
    /\ mediaStep = 0 /\ media < MaxMedia
    /\ media' = media + 1
    /\ mediaStep' = 1
    /\ alive' = alive \cup {media + 1}
    /\ UNCHANGED <<lifecycle, stream, push, clock, sent, overlapped>>

\* The last client has gone.
Disconnect ==
    /\ mediaStep = Serve
    /\ mediaStep' = Serve + 1
    /\ overlapped' = IF push.pc = "idle" THEN {} ELSE {push.track}
    /\ sent' = [t \in Track |-> NothingSent]
    /\ UNCHANGED <<lifecycle, stream, push, media, alive, clock>>

\* The variants leave the audio out, and do not wait for a first frame again.
ClearMut(t) == appsrc' = [appsrc EXCEPT !["video"] = Null]
Clear(t) == appsrc' = [appsrc EXCEPT ![t] = Null]

FirstAgainMut(t) == UNCHANGED first
FirstAgain(t) == first' = [first EXCEPT ![t] = TRUE]

\* One statement of either callback.
CallbackStep ==
    /\ mediaStep \notin {0, Serve}
    /\ LET s == Script[mediaStep] IN
        /\ IF s.op = "set" THEN appsrc' = [appsrc EXCEPT ![s.track] = media]
           ELSE IF s.op = "clear" THEN Clear(s.track) ELSE UNCHANGED appsrc
        /\ IF s.op = "first" THEN FirstAgain(s.track) ELSE UNCHANGED first
        /\ IF s.op = "base" THEN base' = [base EXCEPT ![s.track] = 0] ELSE UNCHANGED base
    /\ mediaStep' = IF mediaStep = Len(Script) THEN 0 ELSE mediaStep + 1
    /\ UNCHANGED <<lifecycle, push, media, alive, clock, sent, overlapped>>

\* The library drops the elements of a media that is unprepared.
FreeMedia(m) ==
    /\ m \in alive
    /\ m < media \/ mediaStep = 0
    /\ alive' = alive \ {m}
    /\ UNCHANGED <<lifecycle, stream, push, media, mediaStep, overlapped, clock, sent>>

--------------------------------------------------------------------------------
(* push_video_frame and push_audio_frame.                                   *)

At(l) == push.pc = l
k == push.track

\* The early return, or the frame goes on with the clock's time.
PushBegins(t) ==
    /\ At("idle")
    /\ running /\ appsrc[t] # Null
    /\ push' = [NoPush EXCEPT !.pc = "first", !.track = t, !.ts = clock]
    /\ overlapped' = IF Unpreparing THEN overlapped \cup {t} ELSE overlapped
    /\ UNCHANGED <<lifecycle, stream, media, mediaStep, alive, clock, sent>>

PushReadsFirst ==
    /\ At("first")
    /\ push' = [push EXCEPT !.pc = IF first[k] THEN "base" ELSE "pts"]
    /\ UNCHANGED <<lifecycle, stream, mediaVars, clock, sent>>

PushWritesBase ==
    /\ At("base")
    /\ base' = [base EXCEPT ![k] = push.ts]
    /\ push' = [push EXCEPT !.pc = "seen"]
    /\ UNCHANGED <<lifecycle, appsrc, first, mediaVars, clock, sent>>

PushWritesFirst ==
    /\ At("seen")
    /\ first' = [first EXCEPT ![k] = FALSE]
    /\ push' = [push EXCEPT !.pc = "pts"]
    /\ UNCHANGED <<lifecycle, appsrc, base, mediaVars, clock, sent>>

\* Unsigned subtraction (the factor GST_MSECOND is left out).
SinceMut(ts, b) == (b - ts) % Wrap      \* variant: the operands swapped
SinceSignedMut(ts, b) == b - ts         \* and signed
Since(ts, b) == (ts - b) % Wrap

PushStampsBuffer ==
    /\ At("pts")
    /\ push' = [push EXCEPT !.pts = Since(push.ts, base[k]), !.pc = "load"]
    /\ UNCHANGED <<lifecycle, stream, mediaVars, clock, sent>>

\* The argument of g_signal_emit_by_name is read again.
PushLoadsAppsrc ==
    /\ At("load")
    /\ push' = [push EXCEPT !.target = appsrc[k], !.pc = "emit"]
    /\ UNCHANGED <<lifecycle, stream, mediaVars, clock, sent>>

\* What the client of the present session has been sent.
Record(s, pts) ==
    [first |-> IF s.first = -1 THEN pts ELSE s.first, last |-> pts,
     sorted |-> s.sorted /\ s.last <= pts]

PushEmits ==
    /\ At("emit")
    /\ sent' = IF push.target = media /\ mediaStep \in 1..Serve
                 THEN [sent EXCEPT ![k] = Record(@, push.pts)] ELSE sent
    /\ push' = NoPush
    /\ UNCHANGED <<lifecycle, stream, mediaVars, clock>>

\* The camera's clock only goes forward.
Time ==
    /\ clock < MaxTime
    /\ clock' = clock + 1
    /\ UNCHANGED <<lifecycle, stream, push, mediaVars, sent>>

Push ==
    \/ PushReadsFirst \/ PushWritesBase \/ PushWritesFirst
    \/ PushStampsBuffer \/ PushLoadsAppsrc \/ PushEmits

Next ==
    \/ Start \/ ServerThread
    \/ StopBegins \/ StopQuits \/ StopJoins
    \/ Connect \/ Disconnect \/ CallbackStep
    \/ \E m \in Media : FreeMedia(m)
    \/ \E t \in Track : PushBegins(t)
    \/ Push
    \/ Time

Spec == Init /\ [][Next]_vars

\* The threads of stop() and of the main loop are scheduled.
FairSpec == Spec /\ WF_vars(ServerThread) /\ WF_vars(StopQuits) /\ WF_vars(StopJoins)

--------------------------------------------------------------------------------
(* Properties.                                                              *)

\* Presentation times never wrap around 2^64, whatever the callbacks do to the
\* base while a frame is on its way: the base is zero or the time of an earlier
\* frame.
PtsNeverWraps == At("load") => push.pts <= push.ts

\* As long as no push overlapped the callback that ended the previous session,
\* each track starts at zero and its times never go back.
CleanSession ==
    \A t \in Track \ overlapped : sent[t].first \in {-1, 0} /\ sent[t].sorted

\* g_signal_emit_by_name is given an appsrc whose media is not freed, though the
\* test and the use are far apart: only a push that overlapped the callback that
\* ends a session can find null or a dead element.
FrameMeetsLiveMedia == (At("emit") /\ k \notin overlapped) => push.target \in alive

\* Between two sessions no appsrc is left behind: frames are dropped at the first
\* test, and the references the callbacks took are given back.
NoAppsrcBetweenSessions == mediaStep = 0 => \A t \in Track : appsrc[t] = Null

\* stop() returns if it is called once the main loop runs.
StopReturnsOnceRunning ==
    (stopping = "quit" /\ serverThread = "in") ~> (stopping = "done")

\* Each connection starts from the beginning.
RestartsFromZero == \A t \in Track : sent[t].first \in {-1, 0}
================================================================================
