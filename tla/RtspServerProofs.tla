---------------------------- MODULE RtspServerProofs ----------------------------
(***************************************************************************)
(* Proofs about RtspServer, for any number of connections, any length of   *)
(* time and any width of the time stamps: what the unguarded fields that   *)
(* the pushes and the media callbacks share hold at each point.            *)
(***************************************************************************)
EXTENDS RtspServer, TLAPS

Pushing(t) == push.pc # "idle" /\ push.track = t

\* The appsrc pointers follow the script of the callbacks, whoever pushes, and the
\* media they point to is not freed.
AppsrcFollowsScript ==
    /\ appsrc["video"] = IF mediaStep \in 2..8 THEN media ELSE Null
    /\ appsrc["audio"] = IF mediaStep \in 3..9 THEN media ELSE Null
    /\ mediaStep # 0 => media \in alive

\* A base is the time of a frame that is not later than the present one.
BaseNotAhead ==
    /\ \A t \in Track : base[t] <= clock
    /\ push.pc # "idle" => base[k] <= push.ts /\ push.ts <= clock
    /\ At("load") => push.pts <= push.ts

\* A push that overlapped no end of a session is in the session it began in.
PushInSession ==
    (push.pc # "idle" /\ k \notin overlapped) =>
        /\ mediaStep \in 1..Serve
        /\ appsrc[k] = media
        /\ At("emit") => push.target = media

\* The first frame of a session, which is on its way.
FirstOnItsWay(t) == Pushing(t) /\ push.pc \in {"pts", "load", "emit"} /\ push.ts = base[t]

\* A track whose session no push disturbed: before its first frame nothing was
\* sent; after it the base stays, and what was sent is not later than what comes.
TrackInSession(t) ==
    IF first[t]
      THEN /\ sent[t] = NothingSent
           /\ Pushing(t) => push.pc \in {"first", "base", "seen"}
           /\ Pushing(t) /\ push.pc = "seen" => base[t] = push.ts
      ELSE /\ Pushing(t) => push.pc \in {"first", "pts", "load", "emit"}
           /\ sent[t].first = -1 => FirstOnItsWay(t) /\ sent[t] = NothingSent
           /\ sent[t].first \in {-1, 0} /\ sent[t].sorted
           /\ sent[t].last <= (IF Pushing(t) THEN push.ts ELSE clock) - base[t]
           /\ (Pushing(t) /\ push.pc \in {"load", "emit"})
                  => push.pts = push.ts - base[t]

\* Between two sessions of such a track: the script has reset the flag.
TrackBetweenSessions(t) ==
    /\ sent[t] = NothingSent
    /\ mediaStep \notin 4..(IF t = "video" THEN 4 ELSE 5) => first[t]

SessionsKept ==
    \A t \in Track \ overlapped :
        IF mediaStep \in 1..Serve THEN TrackInSession(t) ELSE TrackBetweenSessions(t)

IInv ==
    /\ TypeOK
    /\ AppsrcFollowsScript
    /\ BaseNotAhead
    /\ PushInSession
    /\ SessionsKept

LEMMA ScriptSteps ==
    /\ Len(Script) = 9
    /\ Script[1] = [op |-> "set", track |-> "video"]
    /\ Script[2] = [op |-> "set", track |-> "audio"]
    /\ Script[4] = [op |-> "first", track |-> "video"]
    /\ Script[5] = [op |-> "first", track |-> "audio"]
    /\ Script[6] = [op |-> "base", track |-> "video"]
    /\ Script[7] = [op |-> "base", track |-> "audio"]
    /\ Script[8] = [op |-> "clear", track |-> "video"]
    /\ Script[9] = [op |-> "clear", track |-> "audio"]
BY DEF Script

LEMMA InitIInv == Init => IInv
<1> SUFFICES ASSUME Init PROVE IInv
  OBVIOUS
<1> USE BoundAssumption DEF Init
<1>1. TypeOK
  <2>1. push \in [pc : {"idle", "first", "base", "seen", "pts", "load", "emit"},
                  track : Track, ts : 0..MaxTime, pts : 0..(Wrap - 1),
                  target : Media \cup {Null}]
    BY DEF NoPush, Track, Null
  <2>2. sent \in [Track -> [first : -1..Wrap, last : -1..Wrap, sorted : BOOLEAN]]
    BY DEF NothingSent
  <2>3. Len(Script) = 9
    BY ScriptSteps
  <2>4. /\ appsrc \in [Track -> Media \cup {Null}]
        /\ first \in [Track -> BOOLEAN]
        /\ base \in [Track -> 0..MaxTime]
        /\ media \in 0..MaxMedia /\ mediaStep \in 0..9
        /\ clock \in 1..MaxTime
    OBVIOUS
  <2> QED
    BY <2>1, <2>2, <2>3, <2>4, Zenon DEF TypeOK
<1>2. AppsrcFollowsScript /\ BaseNotAhead /\ PushInSession
  BY DEF AppsrcFollowsScript, BaseNotAhead, PushInSession, Track, NoPush, At
<1>3. SessionsKept
  BY DEF SessionsKept, TrackBetweenSessions, Serve
<1> QED
  BY <1>1, <1>2, <1>3 DEF IInv

--------------------------------------------------------------------------------
(* What the state of the stream depends on: a step that leaves these alone   *)
(* leaves the invariant alone.                                               *)

LEMMA Unconcerned ==
    ASSUME IInv, TypeOK', UNCHANGED <<stream, push, mediaVars, clock, sent>>
    PROVE  IInv'
<1> USE DEF stream, mediaVars
<1>1. AppsrcFollowsScript' /\ BaseNotAhead' /\ PushInSession'
  BY DEF IInv, AppsrcFollowsScript, BaseNotAhead, PushInSession, At, k
<1>2. \A t : Pushing(t)' <=> Pushing(t)
  BY DEF Pushing
<1>3. SessionsKept'
  BY <1>2 DEF IInv, SessionsKept, TrackInSession, TrackBetweenSessions, FirstOnItsWay
<1> QED
  BY <1>1, <1>3 DEF IInv

LEMMA LifecycleStep ==
    ASSUME IInv, Start \/ ServerThread \/ StopBegins \/ StopQuits \/ StopJoins
    PROVE  IInv'
<1>1. UNCHANGED <<stream, push, mediaVars, clock, sent>>
  BY DEF Start, ServerThread, StopBegins, StopQuits, StopJoins
<1>2. TypeOK'
  <2> USE <1>1 DEF IInv, TypeOK, stream, mediaVars
  <2>1. CASE Start
    BY <2>1 DEF Start
  <2>2. CASE ServerThread
    BY <2>2 DEF ServerThread
  <2>3. CASE StopBegins
    BY <2>3 DEF StopBegins
  <2>4. CASE StopQuits
    BY <2>4 DEF StopQuits, Quit
  <2>5. CASE StopJoins
    BY <2>5 DEF StopJoins
  <2> QED
    BY <2>1, <2>2, <2>3, <2>4, <2>5
<1> QED
  BY <1>1, <1>2, Unconcerned

\* A later clock leaves more room above the bases and the times sent.
LEMMA TimeStep == ASSUME IInv, Time PROVE IInv'
<1> USE DEF Time, lifecycle, stream, mediaVars
<1>1. TypeOK'
  BY BoundAssumption DEF IInv, TypeOK
<1>2. AppsrcFollowsScript' /\ PushInSession'
  BY DEF IInv, AppsrcFollowsScript, PushInSession, At, k
<1>3. clock \in Nat /\ push.ts \in Nat /\ \A t \in Track : base[t] \in Nat
  BY DEF IInv, TypeOK
<1>4. BaseNotAhead'
  BY <1>3 DEF IInv, BaseNotAhead, At, k
<1>5. SessionsKept'
  <2> SUFFICES ASSUME NEW t \in Track \ overlapped
               PROVE  IF mediaStep \in 1..Serve
                        THEN TrackInSession(t)' ELSE TrackBetweenSessions(t)'
    BY DEF SessionsKept
  <2>1. sent[t].last \in Int
    BY DEF IInv, TypeOK
  <2>2. TrackInSession(t) => TrackInSession(t)'
    BY <1>3, <2>1 DEF TrackInSession, Pushing, FirstOnItsWay
  <2>3. TrackBetweenSessions(t) => TrackBetweenSessions(t)'
    BY DEF TrackBetweenSessions
  <2> QED
    BY <2>2, <2>3 DEF IInv, SessionsKept
<1> QED
  BY <1>1, <1>2, <1>4, <1>5 DEF IInv

--------------------------------------------------------------------------------
(* The steps of gst-rtsp-server.                                            *)

\* The media of the present session is not the one that is freed.
LEMMA FreeMediaStep == ASSUME IInv, NEW m \in Media, FreeMedia(m) PROVE IInv'
<1> USE DEF FreeMedia, lifecycle, stream
<1>1. TypeOK'
  BY DEF IInv, TypeOK
<1>2. AppsrcFollowsScript'
  BY DEF IInv, AppsrcFollowsScript, Media
<1>3. BaseNotAhead' /\ PushInSession'
  BY DEF IInv, BaseNotAhead, PushInSession, At, k
<1>4. SessionsKept'
  BY DEF IInv, SessionsKept, TrackInSession, TrackBetweenSessions, FirstOnItsWay, Pushing
<1> QED
  BY <1>1, <1>2, <1>3, <1>4 DEF IInv

\* A session opens: no push is under way on a track that was left in order.
LEMMA ConnectStep == ASSUME IInv, Connect PROVE IInv'
<1> USE DEF Connect, lifecycle, stream
<1>1. TypeOK'
  BY BoundAssumption, ScriptSteps DEF IInv, TypeOK, Media
<1>2. AppsrcFollowsScript' /\ BaseNotAhead'
  BY DEF IInv, AppsrcFollowsScript, BaseNotAhead, At, k
<1>3. push.pc = "idle" \/ k \in overlapped
  BY DEF IInv, PushInSession, Serve
<1>4. PushInSession'
  BY <1>3 DEF PushInSession, k
<1>5. SessionsKept'
  <2> SUFFICES ASSUME NEW t \in Track \ overlapped PROVE TrackInSession(t)'
    BY DEF SessionsKept, Serve
  <2>1. first[t] /\ sent[t] = NothingSent
    BY DEF IInv, SessionsKept, TrackBetweenSessions, Serve
  <2>2. ~Pushing(t)
    BY <1>3 DEF Pushing, k
  <2> QED
    BY <2>1, <2>2 DEF TrackInSession, Pushing
<1> QED
  BY <1>1, <1>2, <1>4, <1>5 DEF IInv

LEMMA DisconnectStep == ASSUME IInv, Disconnect PROVE IInv'
<1> USE DEF Disconnect, lifecycle, stream, Serve
<1>1. sent' \in [Track -> [first : -1..Wrap, last : -1..Wrap, sorted : BOOLEAN]]
  BY BoundAssumption DEF NothingSent
<1>2. TypeOK'
  BY <1>1, ScriptSteps DEF IInv, TypeOK
<1>3. AppsrcFollowsScript' /\ BaseNotAhead'
  BY DEF IInv, AppsrcFollowsScript, BaseNotAhead, At, k
<1>4. PushInSession'
  BY DEF PushInSession, k
<1>5. SessionsKept'
  BY DEF SessionsKept, TrackBetweenSessions
<1> QED
  BY <1>2, <1>3, <1>4, <1>5 DEF IInv

\* One statement of a callback, by its place in the script: the pointers, the flags
\* and the bases each change at two places.
LEMMA CallbackEffect ==
    ASSUME TypeOK, CallbackStep
    PROVE  /\ mediaStep \in {1, 2, 4, 5, 6, 7, 8, 9}
           /\ mediaStep' = IF mediaStep = 9 THEN 0 ELSE mediaStep + 1
           /\ mediaStep = 1 => appsrc' = [appsrc EXCEPT !["video"] = media]
           /\ mediaStep = 2 => appsrc' = [appsrc EXCEPT !["audio"] = media]
           /\ mediaStep = 8 => appsrc' = [appsrc EXCEPT !["video"] = Null]
           /\ mediaStep = 9 => appsrc' = [appsrc EXCEPT !["audio"] = Null]
           /\ mediaStep \notin {1, 2, 8, 9} => appsrc' = appsrc
           /\ mediaStep = 4 => first' = [first EXCEPT !["video"] = TRUE]
           /\ mediaStep = 5 => first' = [first EXCEPT !["audio"] = TRUE]
           /\ mediaStep \notin {4, 5} => first' = first
           /\ mediaStep = 6 => base' = [base EXCEPT !["video"] = 0]
           /\ mediaStep = 7 => base' = [base EXCEPT !["audio"] = 0]
           /\ mediaStep \notin {6, 7} => base' = base
<1>1. mediaStep \in {1, 2, 4, 5, 6, 7, 8, 9}
  BY ScriptSteps DEF TypeOK, CallbackStep, Serve
<1>2. mediaStep' = IF mediaStep = 9 THEN 0 ELSE mediaStep + 1
  BY ScriptSteps DEF CallbackStep
<1> DEFINE s == Script[mediaStep]
<1>3. /\ appsrc' = IF s.op = "set" THEN [appsrc EXCEPT ![s.track] = media]
                    ELSE IF s.op = "clear" THEN [appsrc EXCEPT ![s.track] = Null]
                    ELSE appsrc
      /\ first' = IF s.op = "first" THEN [first EXCEPT ![s.track] = TRUE] ELSE first
      /\ base' = IF s.op = "base" THEN [base EXCEPT ![s.track] = 0] ELSE base
  BY DEF CallbackStep, Clear, FirstAgain
<1>11. CASE mediaStep = 1
  <2> s.op = "set" /\ s.track = "video"
    BY <1>11, ScriptSteps
  <2> HIDE DEF s
  <2> QED
    BY <1>2, <1>3, <1>11
<1>12. CASE mediaStep = 2
  <2> s.op = "set" /\ s.track = "audio"
    BY <1>12, ScriptSteps
  <2> HIDE DEF s
  <2> QED
    BY <1>2, <1>3, <1>12
<1>14. CASE mediaStep = 4
  <2> s.op = "first" /\ s.track = "video"
    BY <1>14, ScriptSteps
  <2> HIDE DEF s
  <2> QED
    BY <1>2, <1>3, <1>14
<1>15. CASE mediaStep = 5
  <2> s.op = "first" /\ s.track = "audio"
    BY <1>15, ScriptSteps
  <2> HIDE DEF s
  <2> QED
    BY <1>2, <1>3, <1>15
<1>16. CASE mediaStep = 6
  <2> s.op = "base" /\ s.track = "video"
    BY <1>16, ScriptSteps
  <2> HIDE DEF s
  <2> QED
    BY <1>2, <1>3, <1>16
<1>17. CASE mediaStep = 7
  <2> s.op = "base" /\ s.track = "audio"
    BY <1>17, ScriptSteps
  <2> HIDE DEF s
  <2> QED
    BY <1>2, <1>3, <1>17
<1>18. CASE mediaStep = 8
  <2> s.op = "clear" /\ s.track = "video"
    BY <1>18, ScriptSteps
  <2> HIDE DEF s
  <2> QED
    BY <1>2, <1>3, <1>18
<1>19. CASE mediaStep = 9
  <2> s.op = "clear" /\ s.track = "audio"
    BY <1>19, ScriptSteps
  <2> HIDE DEF s
  <2> QED
    BY <1>2, <1>3, <1>19
<1> QED
  BY <1>1, <1>11, <1>12, <1>14, <1>15, <1>16, <1>17, <1>18, <1>19

LEMMA CallbackStepStep == ASSUME IInv, CallbackStep PROVE IInv'
<1>1. TypeOK
  BY DEF IInv
<1>2. UNCHANGED <<lifecycle, push, media, alive, clock, sent, overlapped>>
  BY DEF CallbackStep
<1> USE CallbackEffect
<1>3. /\ appsrc' \in [Track -> Media \cup {Null}]
      /\ appsrc'["video"] = IF mediaStep = 1 THEN media
                            ELSE IF mediaStep = 8 THEN Null ELSE appsrc["video"]
      /\ appsrc'["audio"] = IF mediaStep = 2 THEN media
                            ELSE IF mediaStep = 9 THEN Null ELSE appsrc["audio"]
  <2>1. mediaStep # 0 => media \in Media
    BY <1>1 DEF IInv, AppsrcFollowsScript, TypeOK
  <2>2. appsrc \in [Track -> Media \cup {Null}]
    BY <1>1 DEF TypeOK
  <2> QED
    BY <1>1, <2>1, <2>2 DEF Track
<1>4. /\ first' \in [Track -> BOOLEAN]
      /\ \A t \in Track : first[t] => first'[t]
      /\ mediaStep = 4 => first'["video"]
      /\ mediaStep = 5 => first'["audio"]
      /\ mediaStep \notin {4, 5} => first' = first
  <2>1. first \in [Track -> BOOLEAN] /\ "video" \in Track /\ "audio" \in Track
    BY <1>1 DEF TypeOK, Track
  <2>2. CASE mediaStep = 4
    BY <1>1, <2>1, <2>2
  <2>3. CASE mediaStep = 5
    BY <1>1, <2>1, <2>3
  <2>4. CASE mediaStep \notin {4, 5}
    BY <1>1, <2>1, <2>4
  <2> QED
    BY <2>2, <2>3, <2>4
<1>5. /\ base' \in [Track -> 0..MaxTime]
      /\ \A t \in Track : base'[t] \in {0, base[t]}
      /\ mediaStep \in {1, 2} => base' = base
  <2>1. base \in [Track -> 0..MaxTime] /\ 0 \in 0..MaxTime
    BY <1>1, BoundAssumption DEF TypeOK
  <2> QED
    BY <1>1, <2>1 DEF Track
<1>6. /\ mediaStep \in {1, 2, 4, 5, 6, 7, 8, 9}
      /\ mediaStep' = IF mediaStep = 9 THEN 0 ELSE mediaStep + 1
  BY <1>1
<1>7. TypeOK'
  <2>1. mediaStep' \in 0..Len(Script)
    BY <1>6, ScriptSteps
  <2>2. /\ running' = running /\ loop' = loop /\ serverThread' = serverThread
        /\ stopping' = stopping /\ push' = push /\ media' = media /\ alive' = alive
        /\ clock' = clock /\ sent' = sent /\ overlapped' = overlapped
    BY <1>2 DEF lifecycle
  <2> HIDE CallbackEffect
  <2> QED
    BY <1>1, <1>3, <1>4, <1>5, <2>1, <2>2, Zenon DEF TypeOK
<1>8. AppsrcFollowsScript'
  BY <1>2, <1>3, <1>6 DEF IInv, AppsrcFollowsScript
<1>9. BaseNotAhead'
  <2>1. clock \in Nat /\ push.ts \in Nat /\ (push.pc # "idle" => push.track \in Track)
    BY <1>1 DEF TypeOK
  <2> QED
    BY <1>2, <1>5, <2>1 DEF IInv, BaseNotAhead, At, k
<1>10. PushInSession'
  <2>1. push.track \in {"video", "audio"}
    BY <1>1 DEF TypeOK, Track
  <2> QED
    BY <1>2, <1>3, <1>6, <2>1 DEF IInv, PushInSession, At, k, Serve
<1>11. SessionsKept'
  <2> SUFFICES ASSUME NEW t \in Track \ overlapped
               PROVE  IF mediaStep' \in 1..Serve
                        THEN TrackInSession(t)' ELSE TrackBetweenSessions(t)'
    BY <1>2 DEF SessionsKept
  <2>1. CASE mediaStep \in {1, 2}
    BY <1>2, <1>4, <1>5, <1>6, <2>1
       DEF IInv, SessionsKept, Serve, TrackInSession, FirstOnItsWay, Pushing
  <2>2. CASE mediaStep \in {4, 5, 6, 7, 8, 9}
    <3>1. TrackBetweenSessions(t)
      BY <2>2 DEF IInv, SessionsKept, Serve
    <3>2. t \in {"video", "audio"}
      BY DEF Track
    <3> QED
      BY <1>2, <1>4, <1>6, <2>2, <3>1, <3>2 DEF TrackBetweenSessions, Serve
  <2> QED
    BY <1>6, <2>1, <2>2
<1> QED
  BY <1>7, <1>8, <1>9, <1>10, <1>11 DEF IInv

--------------------------------------------------------------------------------
(* The steps of a push.                                                     *)

LEMMA PushBeginsStep == ASSUME IInv, NEW t \in Track, PushBegins(t) PROVE IInv'
<1> USE DEF PushBegins, lifecycle, stream, At
<1>1. TypeOK /\ clock \in 0..MaxTime /\ mediaStep \in 0..9
  BY ScriptSteps, BoundAssumption DEF IInv, TypeOK
<1>2. /\ push' = [pc |-> "first", track |-> t, ts |-> clock, pts |-> 0, target |-> Null]
      /\ push'.pc = "first" /\ push'.track = t /\ push'.ts = clock
  BY DEF NoPush
<1>3. TypeOK'
  <2>1. push' \in [pc : {"idle", "first", "base", "seen", "pts", "load", "emit"},
                   track : Track, ts : 0..MaxTime, pts : 0..(Wrap - 1),
                   target : Media \cup {Null}]
    BY <1>1, <1>2, BoundAssumption
  <2>2. overlapped' \subseteq Track
    BY <1>1 DEF TypeOK
  <2> QED
    BY <1>1, <2>1, <2>2, Zenon DEF TypeOK
<1>4. AppsrcFollowsScript'
  BY DEF IInv, AppsrcFollowsScript
<1>5. BaseNotAhead'
  BY <1>1, <1>2 DEF IInv, BaseNotAhead, k
<1>6. PushInSession'
  <2> SUFFICES ASSUME t \notin overlapped' PROVE mediaStep \in 1..Serve /\ appsrc[t] = media
    BY <1>2 DEF PushInSession, k
  <2>1. ~Unpreparing /\ appsrc[t] # Null /\ t \in {"video", "audio"}
    BY DEF Track
  <2> QED
    BY <1>1, <2>1 DEF IInv, AppsrcFollowsScript, Unpreparing, Serve
<1>7. SessionsKept'
  <2> SUFFICES ASSUME NEW u \in Track \ overlapped'
               PROVE  IF mediaStep \in 1..Serve
                        THEN TrackInSession(u)' ELSE TrackBetweenSessions(u)'
    BY DEF SessionsKept
  <2>1. u \notin overlapped /\ ~Pushing(u)
    BY DEF Pushing
  <2>2. TrackInSession(u) => TrackInSession(u)'
    BY <1>2, <2>1 DEF TrackInSession, FirstOnItsWay, Pushing
  <2>3. TrackBetweenSessions(u) => TrackBetweenSessions(u)'
    BY DEF TrackBetweenSessions
  <2> QED
    BY <2>1, <2>2, <2>3 DEF IInv, SessionsKept
<1> QED
  BY <1>3, <1>4, <1>5, <1>6, <1>7 DEF IInv

\* What a step of a push finds, and what it leaves alone.
LEMMA PushUnderWay ==
    ASSUME IInv, Push
    PROVE  /\ TypeOK /\ push.pc # "idle" /\ k \in Track
           /\ UNCHANGED <<lifecycle, appsrc, mediaVars, clock>>
           /\ k \notin overlapped => TrackInSession(k)
<1>1. TypeOK
  BY DEF IInv
<1>2. push.pc # "idle" /\ UNCHANGED <<lifecycle, appsrc, mediaVars, clock>>
  BY DEF Push, PushReadsFirst, PushWritesBase, PushWritesFirst,
         PushStampsBuffer, PushLoadsAppsrc, PushEmits, At, stream
<1>3. k \in Track
  BY <1>1 DEF TypeOK, k
<1> QED
  BY <1>1, <1>2, <1>3 DEF IInv, PushInSession, SessionsKept

\* The session of the other track, and of a track that was disturbed, is not at
\* stake: it is enough to look at the track that is pushed.
LEMMA OnlyThePushedTrack ==
    ASSUME IInv, Push, NEW p \in Track, p = push.track,
           push'.pc = "idle" \/ push'.track = p,
           \A t \in Track \ {p} : first'[t] = first[t] /\ base'[t] = base[t] /\ sent'[t] = sent[t],
           p \notin overlapped => TrackInSession(p)'
    PROVE  SessionsKept'
<1>1. UNCHANGED <<mediaStep, overlapped, clock>>
  BY PushUnderWay DEF mediaVars
<1> SUFFICES ASSUME NEW t \in Track \ overlapped
             PROVE  IF mediaStep \in 1..Serve
                      THEN TrackInSession(t)' ELSE TrackBetweenSessions(t)'
  BY <1>1 DEF SessionsKept
<1>2. CASE t = p
  <2>1. mediaStep \in 1..Serve
    BY <1>2, PushUnderWay DEF IInv, PushInSession, k
  <2> QED
    BY <1>2, <2>1
<1>3. CASE t # p
  <2>1. ~Pushing(t) /\ ~Pushing(t)'
    BY <1>3 DEF Pushing
  <2>2. first'[t] = first[t] /\ base'[t] = base[t] /\ sent'[t] = sent[t]
    BY <1>3
  <2> QED
    BY <1>1, <2>1, <2>2
       DEF IInv, SessionsKept, TrackInSession, TrackBetweenSessions, FirstOnItsWay
<1> QED
  BY <1>2, <1>3

LEMMA PushReadsFirstStep == ASSUME IInv, PushReadsFirst PROVE IInv'
<1>1. Push
  BY DEF Push
<1> DEFINE p == push.track
<1> USE <1>1, PushUnderWay DEF PushReadsFirst, At, lifecycle, stream, mediaVars, k
<1>2. push' = [push EXCEPT !.pc = IF first[p] THEN "base" ELSE "pts"]
  OBVIOUS
<1>3. /\ push'.pc = IF first[p] THEN "base" ELSE "pts"
      /\ push'.track = p /\ push'.ts = push.ts
  BY <1>2 DEF TypeOK
<1>4. TypeOK'
  BY DEF TypeOK
<1>5. AppsrcFollowsScript' /\ BaseNotAhead' /\ PushInSession'
  BY <1>3 DEF IInv, AppsrcFollowsScript, BaseNotAhead, PushInSession
<1> HIDE DEF p
<1>6. p \notin overlapped => TrackInSession(p)'
  BY <1>3 DEF TrackInSession, FirstOnItsWay, Pushing, p
<1>7. SessionsKept'
  BY <1>3, <1>6, OnlyThePushedTrack DEF p
<1> QED
  BY <1>4, <1>5, <1>7 DEF IInv

\* The frame's time becomes the base of its track; the flag is still up.
LEMMA PushWritesBaseStep == ASSUME IInv, PushWritesBase PROVE IInv'
<1>1. Push
  BY DEF Push
<1> DEFINE p == push.track
<1> USE <1>1, PushUnderWay DEF PushWritesBase, At, lifecycle, mediaVars, k
<1>2. push'.pc = "seen" /\ push'.track = p /\ push'.ts = push.ts
  BY DEF TypeOK
<1>3. base \in [Track -> 0..MaxTime] /\ base' = [base EXCEPT ![p] = push.ts]
  BY DEF TypeOK
<1>4. TypeOK'
  BY DEF TypeOK
<1>5. AppsrcFollowsScript' /\ PushInSession'
  BY <1>2 DEF IInv, AppsrcFollowsScript, PushInSession
<1>6. BaseNotAhead'
  <2>1. push.ts <= clock /\ push.ts \in Int /\ base'[p] = push.ts
    BY <1>3 DEF IInv, BaseNotAhead, TypeOK
  <2>2. \A t \in Track : base'[t] <= clock
    BY <1>3, <2>1 DEF IInv, BaseNotAhead
  <2> QED
    BY <1>2, <2>1, <2>2 DEF BaseNotAhead
<1>7. p \notin overlapped => TrackInSession(p)'
  BY <1>2, <1>3 DEF TrackInSession, FirstOnItsWay, Pushing
<1>8. SessionsKept'
  BY <1>2, <1>3, <1>7, OnlyThePushedTrack
<1> QED
  BY <1>4, <1>5, <1>6, <1>8 DEF IInv

\* The flag goes down: the first frame is on its way.
LEMMA PushWritesFirstStep == ASSUME IInv, PushWritesFirst PROVE IInv'
<1>1. Push
  BY DEF Push
<1> DEFINE p == push.track
<1> USE <1>1, PushUnderWay DEF PushWritesFirst, At, lifecycle, mediaVars, k
<1>2. push'.pc = "pts" /\ push'.track = p /\ push'.ts = push.ts
  BY DEF TypeOK
<1>3. first \in [Track -> BOOLEAN] /\ first' = [first EXCEPT ![p] = FALSE]
  BY DEF TypeOK
<1>4. TypeOK'
  BY DEF TypeOK
<1>5. AppsrcFollowsScript' /\ BaseNotAhead' /\ PushInSession'
  BY <1>2 DEF IInv, AppsrcFollowsScript, BaseNotAhead, PushInSession
<1>6. p \notin overlapped => TrackInSession(p)'
  BY <1>2, <1>3 DEF TrackInSession, FirstOnItsWay, Pushing, NothingSent, TypeOK
<1>7. SessionsKept'
  BY <1>2, <1>3, <1>6, OnlyThePushedTrack
<1> QED
  BY <1>4, <1>5, <1>7 DEF IInv

\* The subtraction does not wrap: the base is not ahead of the frame.
LEMMA PushStampsBufferStep == ASSUME IInv, PushStampsBuffer PROVE IInv'
<1>1. Push
  BY DEF Push
<1> DEFINE p == push.track
<1> USE <1>1, PushUnderWay DEF PushStampsBuffer, At, lifecycle, stream, mediaVars, k
<1>2. Since(push.ts, base[p]) = push.ts - base[p] /\ push.ts - base[p] \in 0..(Wrap - 1)
  <2>1. base[p] <= push.ts /\ base[p] \in Nat /\ push.ts \in 0..MaxTime
    BY DEF IInv, BaseNotAhead, TypeOK
  <2>2. push.ts - base[p] \in 0..(Wrap - 1) /\ Wrap \in Nat \ {0}
    BY <2>1, BoundAssumption
  <2> QED
    BY <2>2 DEF Since
<1>3. /\ push'.pc = "load" /\ push'.track = p /\ push'.ts = push.ts
      /\ push'.pts = push.ts - base[p]
  BY <1>2 DEF TypeOK
<1>4. TypeOK'
  BY <1>2 DEF TypeOK
<1>5. AppsrcFollowsScript' /\ PushInSession'
  BY <1>3 DEF IInv, AppsrcFollowsScript, PushInSession
<1>6. BaseNotAhead'
  BY <1>3 DEF IInv, BaseNotAhead, TypeOK
<1>7. p \notin overlapped => TrackInSession(p)'
  BY <1>3 DEF TrackInSession, FirstOnItsWay, Pushing
<1>8. SessionsKept'
  BY <1>3, <1>7, OnlyThePushedTrack
<1> QED
  BY <1>4, <1>5, <1>6, <1>8 DEF IInv

LEMMA PushLoadsAppsrcStep == ASSUME IInv, PushLoadsAppsrc PROVE IInv'
<1>1. Push
  BY DEF Push
<1> DEFINE p == push.track
<1> USE <1>1, PushUnderWay DEF PushLoadsAppsrc, At, lifecycle, stream, mediaVars, k
<1>2. /\ push'.pc = "emit" /\ push'.track = p /\ push'.ts = push.ts
      /\ push'.pts = push.pts /\ push'.target = appsrc[p]
  BY DEF TypeOK
<1>3. TypeOK'
  BY DEF TypeOK
<1>4. AppsrcFollowsScript' /\ BaseNotAhead' /\ PushInSession'
  BY <1>2 DEF IInv, AppsrcFollowsScript, BaseNotAhead, PushInSession
<1>5. p \notin overlapped => TrackInSession(p)'
  BY <1>2 DEF TrackInSession, FirstOnItsWay, Pushing
<1>6. SessionsKept'
  BY <1>2, <1>5, OnlyThePushedTrack
<1> QED
  BY <1>3, <1>4, <1>6 DEF IInv

\* A frame of an undisturbed track reaches the session's client, at zero if it is
\* the first and not before the last one otherwise.
LEMMA PushEmitsStep == ASSUME IInv, PushEmits PROVE IInv'
<1>1. Push
  BY DEF Push
<1> PICK p \in Track : p = push.track
  BY <1>1, PushUnderWay DEF k
<1> USE <1>1, PushUnderWay DEF PushEmits, At, lifecycle, stream, mediaVars, k
<1>2. push'.pc = "idle" /\ push' = NoPush
  BY DEF NoPush
<1>3. \A t \in Track : sent[t] \in [first : -1..Wrap, last : -1..Wrap, sorted : BOOLEAN]
  BY DEF TypeOK
<1>4. push.pts \in 0..(Wrap - 1)
  BY DEF TypeOK
<1>5. Record(sent[p], push.pts) \in [first : -1..Wrap, last : -1..Wrap, sorted : BOOLEAN]
  BY <1>3, <1>4, BoundAssumption DEF Record
<1>6. TypeOK'
  <2>1. push' \in [pc : {"idle", "first", "base", "seen", "pts", "load", "emit"},
                   track : Track, ts : 0..MaxTime, pts : 0..(Wrap - 1),
                   target : Media \cup {Null}]
    BY <1>2, BoundAssumption DEF NoPush, Track, Null
  <2>2. sent' \in [Track -> [first : -1..Wrap, last : -1..Wrap, sorted : BOOLEAN]]
    BY <1>5 DEF TypeOK
  <2> QED
    BY <2>1, <2>2 DEF TypeOK
<1>7. AppsrcFollowsScript' /\ BaseNotAhead' /\ PushInSession'
  BY <1>2 DEF IInv, AppsrcFollowsScript, BaseNotAhead, PushInSession
<1>8. p \notin overlapped => TrackInSession(p)'
  <2> SUFFICES ASSUME p \notin overlapped PROVE TrackInSession(p)'
    OBVIOUS
  <2>1. /\ ~first[p] /\ push.pts = push.ts - base[p]
        /\ sent[p].first = -1 => push.ts = base[p]
        /\ sent[p].first \in {-1, 0} /\ sent[p].sorted
        /\ sent[p].last <= push.ts - base[p]
    BY DEF TrackInSession, FirstOnItsWay, Pushing
  <2>2. sent'[p] = Record(sent[p], push.pts)
    BY DEF IInv, PushInSession, TypeOK
  <2>3. push.ts <= clock /\ push.ts \in Int /\ clock \in Int /\ base[p] \in Int
    BY DEF IInv, BaseNotAhead, TypeOK
  <2>4. sent'[p].first = 0 /\ sent'[p].last = push.ts - base[p]
    BY <2>1, <2>2, <2>3 DEF Record
  <2>5. sent'[p].sorted
    <3>1. sent'[p].sorted = (sent[p].sorted /\ sent[p].last <= push.pts)
      BY <2>2 DEF Record
    <3> QED
      BY <2>1, <3>1
  <2>6. ~first'[p] /\ base'[p] = base[p] /\ clock' = clock /\ ~Pushing(p)'
    BY <1>2, <2>1 DEF Pushing
  <2> QED
    BY <2>3, <2>4, <2>5, <2>6 DEF TrackInSession
<1>9. SessionsKept'
  BY <1>2, <1>8, OnlyThePushedTrack
<1> QED
  BY <1>6, <1>7, <1>9 DEF IInv

LEMMA Inductive == Spec => []IInv
<1>1. ASSUME IInv, [Next]_vars PROVE IInv'
  <2>1. CASE Start \/ ServerThread \/ StopBegins \/ StopQuits \/ StopJoins
    BY <1>1, <2>1, LifecycleStep
  <2>2. CASE Connect
    BY <1>1, <2>2, ConnectStep
  <2>3. CASE Disconnect
    BY <1>1, <2>3, DisconnectStep
  <2>4. CASE CallbackStep
    BY <1>1, <2>4, CallbackStepStep
  <2>5. CASE \E m \in Media : FreeMedia(m)
    BY <1>1, <2>5, FreeMediaStep
  <2>6. CASE \E t \in Track : PushBegins(t)
    BY <1>1, <2>6, PushBeginsStep
  <2>7. CASE Push
    BY <1>1, <2>7, PushReadsFirstStep, PushWritesBaseStep, PushWritesFirstStep,
       PushStampsBufferStep, PushLoadsAppsrcStep, PushEmitsStep DEF Push
  <2>8. CASE Time
    BY <1>1, <2>8, TimeStep
  <2>9. CASE UNCHANGED vars
    <3>1. UNCHANGED <<lifecycle, stream, push, mediaVars, clock, sent>>
      BY <2>9 DEF vars, lifecycle, stream, mediaVars
    <3>2. TypeOK'
      BY <1>1, <2>9 DEF vars, IInv, TypeOK
    <3> QED
      BY <1>1, <3>1, <3>2, Unconcerned
  <2> QED
    BY <1>1, <2>1, <2>2, <2>3, <2>4, <2>5, <2>6, <2>7, <2>8, <2>9 DEF Next
<1> QED
  BY <1>1, InitIInv, PTL DEF Spec

--------------------------------------------------------------------------------
(* What the server promises.                                                *)

\* Every field keeps its type, among them the pushed frame, whose time stamp fits
\* its unsigned 64 bits.
THEOREM RtspTypeCorrect == Spec => []TypeOK
<1>1. IInv => TypeOK
  BY DEF IInv
<1> QED
  BY <1>1, Inductive, PTL

\* The time stamp of a buffer (gst_rtsp_server.cpp, push_video_frame and
\* push_audio_frame) is never the result of a subtraction that wrapped, although
\* the base is reset by another thread between any two steps of a push.
THEOREM TimesNeverWrap == Spec => []PtsNeverWraps
<1>1. IInv => PtsNeverWraps
  BY DEF IInv, BaseNotAhead, PtsNeverWraps
<1> QED
  BY <1>1, Inductive, PTL

\* On a track no push of which overlapped the end of the session before, a client is
\* sent times that start at zero and never go back.
THEOREM SessionsAreClean == Spec => []CleanSession
<1>1. ASSUME IInv, NEW t \in Track \ overlapped
      PROVE  sent[t].first \in {-1, 0} /\ sent[t].sorted
  BY <1>1 DEF IInv, SessionsKept, TrackInSession, TrackBetweenSessions, NothingSent
<1>2. IInv => CleanSession
  BY <1>1 DEF CleanSession
<1> QED
  BY <1>2, Inductive, PTL

\* g_signal_emit_by_name is given an element of the present media, which is not
\* freed, unless the push overlapped the callback that ends a session.
THEOREM PushMeetsLiveMedia == Spec => []FrameMeetsLiveMedia
<1>1. IInv => FrameMeetsLiveMedia
  BY DEF IInv, FrameMeetsLiveMedia, PushInSession, AppsrcFollowsScript, At, Serve
<1> QED
  BY <1>1, Inductive, PTL

\* Once media_unprepared_callback is over no appsrc is left behind.
THEOREM NothingBetweenSessions == Spec => []NoAppsrcBetweenSessions
<1>1. IInv => NoAppsrcBetweenSessions
  BY DEF IInv, AppsrcFollowsScript, NoAppsrcBetweenSessions, Track
<1> QED
  BY <1>1, Inductive, PTL
================================================================================
