----------------------------- MODULE TokenLifecycle -----------------------------
(***************************************************************************)
(* MiotOAuth (miot_oauth.cpp) with the SimpleHttpServer it waits for the   *)
(* authorization on (http_server.cpp) and the main thread that waits for a *)
(* token (bridge_main.cpp).                                                *)
(*                                                                         *)
(* token_ is read and written by three threads without a lock, so each of  *)
(* its fields is assigned and copied in a step of its own.  The process    *)
(* may be killed and started again between any two steps; the token file   *)
(* is what is left of it.  The account service is external: a request may  *)
(* fail, or issue a token that it accepts for ExpiresIn from then on.      *)
(*                                                                         *)
(* Time is counted in ticks; a thread that has something to do does it     *)
(* before the next tick, a request takes up to RequestTime.                *)
(***************************************************************************)
EXTENDS Integers, Sequences

CONSTANTS
    ExpiresIn,      \* expires_in of the tokens the service issues
    Margin,         \* needs_refresh: how long before expires_at
    CheckPeriod,    \* pause of the main loop of token_refresh_loop
    RequestTime,    \* longest request (CURLOPT_TIMEOUT)
    Patience,       \* timeout of get_token
    MaxIssue,       \* bound: tokens the service issues
    MaxTime         \* bound: the clock stops here

ASSUME TimeAssumption ==
    /\ ExpiresIn \in Nat /\ Margin \in Nat /\ CheckPeriod \in Nat
    /\ RequestTime \in Nat /\ Patience \in Nat /\ MaxIssue \in Nat
    /\ MaxTime \in Nat

\* The part of ExpiresIn that expires_at counts in.
Lifetime == (7 * ExpiresIn) \div 10

\* A token lives long beside a request and a check: in the code a margin of 10 minutes,
\* a check a minute, requests of at most 30 seconds.  It holds for every expires_in of
\* more than some minutes.
ASSUME TimingAssumption ==
    /\ Lifetime + RequestTime <= ExpiresIn
    /\ RequestTime + CheckPeriod < Lifetime
    /\ RequestTime + CheckPeriod <= Margin

Id == 1..MaxIssue           \* tokens, by order of issue
NoId == 0                   \* the empty string

VARIABLES
    now,            \* the system clock
    dies,           \* when the service stops accepting each token it has issued
    file,           \* the token file: "none", "torn" or a token
    token,          \* token_
    job,            \* the load, refresh or exchange under way
    auth,           \* where token_refresh_loop stands
    pause,          \* ticks left of its pause
    http,           \* where the thread of the HTTP server stands
    serving,        \* running_ of the HTTP server
    authSuccess,    \* auth_success
    page,           \* the last page this HTTP server sent
    shouldExit,     \* should_exit_
    main,           \* where the main thread stands
    patience,       \* ticks left of get_token
    again,          \* start_auth_flow has been called a second time
    copy            \* the token get_token has returned, while it is used

vars == <<now, dies, file, token, job, auth, pause, http, serving, authSuccess, page,
          shouldExit, main, patience, again, copy>>
service == <<now, dies>>
httpVars == <<http, serving, authSuccess, page>>
mainVars == <<main, patience, again, copy>>

NoToken == [access |-> NoId, refresh |-> NoId, expires |-> 0]
TokenInfo == [access : Id \cup {NoId}, refresh : Id \cup {NoId}, expires : Nat]
NoJob == [kind |-> "none", pc |-> "none", reply |-> NoToken, left |-> 0, sent |-> 0]

JobPC == {"none", "read", "request", "access", "refresh", "expires", "open", "write",
          "ok", "failed"}

JobType == [kind : {"none", "load", "refresh", "exchange"}, pc : JobPC,
            reply : TokenInfo, left : 0..RequestTime, sent : 0..MaxTime]

FileType == {[kind |-> "none"], [kind |-> "torn"]}
                \cup [kind : {"token"}, token : TokenInfo]

TypeOK ==
    /\ now \in 0..MaxTime
    /\ dies \in Seq(Nat) /\ Len(dies) <= MaxIssue
    /\ file \in FileType
    /\ token \in TokenInfo
    /\ job \in JobType
    /\ auth \in {"start", "load", "listen", "wait", "accepted", "leaving", "verify",
                 "loop", "refresh", "pause", "ended"}
    /\ pause \in 0..CheckPeriod
    /\ http \in {"off", "accept", "exchange", "respond", "exit"}
    /\ serving \in BOOLEAN /\ authSuccess \in BOOLEAN /\ shouldExit \in BOOLEAN
    /\ page \in {"none", "success", "invalid"}
    /\ main \in {"poll", "access", "refresh", "expires", "got", "failed", "stopping",
                 "stopped"}
    /\ patience \in 0..Patience
    /\ again \in BOOLEAN
    /\ copy \in TokenInfo

\* A process that has just called start_auth_flow and get_token.
FreshProcess ==
    /\ token' = NoToken /\ job' = NoJob /\ auth' = "start" /\ pause' = 0
    /\ http' = "off" /\ serving' = FALSE /\ authSuccess' = FALSE /\ page' = "none"
    /\ shouldExit' = FALSE
    /\ main' = "poll" /\ patience' = Patience /\ again' = FALSE /\ copy' = NoToken

Init ==
    /\ now = 0 /\ dies = <<>> /\ file = [kind |-> "none"]
    /\ token = NoToken /\ job = NoJob /\ auth = "start" /\ pause = 0
    /\ http = "off" /\ serving = FALSE /\ authSuccess = FALSE /\ page = "none"
    /\ shouldExit = FALSE
    /\ main = "poll" /\ patience = Patience /\ again = FALSE /\ copy = NoToken

Expired(t) == now >= t.expires

\* The variant refreshes a token when it has expired, not ahead of it.
NeedsRefreshMut(t) == now >= t.expires
NeedsRefresh(t) == now >= t.expires - Margin

Valid(t) == t.access # NoId /\ ~Expired(t)

--------------------------------------------------------------------------------
(* load_token, refresh_token, exchange_code_for_token, save_token: one job,  *)
(* done by the thread that called it.                                        *)

NewJob(kind, pc, time) ==
    job' = [NoJob EXCEPT !.kind = kind, !.pc = pc, !.left = time, !.sent = now]

\* The order the fields of token_ are assigned in; the variant reverses it.
FieldsMut == <<"expires", "refresh", "access", "saved">>
Fields == <<"access", "refresh", "expires", "saved">>
Following(f) == Fields[1 + CHOOSE i \in 1..3 : Fields[i] = f]

JobRead ==
    /\ job.pc = "read"
    /\ job' = IF file.kind = "token"
                THEN [job EXCEPT !.reply = file.token, !.pc = Fields[1]]
                ELSE [job EXCEPT !.pc = "failed"]
    /\ UNCHANGED <<service, file, token>>

\* expires_at leaves out three tenths of the time the service grants; the
\* variant takes all of it.
ExpiresAtMut == now + ExpiresIn
ExpiresAt == now + Lifetime

\* The answer: an error, or a token issued when the request was sent.
JobAnswered ==
    /\ job.pc = "request"
    /\ \/ /\ Len(dies) < MaxIssue
          /\ dies' = Append(dies, job.sent + ExpiresIn)
          /\ LET id == Len(dies) + 1 IN
                job' = [NoJob EXCEPT !.kind = job.kind, !.pc = Fields[1], !.reply =
                           [access |-> id, refresh |-> id, expires |-> ExpiresAt]]
       \/ job' = [job EXCEPT !.pc = "failed"] /\ UNCHANGED dies
    /\ UNCHANGED <<now, file, token>>

\* load_token is done with its third field, unless the token must be refreshed.
Loaded(t) ==
    IF Expired(t) THEN [job EXCEPT !.pc = "failed"]
    ELSE IF NeedsRefresh(t)
         THEN [job EXCEPT !.kind = "refresh", !.pc = "request", !.left = RequestTime,
                          !.sent = now]
         ELSE [job EXCEPT !.pc = "ok"]

\* A refresh and an exchange go on to save_token; the variant does not.
AfterUpdateMut == "ok"
AfterUpdate == "open"

JobAssigns ==
    /\ job.pc \in {"access", "refresh", "expires"}
    /\ LET t == [token EXCEPT ![job.pc] = job.reply[job.pc]] IN
        /\ token' = t
        /\ job' = IF Following(job.pc) # "saved" THEN [job EXCEPT !.pc = Following(job.pc)]
                  ELSE IF job.kind = "load" THEN Loaded(t)
                  ELSE [NoJob EXCEPT !.kind = job.kind, !.pc = AfterUpdate]
    /\ UNCHANGED <<service, file>>

\* The answer lacks the next field: the exception is caught, and what has been
\* assigned stays.
JobThrows ==
    /\ job.pc \in {"access", "refresh", "expires"} /\ job.kind # "load"
    /\ job' = [job EXCEPT !.pc = "failed"]
    /\ UNCHANGED <<service, file, token>>

\* save_token: opening truncates the file, or fails.
JobOpens ==
    /\ job.pc = "open"
    /\ \/ file' = [kind |-> "torn"] /\ job' = [job EXCEPT !.pc = "write"]
       \/ job' = [job EXCEPT !.pc = "failed"] /\ UNCHANGED file
    /\ UNCHANGED <<service, token>>

\* Nothing looks at the stream after the write: a full disk goes unnoticed.
JobWrites ==
    /\ job.pc = "write"
    /\ \/ file' = [kind |-> "token", token |-> token]
       \/ UNCHANGED file
    /\ job' = [job EXCEPT !.pc = "ok"]
    /\ UNCHANGED <<service, token>>

Job ==
    /\ JobRead \/ JobAnswered \/ JobAssigns \/ JobThrows \/ JobOpens \/ JobWrites
    /\ UNCHANGED <<auth, pause, httpVars, shouldExit, mainVars>>

JobOver == job.pc \in {"ok", "failed"}

--------------------------------------------------------------------------------
(* token_refresh_loop.                                                       *)

AuthLoads ==
    /\ auth = "start"
    /\ NewJob("load", "read", 0)
    /\ auth' = "load"
    /\ UNCHANGED <<pause, httpVars>>

AuthLoaded ==
    /\ auth = "load" /\ JobOver
    /\ auth' = IF job.pc = "ok" THEN "verify" ELSE "listen"
    /\ job' = NoJob
    /\ UNCHANGED <<pause, httpVars>>

\* server.start: the port may be in use.
AuthListens ==
    /\ auth = "listen"
    /\ \/ auth' = "wait" /\ http' = "accept" /\ serving' = TRUE
       \/ auth' = "ended" /\ UNCHANGED <<http, serving>>
    /\ UNCHANGED <<job, pause, authSuccess, page>>

\* The poll of is_running and should_exit ends; the server's destructor begins:
\* it clears running_ and closes the socket.
AuthWaited ==
    /\ auth = "wait" /\ (~serving \/ shouldExit)
    /\ auth' = IF authSuccess /\ ~shouldExit THEN "accepted" ELSE "leaving"
    /\ serving' = FALSE
    /\ UNCHANGED <<job, pause, http, authSuccess, page>>

\* The destructor has joined the server's thread; auth_success goes out of scope.
AuthClosed ==
    /\ auth \in {"accepted", "leaving"} /\ http = "exit"
    /\ auth' = IF auth = "accepted" THEN "verify" ELSE "ended"
    /\ http' = "off"
    /\ authSuccess' = FALSE /\ page' = "none"
    /\ UNCHANGED <<job, pause, serving>>

AuthVerifies ==
    /\ auth = "verify"
    /\ auth' = IF Valid(token) THEN "loop" ELSE "ended"
    /\ UNCHANGED <<job, pause, httpVars>>

\* while (!should_exit_); the variant does not look.
LeavesMut == FALSE
Leaves == shouldExit

AuthChecks ==
    /\ auth = "loop"
    /\ IF Leaves THEN auth' = "ended" /\ UNCHANGED <<job, pause>>
       ELSE IF NeedsRefresh(token)
         THEN auth' = "refresh" /\ NewJob("refresh", "request", RequestTime) /\ UNCHANGED pause
         ELSE auth' = "pause" /\ pause' = CheckPeriod /\ UNCHANGED job
    /\ UNCHANGED httpVars

\* A refresh that fails ends the thread.
AuthRefreshed ==
    /\ auth = "refresh" /\ JobOver
    /\ IF job.pc = "ok" THEN auth' = "pause" /\ pause' = CheckPeriod
                        ELSE auth' = "ended" /\ UNCHANGED pause
    /\ job' = NoJob
    /\ UNCHANGED httpVars

AuthPauseOver ==
    /\ auth = "pause" /\ (pause = 0 \/ shouldExit)
    /\ auth' = "loop"
    /\ pause' = 0
    /\ UNCHANGED <<job, httpVars>>

AuthThread ==
    /\ \/ AuthLoads \/ AuthLoaded \/ AuthListens \/ AuthWaited \/ AuthClosed
       \/ AuthVerifies \/ AuthChecks \/ AuthRefreshed \/ AuthPauseOver
    /\ UNCHANGED <<service, file, token, shouldExit, mainVars>>

--------------------------------------------------------------------------------
(* The thread of the HTTP server: server_loop, handle_request.               *)

\* accept returns a connection: a callback with the state that was sent out,
\* one with another state, or no callback at all.  A thread that sits in accept
\* when the socket is closed stays there until the next connection.
HttpAccepts ==
    /\ http = "accept"
    /\ \/ http' = "exchange" /\ NewJob("exchange", "request", RequestTime)
            /\ UNCHANGED <<authSuccess, page>>
       \/ http' = "respond" /\ authSuccess' = FALSE /\ UNCHANGED <<job, page>>
       \/ http' = (IF serving THEN "accept" ELSE "exit") /\ page' \in {page, "invalid"}
            /\ UNCHANGED <<job, authSuccess>>
    /\ UNCHANGED serving

HttpExchanged ==
    /\ http = "exchange" /\ JobOver
    /\ authSuccess' = (job.pc = "ok")
    /\ job' = NoJob
    /\ http' = "respond"
    /\ UNCHANGED <<serving, page>>

HttpResponds ==
    /\ http = "respond"
    /\ page' = "success"
    /\ serving' = FALSE
    /\ http' = "exit"
    /\ UNCHANGED <<job, authSuccess>>

HttpThread ==
    /\ HttpAccepts \/ HttpExchanged \/ HttpResponds
    /\ UNCHANGED <<service, file, token, auth, pause, shouldExit, mainVars>>

--------------------------------------------------------------------------------
(* The main thread: get_token, which copies token_ field by field, and       *)
(* stop_auth_flow, which an application may call (the bridge does not).      *)

\* The last check after the timeout; the variant goes on waiting.
GivesUpMut == FALSE
GivesUp == patience = 0 /\ ~Valid(token)

MainPolls ==
    /\ main = "poll"
    /\ \/ Valid(token) /\ main' = "access"
       \/ GivesUp /\ main' = "failed"
    /\ patience' = 0
    /\ UNCHANGED <<again, copy, shouldExit, auth>>

MainCopies ==
    /\ main \in {"access", "refresh", "expires"}
    /\ copy' = [copy EXCEPT ![main] = token[main]]
    /\ main' = CASE main = "access" -> "refresh"
                 [] main = "refresh" -> "expires"
                 [] main = "expires" -> "got"
    /\ UNCHANGED <<patience, again, shouldExit, auth>>

MainStops ==
    /\ main \in {"poll", "got"}
    /\ shouldExit' = TRUE
    /\ main' = "stopping"
    /\ patience' = 0 /\ copy' = NoToken
    /\ UNCHANGED <<again, auth>>

MainJoined ==
    /\ main = "stopping" /\ auth = "ended"
    /\ main' = "stopped"
    /\ UNCHANGED <<patience, again, copy, shouldExit, auth>>

\* start_auth_flow once more, and get_token: token_ is what the first flow left.
MainStartsAgain ==
    /\ main = "stopped"
    /\ shouldExit' = FALSE
    /\ auth' = "start"
    /\ main' = "poll" /\ patience' = Patience /\ again' = TRUE
    /\ UNCHANGED copy

MainThread ==
    /\ MainPolls \/ MainCopies \/ MainStops \/ MainJoined \/ MainStartsAgain
    /\ UNCHANGED <<service, file, token, job, pause, httpVars>>

\* The process is killed and started again; the file is what it is.
Restart == FreshProcess /\ UNCHANGED <<service, file>>

--------------------------------------------------------------------------------
(* Time.                                                                     *)

JobBusy == job.pc \notin {"none", "request"} \/ (job.pc = "request" /\ job.left = 0)

AuthBusy ==
    \/ auth \in {"start", "listen", "verify", "loop"}
    \/ auth = "wait" /\ (~serving \/ shouldExit)
    \/ auth \in {"accepted", "leaving"} /\ http = "exit"
    \/ auth = "pause" /\ (pause = 0 \/ shouldExit)

LessMut(n) == n - 1             \* variant: counts past zero
Less(n) == IF n > 0 THEN n - 1 ELSE 0

Tick ==
    /\ ~JobBusy /\ ~AuthBusy /\ http # "respond"
    /\ now' = IF now < MaxTime THEN now + 1 ELSE now
    /\ job' = [job EXCEPT !.left = Less(@)]
    /\ pause' = Less(pause)
    /\ patience' = Less(patience)
    /\ UNCHANGED <<dies, file, token, auth, httpVars, shouldExit, main, again, copy>>

Next == Job \/ AuthThread \/ HttpThread \/ MainThread \/ Restart \/ Tick

Spec == Init /\ [][Next]_vars

(***************************************************************************)
(* The threads of the process are scheduled, a request is over by its time *)
(* limit, and time goes on.  Nothing is assumed of the browser, of the     *)
(* application that calls stop_auth_flow, or of what the service answers.  *)
(***************************************************************************)
FairSpec ==
    /\ Spec
    /\ WF_vars(Job) /\ WF_vars(AuthThread)
    /\ WF_vars((HttpExchanged \/ HttpResponds) /\ HttpThread)
    /\ WF_vars((MainPolls \/ MainCopies \/ MainJoined) /\ MainThread)
    /\ WF_vars(Tick)

--------------------------------------------------------------------------------
(* Properties.                                                               *)

\* What is_token_valid calls valid is accepted by the service, at every moment
\* of an update of token_ by another thread, after a crash and a load, and with
\* requests that take their time: get_token hands out no dead token.
\* The exception is a second start_auth_flow, whose load_token writes over a
\* token_ that is not empty.
ValidMeansAccepted ==
    (Valid(token) /\ ~(again /\ job.kind = "load")) => now < dies[token.access]

\* As long as its refreshes succeed, token_refresh_loop keeps the token valid
\* without a gap: needs_refresh comes early enough for the pause between two
\* checks and the request.
TokenStaysValid == auth \in {"loop", "pause", "refresh"} => Valid(token)

\* A process killed while it pauses does not come back with a token that has been
\* replaced: the file holds what the last load, exchange or refresh has put into
\* token_, or, if the disk was full, nothing that can be loaded.
PausedFileIsCurrent ==
    auth = "pause" => file \in {[kind |-> "token", token |-> token], [kind |-> "torn"]}

\* stop_auth_flow returns whenever the user has authorized the program: a pause, a
\* request under way or one that fails does not keep the thread it joins.
StopAuthReturns ==
    (main = "stopping" /\ auth \in {"accepted", "verify", "loop", "pause", "refresh"})
        ~> (main # "stopping")

\* get_token returns, with a token or without one, in every process that is not
\* killed, whatever the browser and the service do.
GetTokenReturns ==
    (<>[][~Restart]_vars) => ((main = "poll") ~> (main # "poll"))

\* The browser is told that the authorization succeeded if it did.
PageTellsTheTruth == page = "success" => authSuccess

\* The clients made from get_token's copy have a token the service accepts, while
\* MiotOAuth has one.
ClientTokenAccepted == (main = "got" /\ Valid(token)) => now < dies[copy.access]
================================================================================
