-------------------------- MODULE TokenLifecycleProofs --------------------------
(***************************************************************************)
(* Type correctness of TokenLifecycle, and its three safety invariants,    *)
(* for every lifetime of a token, margin, check period and request time in *)
(* the proportion TimingAssumption states.  The inductive invariant IInv   *)
(* says who owns the job under way, that token_ and the file never claim   *)
(* more time than the service grants, and how much time token_ has left at *)
(* each place of the refresh thread.                                       *)
(***************************************************************************)
EXTENDS TokenLifecycle, TLAPS

--------------------------------------------------------------------------------
(* What the constants and the type sets say.                                 *)

LEMMA Numbers ==
    /\ Lifetime \in Nat \ {0}
    /\ \A t \in TokenInfo : t.access \in Nat /\ t.expires \in Nat
BY TimeAssumption, TimingAssumption DEF Lifetime, TokenInfo, Id, NoId

LEMMA Constants == NoToken \in TokenInfo /\ NoJob \in JobType
BY TimeAssumption DEF NoToken, NoJob, JobType, JobPC, TokenInfo, Id, NoId

\* What was early enough for a clock is early enough for a later one.
LEMMA Later == \A n, a, b, c \in Nat : a <= b /\ n <= a + c => n <= b + c
OBVIOUS

\* A request that takes its time leaves expires_at before the end the service sets.
LEMMA RoomForRequest ==
    \A a, b, s \in Nat : a + b <= s + RequestTime => a + Lifetime <= s + ExpiresIn
BY Numbers, TimeAssumption, TimingAssumption

\* A token that needs no refresh yet lasts for a pause and a request.
LEMMA RoomForPause ==
    \A a, e \in Nat : ~(a >= e - Margin) =>
        a + (RequestTime + CheckPeriod) < e /\ a + RequestTime < e
BY TimeAssumption, TimingAssumption

LEMMA NewJobType ==
    ASSUME TypeOK, NEW kind \in {"load", "refresh", "exchange"}, NEW pc \in JobPC,
           NEW time \in 0..RequestTime, NewJob(kind, pc, time)
    PROVE  /\ job' = [kind |-> kind, pc |-> pc, reply |-> NoToken, left |-> time, sent |-> now]
           /\ job' \in JobType
<1>1. job' = [kind |-> kind, pc |-> pc, reply |-> NoToken, left |-> time, sent |-> now]
  BY DEF NewJob, NoJob
<1> QED
  BY <1>1, Constants DEF JobType, TypeOK

LEMMA TokenUpdates ==
    ASSUME NEW t \in TokenInfo, NEW r \in TokenInfo, NEW f \in {"access", "refresh", "expires"}
    PROVE  /\ [t EXCEPT ![f] = r[f]] \in TokenInfo
           /\ f = "access" => [t EXCEPT ![f] = r[f]] = [t EXCEPT !.access = r.access]
           /\ f = "refresh" => [t EXCEPT ![f] = r[f]] = [t EXCEPT !.refresh = r.refresh]
           /\ f = "expires" => [t EXCEPT ![f] = r[f]] = [t EXCEPT !.expires = r.expires]
<1>1. CASE f = "access"
  BY <1>1 DEF TokenInfo
<1>2. CASE f = "refresh"
  BY <1>2 DEF TokenInfo
<1>3. CASE f = "expires"
  BY <1>3 DEF TokenInfo
<1> QED
  BY <1>1, <1>2, <1>3

LEMMA FileContents ==
    /\ \A f \in FileType : f.kind = "token" =>
          f.token \in TokenInfo /\ f = [kind |-> "token", token |-> f.token]
    /\ [kind |-> "torn"] \in FileType /\ [kind |-> "none"] \in FileType
    /\ \A t \in TokenInfo : [kind |-> "token", token |-> t] \in FileType
BY DEF FileType

LEMMA JobOutcomes ==
    ASSUME TypeOK
    PROVE  /\ \A pc \in JobPC : [job EXCEPT !.pc = pc] \in JobType
           /\ \A pc \in JobPC, r \in TokenInfo :
                 /\ [job EXCEPT !.reply = r, !.pc = pc] \in JobType
                 /\ [NoJob EXCEPT !.kind = job.kind, !.pc = pc, !.reply = r] \in JobType
           /\ \A pc \in JobPC : [NoJob EXCEPT !.kind = job.kind, !.pc = pc] \in JobType
           /\ [job EXCEPT !.kind = "refresh", !.pc = "request", !.left = RequestTime,
                          !.sent = now] \in JobType
<1>1. job \in JobType /\ NoJob \in JobType /\ RequestTime \in 0..RequestTime
  BY Constants, FileContents, TimeAssumption DEF TypeOK
<1> QED
  BY <1>1 DEF JobType, JobPC, TypeOK

LEMMA FieldOrder ==
    /\ Following("access") = "refresh" /\ Following("refresh") = "expires"
    /\ Following("expires") = "saved" /\ Fields[1] = "access"
<1>1. /\ Fields[1] = "access" /\ Fields[2] = "refresh"
      /\ Fields[3] = "expires" /\ Fields[4] = "saved"
  BY DEF Fields
<1> DEFINE Place(f) == CHOOSE i \in 1..3 : Fields[i] = f
<1>2. Place("access") = 1
  BY <1>1
<1>3. Place("refresh") = 2
  BY <1>1
<1>4. Place("expires") = 3
  BY <1>1
<1>5. \A f : Following(f) = Fields[1 + Place(f)]
  BY DEF Following
<1> HIDE DEF Place
<1> QED
  BY <1>1, <1>2, <1>3, <1>4, <1>5

--------------------------------------------------------------------------------
(* Every step keeps the types.                                               *)

LEMMA JobTypes == ASSUME TypeOK, Job PROVE TypeOK'
<1>1. job \in JobType /\ file \in FileType /\ token \in TokenInfo /\ job.reply \in TokenInfo
  BY DEF TypeOK, JobType
<1>2. /\ job' \in JobType /\ file' \in FileType /\ token' \in TokenInfo
      /\ dies' \in Seq(Nat) /\ Len(dies') <= MaxIssue
  <2> USE DEF service
  <2>1. CASE JobRead
    BY <1>1, <2>1, JobOutcomes, FileContents, FieldOrder DEF JobRead, JobPC, TypeOK
  <2>2. CASE JobAnswered
    <3> DEFINE id == Len(dies) + 1
               r == [access |-> id, refresh |-> id, expires |-> ExpiresAt]
    <3>1. CASE job' = [job EXCEPT !.pc = "failed"] /\ UNCHANGED dies
      <4>1. job' \in JobType
        BY <3>1, JobOutcomes DEF JobPC
      <4> QED
        BY <1>1, <2>2, <3>1, <4>1 DEF JobAnswered, TypeOK
    <3>2. CASE /\ Len(dies) < MaxIssue /\ dies' = Append(dies, job.sent + ExpiresIn)
               /\ job' = [NoJob EXCEPT !.kind = job.kind, !.pc = Fields[1], !.reply = r]
      <4>1. r \in TokenInfo
        <5>1. id \in Id
          <6>1. Len(dies) \in Nat /\ MaxIssue \in Nat
            BY TimeAssumption DEF TypeOK
          <6> QED
            BY <3>2, <6>1 DEF Id
        <5>2. ExpiresAt \in Nat
          BY Numbers DEF TypeOK, ExpiresAt
        <5> HIDE DEF id
        <5> QED
          BY <5>1, <5>2 DEF TokenInfo
      <4> HIDE DEF r
      <4>2. job' = [NoJob EXCEPT !.kind = job.kind, !.pc = "access", !.reply = r]
        BY <3>2, FieldOrder
      <4>3. job' \in JobType
        BY <4>1, <4>2, JobOutcomes DEF JobPC
      <4>4. dies' \in Seq(Nat) /\ Len(dies') <= MaxIssue
        <5>1. job.sent + ExpiresIn \in Nat
          BY <1>1, TimeAssumption DEF JobType
        <5> QED
          BY <3>2, <5>1, TimeAssumption DEF TypeOK
      <4> QED
        BY <1>1, <2>2, <4>3, <4>4 DEF JobAnswered
    <3> QED
      BY <2>2, <3>1, <3>2 DEF JobAnswered
  <2>3. CASE JobAssigns
    <3> DEFINE t == [token EXCEPT ![job.pc] = job.reply[job.pc]]
    <3>1. t \in TokenInfo
      BY <1>1, <2>3, TokenUpdates DEF JobAssigns
    <3> HIDE DEF t
    <3>2. Loaded(t) \in JobType
      BY JobOutcomes DEF Loaded, JobPC
    <3>3. job' \in JobType
      BY <2>3, <3>2, JobOutcomes, FieldOrder DEF JobAssigns, JobPC, AfterUpdate, t
    <3>4. token' = t /\ UNCHANGED <<service, file>>
      BY <2>3 DEF JobAssigns, t
    <3> QED
      BY <3>1, <3>3, <3>4 DEF TypeOK
  <2>4. CASE JobThrows
    BY <1>1, <2>4, JobOutcomes DEF JobThrows, JobPC, TypeOK
  <2>5. CASE JobOpens
    BY <1>1, <2>5, JobOutcomes, FileContents DEF JobOpens, JobPC, TypeOK
  <2>6. CASE JobWrites
    BY <1>1, <2>6, JobOutcomes, FileContents DEF JobWrites, JobPC, TypeOK
  <2> QED
    BY <2>1, <2>2, <2>3, <2>4, <2>5, <2>6 DEF Job
<1>3. now' = now /\ UNCHANGED <<auth, pause, httpVars, shouldExit, mainVars>>
  BY DEF Job, JobRead, JobAnswered, JobAssigns, JobThrows, JobOpens, JobWrites, service
<1> QED
  BY <1>2, <1>3 DEF TypeOK, httpVars, mainVars

LEMMA AuthTypes == ASSUME TypeOK, AuthThread PROVE TypeOK'
<1>1. job' \in JobType
  <2>1. CASE job' = job \/ job' = NoJob
    BY <2>1, Constants DEF TypeOK
  <2>2. CASE NewJob("load", "read", 0) \/ NewJob("refresh", "request", RequestTime)
    BY <2>2, NewJobType, TimeAssumption DEF JobPC
  <2> QED
    BY <2>1, <2>2 DEF AuthThread, AuthLoads, AuthLoaded, AuthListens, AuthWaited,
       AuthClosed, AuthVerifies, AuthChecks, AuthRefreshed, AuthPauseOver
<1>2. auth' \in {"start", "load", "listen", "wait", "accepted", "leaving", "verify",
                 "loop", "refresh", "pause", "ended"}
  BY DEF AuthThread, AuthLoads, AuthLoaded, AuthListens, AuthWaited,
     AuthClosed, AuthVerifies, AuthChecks, AuthRefreshed, AuthPauseOver
<1>3. pause' \in 0..CheckPeriod
  BY TimeAssumption
     DEF TypeOK, AuthThread, AuthLoads, AuthLoaded, AuthListens, AuthWaited,
         AuthClosed, AuthVerifies, AuthChecks, AuthRefreshed, AuthPauseOver
<1>4. /\ http' \in {"off", "accept", "exchange", "respond", "exit"}
      /\ serving' \in BOOLEAN /\ authSuccess' \in BOOLEAN
      /\ page' \in {"none", "success", "invalid"}
  BY DEF TypeOK, AuthThread, AuthLoads, AuthLoaded, AuthListens, AuthWaited, httpVars,
         AuthClosed, AuthVerifies, AuthChecks, AuthRefreshed, AuthPauseOver
<1>5. UNCHANGED <<service, file, token, shouldExit, mainVars>>
  BY DEF AuthThread
<1> QED
  BY <1>1, <1>2, <1>3, <1>4, <1>5 DEF TypeOK, service, mainVars

LEMMA HttpTypes == ASSUME TypeOK, HttpThread PROVE TypeOK'
<1>1. job' \in JobType
  <2>1. CASE job' = job \/ job' = NoJob
    BY <2>1, Constants DEF TypeOK
  <2>2. CASE NewJob("exchange", "request", RequestTime)
    BY <2>2, NewJobType, TimeAssumption DEF JobPC
  <2> QED
    BY <2>1, <2>2 DEF HttpThread, HttpAccepts, HttpExchanged, HttpResponds
<1>2. /\ http' \in {"off", "accept", "exchange", "respond", "exit"}
      /\ serving' \in BOOLEAN /\ authSuccess' \in BOOLEAN
      /\ page' \in {"none", "success", "invalid"}
  BY DEF TypeOK, HttpThread, HttpAccepts, HttpExchanged, HttpResponds
<1>3. UNCHANGED <<service, file, token, auth, pause, shouldExit, mainVars>>
  BY DEF HttpThread
<1> QED
  BY <1>1, <1>2, <1>3 DEF TypeOK, service, mainVars

LEMMA MainTypes == ASSUME TypeOK, MainThread PROVE TypeOK'
<1> USE DEF MainThread, MainPolls, MainCopies, MainStops, MainJoined, MainStartsAgain
<1>1. copy' \in TokenInfo
  <2>1. token \in TokenInfo /\ copy \in TokenInfo
    BY DEF TypeOK
  <2>2. CASE MainCopies
    <3>1. /\ copy' = [copy EXCEPT ![main] = token[main]]
          /\ main \in {"access", "refresh", "expires"}
      BY <2>2
    <3> HIDE DEF MainThread, MainPolls, MainCopies, MainStops, MainJoined, MainStartsAgain
    <3> QED
      BY <2>1, <3>1, TokenUpdates
  <2>3. CASE ~MainCopies
    BY <2>1, <2>3, Constants
  <2> QED
    BY <2>2, <2>3
<1>2. main' \in {"poll", "access", "refresh", "expires", "got", "failed", "stopping",
                 "stopped"}
  OBVIOUS
<1>3. patience' \in 0..Patience
  BY TimeAssumption DEF TypeOK
<1>4. again' \in BOOLEAN
  BY Zenon DEF TypeOK
<1>5. shouldExit' \in BOOLEAN
  BY Zenon DEF TypeOK
<1>6. auth' \in {auth, "start"}
  OBVIOUS
<1>7. UNCHANGED <<service, file, token, job, pause, httpVars>>
  OBVIOUS
<1> HIDE DEF MainThread
<1> QED
  BY <1>1, <1>2, <1>3, <1>4, <1>5, <1>6, <1>7 DEF TypeOK, service, httpVars

LEMMA RestartTypes == ASSUME TypeOK, Restart PROVE TypeOK'
<1>1. now' \in 0..MaxTime /\ dies' \in Seq(Nat) /\ Len(dies') <= MaxIssue
      /\ file' \in FileType
  BY DEF Restart, TypeOK, service
<1>2. token' \in TokenInfo /\ copy' \in TokenInfo /\ job' \in JobType
      /\ pause' \in 0..CheckPeriod /\ patience' \in 0..Patience
  BY Constants, TimeAssumption DEF Restart, FreshProcess
<1> QED
  BY <1>1, <1>2 DEF Restart, FreshProcess, TypeOK

LEMMA TickTypes == ASSUME TypeOK, Tick PROVE TypeOK'
<1>1. job' \in JobType
  <2>1. job' = [job EXCEPT !.left = Less(job.left)]
    BY DEF Tick
  <2>2. job \in JobType /\ Less(job.left) \in 0..RequestTime
    BY TimeAssumption DEF TypeOK, JobType, Less
  <2> QED
    BY <2>1, <2>2 DEF JobType
<1>2. now' \in 0..MaxTime /\ pause' \in 0..CheckPeriod /\ patience' \in 0..Patience
  <2>1. now' \in 0..MaxTime
    BY TimeAssumption DEF Tick, TypeOK
  <2>2. \A m \in Nat : \A n \in 0..m : Less(n) \in 0..m
    BY DEF Less
  <2>3. pause' \in 0..CheckPeriod /\ patience' \in 0..Patience
    BY <2>2, TimeAssumption DEF Tick, TypeOK
  <2> QED
    BY <2>1, <2>3
<1>3. UNCHANGED <<dies, file, token, auth, httpVars, shouldExit, main, again, copy>>
  BY DEF Tick
<1> QED
  BY <1>1, <1>2, <1>3 DEF TypeOK, httpVars

LEMMA InitTypes == Init => TypeOK
<1> SUFFICES ASSUME Init PROVE TypeOK
  OBVIOUS
<1>1. token \in TokenInfo /\ copy \in TokenInfo /\ job \in JobType /\ file \in FileType
  BY Constants, FileContents DEF Init
<1>2. dies \in Seq(Nat) /\ Len(dies) <= MaxIssue
  BY TimeAssumption DEF Init
<1>3. now \in 0..MaxTime /\ pause \in 0..CheckPeriod /\ patience \in 0..Patience
  BY TimeAssumption DEF Init
<1> QED
  BY <1>1, <1>2, <1>3 DEF Init, TypeOK

--------------------------------------------------------------------------------
(* The inductive invariant.                                                  *)

Assigning == job.pc \in {"access", "refresh", "expires"}

\* There is a job exactly when one of the two threads that start jobs waits for it.
JobHasOwner ==
    /\ job.pc = "none" <=> ~(auth \in {"load", "refresh"} \/ http = "exchange")
    /\ auth = "load" => job.kind \in {"load", "refresh"}
    /\ auth = "refresh" => job.kind = "refresh"
    /\ http = "exchange" => job.kind = "exchange"
    /\ job.kind = "load" =>
          auth = "load" /\ job.pc \in {"read", "access", "refresh", "expires", "ok", "failed"}
    /\ job.pc = "read" => job.kind = "load"

\* The HTTP server lives while the refresh thread waits for it, and its last
\* connection is the one that brings the code.
ServerBelongsToWait ==
    /\ http # "off" <=> auth \in {"wait", "accepted", "leaving"}
    /\ authSuccess => http \in {"respond", "exit"}
    /\ http = "exit" => ~serving
    /\ auth = "accepted" => authSuccess

\* Tokens die in the order of their issue, none later than one issued now would.
ServiceInOrder ==
    /\ \A i, j \in 1..Len(dies) : i <= j => dies[i] <= dies[j]
    /\ \A i \in 1..Len(dies) : dies[i] <= now + ExpiresIn
    /\ job.pc = "request" =>
          /\ job.sent <= now
          /\ now + job.left <= job.sent + RequestTime
          /\ \A i \in 1..Len(dies) : dies[i] <= job.sent + ExpiresIn

\* What says when t expires says so before the service stops accepting t, though the
\* fields of t may come from two tokens.
Covered(t) ==
    IF t.access = NoId THEN t.expires = 0
    ELSE t.access <= Len(dies) /\ t.expires <= dies[t.access]

Stored(t) == file = [kind |-> "token", token |-> t]

\* What is about to be assigned: the token of the file, or the one just issued.
ReplyCovered ==
    Assigning =>
        /\ job.reply.access # NoId /\ Covered(job.reply)
        /\ job.kind = "load" => Stored(job.reply)
        /\ job.kind # "load" => /\ job.reply.access = Len(dies)
                                /\ job.reply.expires = now + Lifetime
        /\ job.pc \in {"refresh", "expires"} => token.access = job.reply.access
        /\ job.pc = "expires" => token.refresh = job.reply.refresh

\* The one time when token_ is not covered: a second load_token writes over it.
HalfLoaded == job.kind = "load" /\ job.pc \in {"refresh", "expires"}

TokensCovered ==
    /\ file.kind = "token" => file.token.access # NoId /\ Covered(file.token)
    /\ (again /\ HalfLoaded) \/ Covered(token)
    /\ (~again /\ (auth = "start" \/ (job.kind = "load" /\ (job.pc = "read" \/ Assigning))))
          => token.expires = 0
    /\ job.pc \in {"open", "write"} => token.access # NoId /\ token.expires = now + Lifetime
    /\ job.pc = "write" => file = [kind |-> "torn"]

Ahead(n) == now + n < token.expires
FileIsCurrent == Stored(token) \/ file = [kind |-> "torn"]

\* The time token_ has left at each place of the refresh thread is enough for what
\* may come before the next one replaces it.
EnoughTime ==
    /\ job.pc = "ok" => Ahead(RequestTime) /\ FileIsCurrent
    /\ (job.pc = "ok" /\ job.kind # "load") => Ahead(RequestTime + CheckPeriod)
    /\ (auth \in {"verify", "loop"} \/ (authSuccess /\ auth \in {"wait", "accepted"}))
          => Ahead(RequestTime) /\ FileIsCurrent
    /\ auth = "pause" => Ahead(RequestTime + pause) /\ FileIsCurrent
    /\ auth = "refresh" => Ahead(IF job.pc = "request" THEN job.left ELSE 0)

IInv ==
    /\ TypeOK /\ JobHasOwner /\ ServerBelongsToWait
    /\ ServiceInOrder /\ ReplyCovered /\ TokensCovered /\ EnoughTime

LEMMA InitIInv == Init => IInv
BY InitTypes, Constants DEF Init, IInv, JobHasOwner, ServerBelongsToWait, ServiceInOrder,
   ReplyCovered, TokensCovered, EnoughTime, Assigning, Covered, HalfLoaded, NoJob, NoToken

\* The numbers, for the arithmetic of the steps.
LEMMA TypeFacts ==
    ASSUME TypeOK
    PROVE  /\ now \in Nat /\ pause \in Nat /\ Len(dies) \in Nat
           /\ token.access \in Nat /\ token.expires \in Nat
           /\ job.left \in Nat /\ job.sent \in Nat
           /\ job.reply.access \in Nat /\ job.reply.expires \in Nat
           /\ Lifetime \in Nat /\ ExpiresIn \in Nat /\ RequestTime \in Nat
           /\ CheckPeriod \in Nat /\ Margin \in Nat
BY Numbers, TimeAssumption DEF TypeOK, JobType

LEMMA IssueFacts == TypeOK => \A i \in 1..Len(dies) : dies[i] \in Nat
BY DEF TypeOK

\* A request that starts now asks for a token that dies last.
LEMMA NewRequestInOrder ==
    ASSUME TypeOK, ServiceInOrder, now' = now, dies' = dies,
           job'.pc = "request" => job'.sent = now /\ job'.left = RequestTime
    PROVE  ServiceInOrder'
<1>1. now <= now /\ now + RequestTime <= now + RequestTime
  BY TypeFacts
<1> QED
  BY <1>1 DEF ServiceInOrder

--------------------------------------------------------------------------------
(* The steps of a job.                                                       *)

\* What a step of a job leaves alone.
LEMMA JobFrame ==
    ASSUME IInv, Job
    PROVE  /\ TypeOK /\ TypeOK' /\ now' = now
           /\ auth' = auth /\ pause' = pause /\ again' = again
           /\ ServerBelongsToWait'
           /\ job.pc \notin {"none", "ok", "failed"}
           /\ auth' = "refresh" \/ auth' = "load" \/ http' = "exchange"
           /\ http' = http /\ authSuccess' = authSuccess
           /\ ~(auth \in {"start", "verify", "loop", "pause"})
           /\ ~(authSuccess /\ auth \in {"wait", "accepted"})
<1>1. TypeOK /\ TypeOK'
  BY JobTypes DEF IInv
<1>2. /\ now' = now /\ auth' = auth /\ pause' = pause /\ again' = again
      /\ http' = http /\ authSuccess' = authSuccess /\ serving' = serving
      /\ job.pc \notin {"none", "ok", "failed"}
  BY DEF Job, JobRead, JobAnswered, JobAssigns, JobThrows, JobOpens, JobWrites, service,
     httpVars, mainVars
<1>3. ServerBelongsToWait /\ JobHasOwner
  BY DEF IInv
<1> QED
  BY <1>1, <1>2, <1>3 DEF ServerBelongsToWait, JobHasOwner

\* load_token finds the token of an earlier process in the file, or nothing.
LEMMA JobReadStep == ASSUME IInv, Job, JobRead PROVE IInv'
<1> USE JobFrame
<1>1. dies' = dies /\ file' = file /\ token' = token /\ job.kind = "load"
  BY DEF JobRead, service, IInv, JobHasOwner
<1>2. CASE /\ file.kind = "token"
           /\ job' = [job EXCEPT !.reply = file.token, !.pc = Fields[1]]
  <2>1. job'.pc = "access" /\ job'.kind = "load" /\ job'.reply = file.token
    BY <1>1, <1>2, FieldOrder DEF TypeOK, JobType
  <2>2. file = [kind |-> "token", token |-> file.token]
    BY <1>2, FileContents DEF TypeOK
  <2> QED
    BY <1>1, <1>2, <2>1, <2>2 DEF IInv, JobHasOwner, ServiceInOrder, ReplyCovered,
       TokensCovered, EnoughTime, Assigning, Covered, Stored, HalfLoaded, JobRead
<1>3. CASE job' = [job EXCEPT !.pc = "failed"]
  <2>1. job'.pc = "failed" /\ job'.kind = "load"
    BY <1>1, <1>3 DEF TypeOK, JobType
  <2> QED
    BY <1>1, <1>3, <2>1 DEF IInv, JobHasOwner, ServiceInOrder, ReplyCovered,
       TokensCovered, EnoughTime, Assigning, Covered, Stored, HalfLoaded, JobRead
<1> QED
  BY <1>2, <1>3 DEF JobRead

\* A token is issued: it dies last, and expires_at leaves room for the request.
LEMMA JobAnsweredStep == ASSUME IInv, Job, JobAnswered PROVE IInv'
<1> USE JobFrame
<1>1. file' = file /\ token' = token /\ job.pc = "request" /\ job.kind # "load"
  BY DEF JobAnswered, service, IInv, JobHasOwner
<1>2. CASE job' = [job EXCEPT !.pc = "failed"] /\ UNCHANGED dies
  <2>1. job'.pc = "failed" /\ job'.kind = job.kind
    BY <1>1, <1>2 DEF TypeOK, JobType
  <2> QED
    <3>1. JobHasOwner' /\ ServiceInOrder' /\ ReplyCovered' /\ TokensCovered'
      BY <1>1, <1>2, <2>1 DEF IInv, JobHasOwner, ServiceInOrder, ReplyCovered,
         TokensCovered, Assigning, Covered, HalfLoaded
    <3>2. EnoughTime'
      BY <1>1, <2>1, TypeFacts DEF IInv, EnoughTime, Ahead
    <3> QED
      BY <3>1, <3>2 DEF IInv
<1> DEFINE id == Len(dies) + 1
           r == [access |-> id, refresh |-> id, expires |-> ExpiresAt]
<1>3. CASE /\ dies' = Append(dies, job.sent + ExpiresIn)
           /\ job' = [NoJob EXCEPT !.kind = job.kind, !.pc = Fields[1], !.reply = r]
  <2>1. /\ job'.pc = "access" /\ job'.kind = job.kind
        /\ job'.reply.access = id /\ job'.reply.expires = now + Lifetime
    BY <1>3, FieldOrder DEF NoJob, ExpiresAt
  <2>2. dies \in Seq(Nat) /\ Len(dies) \in Nat /\ job.sent + ExpiresIn \in Nat
    <3>1. job.sent \in Nat /\ ExpiresIn \in Nat
      BY TypeFacts
    <3> QED
      BY <3>1 DEF TypeOK
  <2>3. /\ Len(dies') = id /\ dies'[id] = job.sent + ExpiresIn
        /\ \A i \in 1..Len(dies) : dies'[i] = dies[i]
    BY <1>3, <2>2
  <2>4. /\ now + job.left <= job.sent + RequestTime
        /\ \A i \in 1..Len(dies) : dies[i] <= job.sent + ExpiresIn
        /\ \A i, j \in 1..Len(dies) : i <= j => dies[i] <= dies[j]
        /\ \A i \in 1..Len(dies) : dies[i] <= now + ExpiresIn
    BY <1>1 DEF IInv, ServiceInOrder
  <2>5. job.sent <= now
    BY <1>1 DEF IInv, ServiceInOrder
  <2>6. now + Lifetime <= job.sent + ExpiresIn
    <3>1. now \in Nat /\ job.left \in Nat /\ job.sent \in Nat
      BY TypeFacts
    <3> QED
      BY <2>4, <3>1, RoomForRequest
  <2>7. JobHasOwner'
    BY <1>1, <2>1 DEF IInv, JobHasOwner
  <2>8. ServiceInOrder'
    <3> HIDE DEF id
    <3>0. /\ id \in Nat /\ \A i \in 1..id : i \in 1..Len(dies) \/ i = id
          /\ \A i \in 1..Len(dies) : i < id
          /\ dies'[id] \in Nat
      BY <2>2, <2>3 DEF id
    <3>1. \A i, j \in 1..Len(dies') : i <= j => dies'[i] <= dies'[j]
      BY <2>3, <2>4, <3>0
    <3>2. \A i \in 1..Len(dies') : dies'[i] <= now + ExpiresIn
      <4>1. dies'[id] <= now + ExpiresIn
        BY <2>3, <2>5, TypeFacts
      <4> QED
        BY <2>3, <2>4, <3>0, <4>1
    <3> QED
      BY <2>1, <3>1, <3>2 DEF ServiceInOrder
  <2>9. \A t \in TokenInfo : Covered(t) => Covered(t)'
    <3> SUFFICES ASSUME NEW t \in TokenInfo, Covered(t) PROVE Covered(t)'
      OBVIOUS
    <3>1. t.access \in Nat
      BY Numbers
    <3>2. t.access # NoId => t.access \in 1..Len(dies)
      BY <2>2, <3>1 DEF Covered, NoId
    <3> QED
      BY <2>2, <2>3, <3>2 DEF Covered
  <2>10. ReplyCovered'
    <3>1. id # NoId
      BY <2>2 DEF NoId
    <3> QED
      BY <1>1, <2>1, <2>3, <2>6, <3>1 DEF ReplyCovered, Covered, Assigning
  <2>11. TokensCovered'
    <3>1. file.kind = "token" => file.token \in TokenInfo
      BY FileContents DEF TypeOK
    <3>2. token \in TokenInfo
      BY DEF TypeOK
    <3> QED
      BY <1>1, <2>1, <2>9, <3>1, <3>2 DEF IInv, TokensCovered, HalfLoaded, Assigning
  <2>12. EnoughTime'
    BY <1>1, <2>1, TypeFacts DEF IInv, EnoughTime, Ahead
  <2> QED
    BY <2>7, <2>8, <2>10, <2>11, <2>12 DEF IInv
<1> QED
  BY <1>2, <1>3 DEF JobAnswered

\* A field is assigned; after the last one token_ is the reply.
LEMMA JobAssignsStep == ASSUME IInv, Job, JobAssigns PROVE IInv'
<1> USE JobFrame
<1> DEFINE t == [token EXCEPT ![job.pc] = job.reply[job.pc]]
<1>1. /\ Assigning /\ file' = file /\ dies' = dies /\ token' = t
      /\ token \in TokenInfo /\ job.reply \in TokenInfo
  BY DEF JobAssigns, service, Assigning, TypeOK, JobType
<1>2. /\ job.reply.access # NoId /\ Covered(job.reply)
      /\ job.kind = "load" => Stored(job.reply)
      /\ job.kind # "load" => job.reply.access = Len(dies) /\ job.reply.expires = now + Lifetime
      /\ job.pc \in {"refresh", "expires"} => token.access = job.reply.access
      /\ job.pc = "expires" => token.refresh = job.reply.refresh
  BY <1>1 DEF IInv, ReplyCovered
<1>3. ServiceInOrder
  BY DEF IInv
<1>4. CASE job.pc = "access"
  <2>1. t = [token EXCEPT !.access = job.reply.access]
    BY <1>1, <1>4, TokenUpdates
  <2>2. job' = [job EXCEPT !.pc = "refresh"]
    BY <1>4, FieldOrder DEF JobAssigns
  <2>3. job'.pc = "refresh" /\ job'.kind = job.kind /\ job'.reply = job.reply
    BY <2>2 DEF TypeOK, JobType
  <2>4. token'.access = job.reply.access /\ token'.expires = token.expires
    BY <1>1, <2>1 DEF TokenInfo
  <2>5. JobHasOwner' /\ ServiceInOrder'
    BY <1>1, <1>4, <2>3 DEF IInv, JobHasOwner, ServiceInOrder
  <2>6. ReplyCovered'
    BY <1>1, <1>2, <2>3, <2>4 DEF ReplyCovered, Covered, Stored
  <2>7. (again /\ job.kind = "load") \/ Covered(token)'
    <3>1. CASE job.kind = "load" /\ ~again
      <4>1. token.expires = 0
        BY <1>1, <3>1 DEF IInv, TokensCovered
      <4> QED
        <5>1. job.reply.access \in 1..Len(dies)
          BY <1>2, TypeFacts DEF Covered, NoId
        <5>2. 0 <= dies[job.reply.access]
          BY <5>1, IssueFacts
        <5>3. token'.access # NoId /\ token'.access <= Len(dies)
              /\ token'.expires <= dies[token'.access]
          BY <1>2, <2>4, <4>1, <5>2 DEF Covered
        <5> QED
          BY <1>1, <5>3 DEF Covered
    <3>2. CASE job.kind # "load"
      <4>1. Covered(token)
        BY <3>2 DEF IInv, TokensCovered, HalfLoaded
      <4>2. Len(dies) \in 1..Len(dies)
        BY <1>2, <3>2, TypeFacts DEF NoId
      <4>3. token.expires <= dies[Len(dies)]
        <5>1. CASE token.access = NoId
          BY <4>1, <4>2, <5>1, TypeFacts, IssueFacts DEF Covered
        <5>2. CASE token.access # NoId
          <6>1. token.access \in 1..Len(dies) /\ token.expires <= dies[token.access]
            BY <4>1, <5>2, TypeFacts DEF Covered, NoId
          <6>2. dies[token.access] <= dies[Len(dies)]
            BY <1>3, <4>2, <6>1, TypeFacts DEF ServiceInOrder
          <6> QED
            <7>1. /\ token.expires \in Nat /\ dies[token.access] \in Nat
                  /\ dies[Len(dies)] \in Nat
              BY <4>2, <6>1, TypeFacts, IssueFacts
            <7> QED
              BY <6>1, <6>2, <7>1
        <5> QED
          BY <5>1, <5>2
      <4> QED
        BY <1>1, <1>2, <2>4, <3>2, <4>2, <4>3 DEF Covered
    <3> QED
      BY <3>1, <3>2
  <2>8. TokensCovered'
    BY <1>1, <1>4, <2>3, <2>4, <2>7
       DEF IInv, TokensCovered, HalfLoaded, Assigning, Covered
  <2>9. EnoughTime'
    BY <1>1, <1>4, <2>3, <2>4 DEF IInv, EnoughTime, Ahead
  <2> QED
    BY <2>5, <2>6, <2>8, <2>9 DEF IInv
<1>5. CASE job.pc = "refresh"
  <2>1. t = [token EXCEPT !.refresh = job.reply.refresh]
    BY <1>1, <1>5, TokenUpdates
  <2>2. job' = [job EXCEPT !.pc = "expires"]
    BY <1>5, FieldOrder DEF JobAssigns
  <2>3. job'.pc = "expires" /\ job'.kind = job.kind /\ job'.reply = job.reply
    BY <2>2 DEF TypeOK, JobType
  <2>4. /\ token'.access = token.access /\ token'.expires = token.expires
        /\ token'.refresh = job.reply.refresh
    BY <1>1, <2>1 DEF TokenInfo
  <2>5. JobHasOwner' /\ ServiceInOrder'
    BY <1>1, <1>5, <2>3 DEF IInv, JobHasOwner, ServiceInOrder
  <2>6. ReplyCovered'
    BY <1>1, <1>2, <1>5, <2>3, <2>4 DEF ReplyCovered, Covered, Stored
  <2>7. TokensCovered'
    BY <1>1, <1>5, <2>3, <2>4
       DEF IInv, TokensCovered, HalfLoaded, Assigning, Covered
  <2>8. EnoughTime'
    BY <1>1, <1>5, <2>3, <2>4 DEF IInv, EnoughTime, Ahead
  <2> QED
    BY <2>5, <2>6, <2>7, <2>8 DEF IInv
<1>6. CASE job.pc = "expires"
  <2>1. token' = [token EXCEPT !.expires = job.reply.expires]
    BY <1>1, <1>6, TokenUpdates
  <2>2. token' = job.reply
    <3>1. /\ token = [access |-> token.access, refresh |-> token.refresh,
                       expires |-> token.expires]
          /\ job.reply = [access |-> job.reply.access, refresh |-> job.reply.refresh,
                           expires |-> job.reply.expires]
      BY <1>1 DEF TokenInfo
    <3>2. token' = [access |-> token.access, refresh |-> token.refresh,
                    expires |-> job.reply.expires]
      BY <2>1, <3>1
    <3> QED
      BY <1>2, <1>6, <3>1, <3>2
  <2>3. Covered(token)'
    BY <1>1, <1>2, <2>2 DEF Covered
  <2>4. CASE job.kind = "load"
    <3>1. job' = Loaded(token')
      BY <1>1, <1>6, <2>4, FieldOrder DEF JobAssigns
    <3>2. \/ job'.kind = "load" /\ job'.pc = "failed"
          \/ /\ job'.kind = "refresh" /\ job'.pc = "request"
             /\ job'.left = RequestTime /\ job'.sent = now
          \/ job'.kind = "load" /\ job'.pc = "ok" /\ ~NeedsRefresh(token')
      BY <2>4, <3>1 DEF Loaded, TypeOK, JobType
    <3>3. JobHasOwner'
      BY <1>6, <2>4, <3>2 DEF IInv, JobHasOwner
    <3>4. ServiceInOrder'
      <4>1. job'.pc = "request" => job'.sent = now /\ job'.left = RequestTime
        BY <3>2
      <4> QED
        BY <1>1, <1>3, <4>1, NewRequestInOrder
    <3>5. ReplyCovered'
      BY <3>2 DEF ReplyCovered, Assigning
    <3>6. TokensCovered'
      BY <1>1, <2>3, <3>2 DEF IInv, TokensCovered, Covered, HalfLoaded, Assigning
    <3>7. EnoughTime'
      <4>1. auth = "load"
        BY <2>4 DEF IInv, JobHasOwner
      <4>2. Stored(token)'
        BY <1>1, <1>2, <2>2, <2>4 DEF Stored
      <4>3. ~NeedsRefresh(token') => now + RequestTime < token'.expires
        <5>1. now \in Nat /\ token'.expires \in Nat /\ now' = now
          BY <2>2, TypeFacts
        <5> QED
          BY <5>1, RoomForPause DEF NeedsRefresh
      <4> QED
        BY <3>2, <4>1, <4>2, <4>3 DEF EnoughTime, FileIsCurrent, Ahead
    <3> QED
      BY <3>3, <3>4, <3>5, <3>6, <3>7 DEF IInv
  <2>5. CASE job.kind # "load"
    <3>1. job' = [NoJob EXCEPT !.kind = job.kind, !.pc = "open"]
      BY <1>6, <2>5, FieldOrder DEF JobAssigns, AfterUpdate
    <3>2. job'.kind = job.kind /\ job'.pc = "open"
      BY <3>1 DEF NoJob
    <3>3. JobHasOwner' /\ ServiceInOrder' /\ ReplyCovered'
      BY <1>1, <1>3, <1>6, <2>5, <3>2
         DEF IInv, JobHasOwner, ServiceInOrder, ReplyCovered, Assigning
    <3>4. TokensCovered'
      BY <1>1, <1>2, <2>2, <2>3, <2>5, <3>2
         DEF IInv, TokensCovered, Covered, HalfLoaded, Assigning
    <3>5. EnoughTime'
      BY <1>2, <2>2, <2>5, <3>2, TypeFacts, TimingAssumption DEF EnoughTime, Ahead
    <3> QED
      BY <3>3, <3>4, <3>5 DEF IInv
  <2> QED
    BY <2>4, <2>5
<1> QED
  BY <1>1, <1>4, <1>5, <1>6 DEF Assigning

\* An exception ends the job with token_ as far as it was assigned.
LEMMA JobThrowsStep == ASSUME IInv, Job, JobThrows PROVE IInv'
<1> USE JobFrame
<1>1. /\ job.kind # "load" /\ dies' = dies /\ file' = file /\ token' = token
      /\ job.pc # "request" /\ job' = [job EXCEPT !.pc = "failed"]
  BY DEF JobThrows, service
<1>2. job'.pc = "failed" /\ job'.kind = job.kind
  BY <1>1 DEF TypeOK, JobType
<1> QED
  BY <1>1, <1>2 DEF IInv, JobHasOwner, ServiceInOrder, ReplyCovered,
     TokensCovered, EnoughTime, Ahead, Assigning, Covered, HalfLoaded

\* Opening the file empties it or changes nothing.
LEMMA JobOpensStep == ASSUME IInv, Job, JobOpens PROVE IInv'
<1> USE JobFrame
<1>1. job.pc = "open" /\ job.kind # "load" /\ dies' = dies /\ token' = token
  BY DEF JobOpens, service, IInv, JobHasOwner
<1>2. \/ file' = [kind |-> "torn"] /\ job'.pc = "write" /\ job'.kind = job.kind
      \/ file' = file /\ job'.pc = "failed" /\ job'.kind = job.kind
  BY DEF JobOpens, TypeOK, JobType
<1> QED
  BY <1>1, <1>2 DEF IInv, JobHasOwner, ServiceInOrder, ReplyCovered,
     TokensCovered, EnoughTime, Ahead, Assigning, Covered, HalfLoaded

\* Whether the disk takes it or not, the file is not an older token.
LEMMA JobWritesStep == ASSUME IInv, Job, JobWrites PROVE IInv'
<1> USE JobFrame
<1>1. job.pc = "write" /\ job.kind # "load" /\ dies' = dies /\ token' = token
  BY DEF JobWrites, service, IInv, JobHasOwner
<1>2. /\ job'.pc = "ok" /\ job'.kind = job.kind
      /\ file' = [kind |-> "token", token |-> token] \/ file' = file
  BY DEF JobWrites, TypeOK, JobType
<1>3. /\ file = [kind |-> "torn"] /\ Covered(token) /\ token.access # NoId
      /\ token.expires = now + Lifetime
  BY <1>1 DEF IInv, TokensCovered, HalfLoaded
<1>4. JobHasOwner' /\ ServiceInOrder' /\ ReplyCovered'
  BY <1>1, <1>2 DEF IInv, JobHasOwner, ServiceInOrder, ReplyCovered, Assigning
<1>5. TokensCovered'
  <2>1. file'.kind = "token" => file'.token = token
    BY <1>2, <1>3
  <2> QED
    BY <1>1, <1>2, <1>3, <2>1 DEF IInv, TokensCovered, Covered, HalfLoaded, Assigning
<1>6. EnoughTime'
  <2>1. Ahead(RequestTime + CheckPeriod) /\ Ahead(RequestTime) /\ Ahead(0)
    BY <1>3, TypeFacts, TimingAssumption DEF Ahead
  <2> QED
    BY <1>1, <1>2, <1>3, <2>1 DEF EnoughTime, Ahead, FileIsCurrent, Stored
<1> QED
  BY <1>4, <1>5, <1>6 DEF IInv

\* A step of a job, whichever thread does it.
LEMMA JobStep == ASSUME IInv, Job PROVE IInv'
BY JobReadStep, JobAnsweredStep, JobAssignsStep, JobThrowsStep, JobOpensStep,
   JobWritesStep DEF Job

--------------------------------------------------------------------------------
(* The steps of the refresh thread.                                          *)

LEMMA AuthFrame ==
    ASSUME IInv, AuthThread
    PROVE  /\ TypeOK /\ TypeOK' /\ now' = now /\ dies' = dies /\ file' = file /\ token' = token
           /\ again' = again /\ shouldExit' = shouldExit
           /\ \A t : Covered(t)' <=> Covered(t)
           /\ \A t : Stored(t)' <=> Stored(t)
           /\ FileIsCurrent' <=> FileIsCurrent
           /\ \A n : now + n < token'.expires <=> Ahead(n)
           /\ file.kind = "token" => file.token.access # NoId /\ Covered(file.token)
           /\ (again /\ HalfLoaded) \/ Covered(token)
<1>1. TypeOK /\ TypeOK'
  BY AuthTypes DEF IInv
<1>2. /\ now' = now /\ dies' = dies /\ file' = file /\ token' = token
      /\ again' = again /\ shouldExit' = shouldExit
  BY DEF AuthThread, service, mainVars
<1> QED
  BY <1>1, <1>2 DEF Covered, Stored, FileIsCurrent, Ahead, IInv, TokensCovered

\* A thread that starts a job for itself: the new one asks or reads from now on.
LEMMA NewJobFields ==
    ASSUME NEW kind, NEW pc, NEW time, NewJob(kind, pc, time)
    PROVE  job'.kind = kind /\ job'.pc = pc /\ job'.left = time /\ job'.sent = now
BY DEF NewJob, NoJob

LEMMA AuthLoadsStep == ASSUME IInv, AuthThread, AuthLoads PROVE IInv'
<1> USE AuthFrame
<1>1. /\ auth = "start" /\ auth' = "load" /\ http' = http
      /\ authSuccess' = authSuccess /\ serving' = serving
      /\ job'.kind = "load" /\ job'.pc = "read"
  BY NewJobFields DEF AuthLoads, httpVars
<1>2. JobHasOwner' /\ ServerBelongsToWait'
  BY <1>1 DEF IInv, JobHasOwner, ServerBelongsToWait
<1>3. ServiceInOrder' /\ ReplyCovered'
  BY <1>1 DEF IInv, ServiceInOrder, ReplyCovered, Assigning
<1>4. job.kind # "load"
  BY <1>1 DEF IInv, JobHasOwner
<1>5. TokensCovered' /\ EnoughTime'
  BY <1>1, <1>4 DEF IInv, TokensCovered, EnoughTime, HalfLoaded, Assigning
<1> QED
  BY <1>2, <1>3, <1>5 DEF IInv

\* The thread goes on without a job: from a load or a refresh that is over.
LEMMA AuthJobOverStep ==
    ASSUME IInv, AuthThread, AuthLoaded \/ AuthRefreshed
    PROVE  IInv'
<1> USE AuthFrame
<1>1. /\ job.pc \in {"ok", "failed"} /\ job' = NoJob /\ auth \in {"load", "refresh"}
      /\ http' = http /\ authSuccess' = authSuccess /\ serving' = serving
      /\ job'.pc = "none" /\ job'.kind = "none"
      /\ auth' \in {"verify", "listen", "pause", "ended"}
      /\ auth' = "verify" => auth = "load" /\ job.pc = "ok"
      /\ auth' = "pause" => auth = "refresh" /\ job.pc = "ok" /\ pause' = CheckPeriod
  BY DEF AuthLoaded, AuthRefreshed, JobOver, httpVars, NoJob
<1>2. http = "off" /\ (auth = "refresh" => job.kind = "refresh")
  BY <1>1 DEF IInv, ServerBelongsToWait, JobHasOwner
<1>3. JobHasOwner' /\ ServerBelongsToWait'
  BY <1>1, <1>2 DEF IInv, JobHasOwner, ServerBelongsToWait
<1>4. ServiceInOrder' /\ ReplyCovered'
  BY <1>1 DEF IInv, ServiceInOrder, ReplyCovered, Assigning
<1>5. TokensCovered'
  BY <1>1 DEF TokensCovered, HalfLoaded
<1>6. EnoughTime'
  BY <1>1, <1>2 DEF IInv, EnoughTime, ServerBelongsToWait, Ahead
<1> QED
  BY <1>3, <1>4, <1>5, <1>6 DEF IInv

\* The thread waits for the authorization, or is through with it: the token it goes on
\* with has just been issued.
LEMMA AuthServerStep ==
    ASSUME IInv, AuthThread, AuthListens \/ AuthWaited \/ AuthClosed
    PROVE  IInv'
<1> USE AuthFrame
<1>1. job' = job /\ auth \in {"listen", "wait", "accepted", "leaving"}
      /\ auth' \in {"wait", "ended", "accepted", "leaving", "verify"}
  BY DEF AuthListens, AuthWaited, AuthClosed
<1>2. /\ auth = "listen" => /\ authSuccess' = authSuccess
                            /\ \/ auth' = "wait" /\ http' = "accept"
                               \/ auth' = "ended" /\ http' = http /\ serving' = serving
      /\ auth = "wait" => /\ auth' = IF authSuccess /\ ~shouldExit THEN "accepted" ELSE "leaving"
                          /\ ~serving' /\ http' = http /\ authSuccess' = authSuccess
      /\ auth \in {"accepted", "leaving"} =>
             /\ http = "exit" /\ http' = "off" /\ ~authSuccess'
             /\ auth' = IF auth = "accepted" THEN "verify" ELSE "ended"
  BY DEF AuthListens, AuthWaited, AuthClosed
<1>3. JobHasOwner' /\ ServerBelongsToWait'
  BY <1>1, <1>2 DEF IInv, JobHasOwner, ServerBelongsToWait
<1>4. ServiceInOrder' /\ ReplyCovered'
  BY <1>1 DEF IInv, ServiceInOrder, ReplyCovered, Assigning
<1>5. TokensCovered'
  BY <1>1 DEF IInv, TokensCovered, HalfLoaded, Assigning
<1>6. EnoughTime'
  BY <1>1, <1>2 DEF IInv, EnoughTime, ServerBelongsToWait, Ahead
<1> QED
  BY <1>3, <1>4, <1>5, <1>6 DEF IInv

\* Between two jobs: what needs no refresh yet lasts for a pause and a request.
LEMMA AuthChecksStep ==
    ASSUME IInv, AuthThread, AuthVerifies \/ AuthChecks \/ AuthPauseOver
    PROVE  IInv'
<1> USE AuthFrame
<1>1. http' = http /\ authSuccess' = authSuccess /\ serving' = serving
      /\ auth \in {"verify", "loop", "pause"}
  BY DEF AuthVerifies, AuthChecks, AuthPauseOver, httpVars
<1>2. job.pc = "none" /\ http = "off" /\ ~authSuccess /\ job.kind # "load"
  BY <1>1 DEF IInv, JobHasOwner, ServerBelongsToWait
<1>3. Ahead(RequestTime) /\ FileIsCurrent
  BY <1>1, TypeFacts DEF IInv, EnoughTime, Ahead
<1>4. CASE job' = job /\ auth' \in {"loop", "ended"}
  <2>1. JobHasOwner' /\ ServerBelongsToWait'
    BY <1>1, <1>2, <1>4 DEF IInv, JobHasOwner, ServerBelongsToWait
  <2>2. ServiceInOrder' /\ ReplyCovered' /\ TokensCovered'
    BY <1>2, <1>4 DEF IInv, ServiceInOrder, ReplyCovered, TokensCovered, HalfLoaded, Assigning
  <2>3. EnoughTime'
    BY <1>1, <1>2, <1>3, <1>4 DEF EnoughTime, Ahead
  <2> QED
    BY <2>1, <2>2, <2>3 DEF IInv
<1>5. CASE auth' = "refresh" /\ NewJob("refresh", "request", RequestTime)
  <2>1. /\ job'.kind = "refresh" /\ job'.pc = "request" /\ job'.left = RequestTime
        /\ job'.sent = now
    BY <1>5, NewJobFields
  <2>2. JobHasOwner' /\ ServerBelongsToWait'
    BY <1>1, <1>2, <1>5, <2>1 DEF IInv, JobHasOwner, ServerBelongsToWait
  <2>3. ServiceInOrder'
    BY <2>1, NewRequestInOrder DEF IInv
  <2>4. ReplyCovered' /\ TokensCovered'
    BY <1>2, <1>5, <2>1 DEF IInv, ReplyCovered, TokensCovered, HalfLoaded, Assigning
  <2>5. EnoughTime'
    BY <1>1, <1>2, <1>3, <1>5, <2>1 DEF EnoughTime, Ahead
  <2> QED
    BY <2>2, <2>3, <2>4, <2>5 DEF IInv
<1>6. CASE job' = job /\ auth' = "pause" /\ pause' = CheckPeriod /\ ~NeedsRefresh(token)
  <2>1. JobHasOwner' /\ ServerBelongsToWait'
    BY <1>1, <1>2, <1>6 DEF IInv, JobHasOwner, ServerBelongsToWait
  <2>2. ServiceInOrder' /\ ReplyCovered' /\ TokensCovered'
    BY <1>2, <1>6 DEF IInv, ServiceInOrder, ReplyCovered, TokensCovered, HalfLoaded, Assigning
  <2>3. now + (RequestTime + CheckPeriod) < token.expires
    <3>1. now \in Nat /\ token.expires \in Nat
      BY TypeFacts
    <3> QED
      BY <1>6, <3>1, RoomForPause DEF NeedsRefresh
  <2>4. EnoughTime'
    BY <1>1, <1>2, <1>3, <1>6, <2>3 DEF EnoughTime, Ahead
  <2> QED
    BY <2>1, <2>2, <2>4 DEF IInv
<1> QED
  BY <1>4, <1>5, <1>6 DEF AuthVerifies, AuthChecks, AuthPauseOver

\* A step of the refresh thread.
LEMMA AuthStep == ASSUME IInv, AuthThread PROVE IInv'
BY AuthLoadsStep, AuthJobOverStep, AuthServerStep, AuthChecksStep DEF AuthThread

--------------------------------------------------------------------------------
(* The steps of the HTTP server, the main thread, a restart and the clock.   *)

\* The server's thread: the job it starts is the exchange of the code.
LEMMA HttpStep == ASSUME IInv, HttpThread PROVE IInv'
<1>1. TypeOK /\ TypeOK'
  BY HttpTypes DEF IInv
<1>2. /\ now' = now /\ dies' = dies /\ file' = file /\ token' = token
      /\ again' = again /\ auth' = auth /\ pause' = pause
  BY DEF HttpThread, service, mainVars
<1>3. \/ /\ http = "accept" /\ http' = "exchange" /\ authSuccess' = authSuccess
         /\ serving' = serving /\ job'.kind = "exchange" /\ job'.pc = "request"
         /\ job'.left = RequestTime /\ job'.sent = now
      \/ /\ http = "accept" /\ http' \in {"respond", "accept", "exit"} /\ job' = job
         /\ serving' = serving /\ (http' = "exit" => ~serving)
         /\ authSuccess' => authSuccess
      \/ /\ http = "exchange" /\ http' = "respond" /\ job.pc \in {"ok", "failed"}
         /\ job'.pc = "none" /\ job'.kind = "none" /\ serving' = serving
         /\ authSuccess' <=> job.pc = "ok"
      \/ /\ http = "respond" /\ http' = "exit" /\ ~serving' /\ job' = job
         /\ authSuccess' = authSuccess
  <2>1. CASE HttpAccepts
    <3>1. CASE http' = "exchange" /\ NewJob("exchange", "request", RequestTime)
      BY <1>1, <2>1, <3>1, NewJobFields DEF HttpAccepts
    <3>2. CASE ~(http' = "exchange" /\ NewJob("exchange", "request", RequestTime))
      BY <2>1, <3>2 DEF HttpAccepts
    <3> QED
      BY <3>1, <3>2
  <2>2. CASE HttpExchanged
    BY <2>2 DEF HttpExchanged, JobOver, NoJob
  <2>3. CASE HttpResponds
    BY <2>3 DEF HttpResponds
  <2> QED
    BY <2>1, <2>2, <2>3 DEF HttpThread
<1>4. auth \in {"wait", "accepted", "leaving"} /\ (http = "accept" => job.pc = "none" /\ ~authSuccess)
      /\ job.kind # "load"
  BY <1>3 DEF IInv, ServerBelongsToWait, JobHasOwner
<1>5. JobHasOwner' /\ ServerBelongsToWait'
  BY <1>2, <1>3, <1>4 DEF IInv, JobHasOwner, ServerBelongsToWait
<1>6. ServiceInOrder'
  <2>1. CASE job' = job
    BY <1>2, <2>1 DEF IInv, ServiceInOrder
  <2>2. CASE job' # job
    BY <1>1, <1>2, <1>3, <2>2, NewRequestInOrder DEF IInv
  <2> QED
    BY <2>1, <2>2
<1>7. ReplyCovered' /\ TokensCovered'
  BY <1>2, <1>3, <1>4
     DEF IInv, ReplyCovered, TokensCovered, HalfLoaded, Assigning, Covered, Stored
<1>8. EnoughTime'
  BY <1>2, <1>3, <1>4 DEF IInv, EnoughTime, Ahead, FileIsCurrent, Stored
<1> QED
  BY <1>1, <1>5, <1>6, <1>7, <1>8 DEF IInv

\* stop_auth_flow has joined the refresh thread before start_auth_flow is called again.
Joined == main = "stopped" => auth = "ended"

\* Only stop_auth_flow leads to "stopped", and a thread that has ended stays so.
LEMMA JoinedStep == ASSUME Joined, [Next]_vars PROVE Joined'
<1>1. CASE UNCHANGED <<main, auth>>
  BY <1>1 DEF Joined
<1>2. CASE AuthThread
  <2>1. auth # "ended" /\ main' = main
    BY <1>2 DEF AuthThread, AuthLoads, AuthLoaded, AuthListens, AuthWaited, AuthClosed,
       AuthVerifies, AuthChecks, AuthRefreshed, AuthPauseOver, mainVars
  <2> QED
    BY <2>1 DEF Joined
<1>3. CASE MainThread
  BY <1>3 DEF Joined, MainThread, MainPolls, MainCopies, MainStops, MainJoined,
     MainStartsAgain
<1>4. CASE Restart
  BY <1>4 DEF Joined, Restart, FreshProcess
<1> QED
  BY <1>1, <1>2, <1>3, <1>4 DEF Next, Job, HttpThread, Tick, mainVars, vars

\* The main thread changes the refresh thread only by starting it once more.
LEMMA MainStep == ASSUME IInv, Joined, MainThread PROVE IInv'
<1>1. TypeOK /\ TypeOK'
  BY MainTypes DEF IInv
<1>2. UNCHANGED <<now, dies, file, token, job, pause, http, serving, authSuccess, page>>
  BY DEF MainThread, service, httpVars
<1>3. \/ auth' = auth /\ again' = again
      \/ auth = "ended" /\ auth' = "start" /\ again'
  BY DEF Joined, MainThread, MainPolls, MainCopies, MainStops, MainJoined, MainStartsAgain
<1>4. JobHasOwner' /\ ServerBelongsToWait'
  BY <1>2, <1>3 DEF IInv, JobHasOwner, ServerBelongsToWait
<1>5. ServiceInOrder' /\ ReplyCovered'
  BY <1>2 DEF IInv, ServiceInOrder, ReplyCovered, Assigning, Covered, Stored
<1>6. TokensCovered'
  BY <1>1, <1>2, <1>3 DEF IInv, TokensCovered, HalfLoaded, Assigning, Covered
<1>7. EnoughTime'
  BY <1>2, <1>3 DEF IInv, EnoughTime, ServerBelongsToWait, Ahead, FileIsCurrent, Stored
<1> QED
  BY <1>1, <1>4, <1>5, <1>6, <1>7 DEF IInv

\* Only the file is left of a process that is killed, and it is covered.
LEMMA RestartStep == ASSUME IInv, Restart PROVE IInv'
<1>1. TypeOK'
  BY RestartTypes DEF IInv
<1>2. /\ now' = now /\ dies' = dies /\ file' = file
      /\ token'.access = NoId /\ token'.expires = 0
      /\ job'.pc = "none" /\ job'.kind = "none"
      /\ auth' = "start" /\ http' = "off" /\ ~authSuccess'
  BY DEF Restart, FreshProcess, service, NoToken, NoJob
<1>3. JobHasOwner' /\ ServerBelongsToWait'
  BY <1>2 DEF JobHasOwner, ServerBelongsToWait
<1>4. ServiceInOrder' /\ ReplyCovered'
  BY <1>2 DEF IInv, ServiceInOrder, ReplyCovered, Assigning
<1>5. TokensCovered'
  BY <1>2 DEF IInv, TokensCovered, HalfLoaded, Assigning, Covered
<1>6. EnoughTime'
  BY <1>2 DEF EnoughTime
<1> QED
  BY <1>1, <1>3, <1>4, <1>5, <1>6 DEF IInv

\* Time passes only in a pause, a request or a wait for something outside.
LEMMA TickStep == ASSUME IInv, Tick PROVE IInv'
<1>1. TypeOK /\ TypeOK'
  BY TickTypes DEF IInv
<1>2. /\ dies' = dies /\ file' = file /\ token' = token /\ auth' = auth /\ again' = again
      /\ http' = http /\ serving' = serving /\ authSuccess' = authSuccess
      /\ now' = now \/ now' = now + 1
  BY DEF Tick, httpVars
<1>3. /\ job'.pc = job.pc /\ job'.kind = job.kind /\ job'.sent = job.sent
      /\ job.pc \in {"none", "request"}
      /\ job.pc = "request" => job.left > 0 /\ job'.left = job.left - 1
  BY <1>1, TypeFacts DEF Tick, JobBusy, Less, TypeOK, JobType
<1>4. /\ auth \notin {"start", "listen", "verify", "loop"}
      /\ auth = "pause" => pause > 0 /\ pause' = pause - 1
      /\ ~(authSuccess /\ auth \in {"wait", "accepted"})
  BY <1>1, TypeFacts DEF Tick, AuthBusy, IInv, ServerBelongsToWait, Less
<1>5. JobHasOwner' /\ ServerBelongsToWait'
  BY <1>2, <1>3 DEF IInv, JobHasOwner, ServerBelongsToWait
<1>6. /\ now \in Nat /\ pause \in Nat /\ token.expires \in Nat /\ job.left \in Nat
      /\ job.sent \in Nat /\ ExpiresIn \in Nat /\ RequestTime \in Nat
      /\ \A i \in 1..Len(dies) : dies[i] \in Nat
  BY <1>1, TypeFacts, IssueFacts
<1>7. ServiceInOrder'
  <2>1. now' \in Nat /\ now <= now'
    BY <1>6, <1>2
  <2>2. \A n \in Nat : n <= now + ExpiresIn => n <= now' + ExpiresIn
    <3>1. now \in Nat /\ now' \in Nat /\ ExpiresIn \in Nat
      BY <1>6, <2>1
    <3> QED
      BY <2>1, <3>1, Later
  <2>3. job.pc = "request" /\ job.sent <= now /\ now + job.left <= job.sent + RequestTime
        => job.sent <= now' /\ now' + job'.left <= job.sent + RequestTime
    BY <1>6, <1>2, <1>3
  <2> QED
    BY <1>6, <1>2, <1>3, <2>2, <2>3 DEF IInv, ServiceInOrder
<1>8. ReplyCovered'
  BY <1>3 DEF ReplyCovered, Assigning
<1>9. TokensCovered'
  BY <1>2, <1>3, <1>4 DEF IInv, TokensCovered, HalfLoaded, Assigning, Covered
<1>10. EnoughTime'
  <2>1. auth = "pause" => now' + (RequestTime + pause') < token.expires
    <3>1. auth = "pause" => now + (RequestTime + pause) < token.expires
      BY DEF IInv, EnoughTime, Ahead
    <3> QED
      BY <1>6, <1>2, <1>4, <3>1
  <2>2. auth = "refresh" => job.pc = "request" /\ now' + job'.left < token.expires
    <3>1. auth = "refresh" => job.pc = "request" /\ now + job.left < token.expires
      BY <1>3 DEF IInv, EnoughTime, JobHasOwner, Ahead
    <3> QED
      BY <1>6, <1>2, <1>3, <3>1
  <2> QED
    BY <1>2, <1>3, <1>4, <2>1, <2>2 DEF IInv, EnoughTime, Ahead, FileIsCurrent, Stored
<1> QED
  BY <1>1, <1>5, <1>7, <1>8, <1>9, <1>10 DEF IInv

\* A step that changes nothing.
LEMMA StutterStep == ASSUME IInv, UNCHANGED vars PROVE IInv'
BY DEF vars, IInv, TypeOK, JobHasOwner, ServerBelongsToWait, ServiceInOrder, ReplyCovered,
   TokensCovered, EnoughTime, Assigning, Covered, HalfLoaded, Ahead, FileIsCurrent, Stored

\* IInv holds in every state, with Joined beside it: that no refresh thread is alive
\* when start_auth_flow starts another one.
THEOREM TokenInvariant == Spec => []IInv
<1>1. Init => Joined
  BY DEF Init, Joined
<1>2. IInv /\ Joined /\ [Next]_vars => IInv'
  BY JobStep, AuthStep, HttpStep, MainStep, RestartStep, TickStep, StutterStep DEF Next
<1> QED
  BY <1>1, <1>2, JoinedStep, InitIInv, PTL DEF Spec

--------------------------------------------------------------------------------
(* The theorems.                                                             *)

\* Every variable keeps its type: the ticks left of a request, of the pause and of
\* get_token do not go below zero.
THEOREM TokenTypeCorrect == Spec => []TypeOK
<1>1. IInv => TypeOK
  BY DEF IInv
<1> QED
  BY <1>1, TokenInvariant, PTL

\* A token_ that is_token_valid calls valid is accepted by the service, whichever
\* fields the other thread has assigned so far and however often the process was
\* killed; the exception is a second load_token under way.
THEOREM ValidIsAccepted == Spec => []ValidMeansAccepted
<1>1. IInv => ValidMeansAccepted
  <2> SUFFICES ASSUME IInv, Valid(token), ~(again /\ job.kind = "load")
               PROVE  now < dies[token.access]
    BY DEF ValidMeansAccepted
  <2>1. token.access # NoId /\ ~(now >= token.expires)
    BY DEF Valid, Expired
  <2>2. token.access <= Len(dies) /\ token.expires <= dies[token.access]
    BY <2>1 DEF IInv, TokensCovered, HalfLoaded, Covered
  <2>3. token.access \in 1..Len(dies)
    BY <2>1, <2>2, TypeFacts DEF IInv, NoId
  <2> QED
    BY <2>1, <2>2, <2>3, TypeFacts, IssueFacts DEF IInv
<1> QED
  BY <1>1, TokenInvariant, PTL

\* token_refresh_loop never holds an expired token, from its first check to its end,
\* for every margin, check period and request time in the proportion the code has.
THEOREM TokenStaysUsable == Spec => []TokenStaysValid
<1>1. IInv => TokenStaysValid
  <2> SUFFICES ASSUME IInv, auth \in {"loop", "pause", "refresh"}
               PROVE  Valid(token)
    BY DEF TokenStaysValid
  <2>1. job.kind # "load"
    BY DEF IInv, JobHasOwner
  <2>2. Covered(token)
    BY <2>1 DEF IInv, TokensCovered, HalfLoaded
  <2>3. now < token.expires
    <3>1. /\ now \in Nat /\ token.expires \in Nat /\ pause \in Nat /\ job.left \in Nat
          /\ RequestTime \in Nat
      BY TypeFacts DEF IInv
    <3>2. \/ now + RequestTime < token.expires
          \/ now + (RequestTime + pause) < token.expires
          \/ now + job.left < token.expires \/ now + 0 < token.expires
      BY DEF IInv, EnoughTime, Ahead
    <3> QED
      BY <3>1, <3>2
  <2>4. token.access # NoId
    BY <2>2, <2>3, TypeFacts DEF IInv, Covered
  <2> QED
    BY <2>3, <2>4, TypeFacts DEF IInv, Valid, Expired
<1> QED
  BY <1>1, TokenInvariant, PTL

\* While the thread pauses, a kill loses nothing that an older file would bring back.
THEOREM PausedFile == Spec => []PausedFileIsCurrent
<1>1. IInv => PausedFileIsCurrent
  BY DEF IInv, EnoughTime, FileIsCurrent, Stored, PausedFileIsCurrent
<1> QED
  BY <1>1, TokenInvariant, PTL
=================================================================================
