---------------------------- MODULE LanTimingProofs ----------------------------
(***************************************************************************)
(* Proofs about LanTiming, for any number of devices and interfaces and    *)
(* any intervals: a device that answers every broadcast stays online where *)
(* the intervals, the sockets and the timeout leave room for it, and no    *)
(* entry is shown online longer than the timeout and the slack.            *)
(***************************************************************************)
EXTENDS LanTiming, LanDiscoveryProofs, FiniteSetTheorems

--------------------------------------------------------------------------------
(* Listener calls about a set of devices.                                   *)

LEMMA TimesMonotone ==
    ASSUME NEW a \in Nat, NEW m \in Nat, NEW n \in Nat, m <= n
    PROVE  a * m \in Nat /\ a * m <= a * n
<1>1. PICK k \in Nat : n = m + k
  <2>1. n - m \in Nat /\ n = m + (n - m)
    OBVIOUS
  <2> QED
    BY <2>1
<1>2. a * n = a * m + a * k
  BY <1>1
<1>3. a * k \in Nat /\ a * m \in Nat /\ a * n \in Nat
  OBVIOUS
<1> QED
  BY <1>2, <1>3

LEMMA CallsCount ==
    ASSUME NEW S \in SUBSET Did
    PROVE  IsFiniteSet(S) /\ Cardinality(S) \in Nat /\ CallsAbout(S) \in Nat
<1>1. IsFiniteSet(S)
  BY FS_Subset, FiniteAssumption
<1>2. Cardinality(S) \in Nat
  BY <1>1, FS_CardinalityType
<1> QED
  BY <1>1, <1>2, TimesMonotone, TimeAssumption DEF CallsAbout

\* Fewer devices, fewer calls.
LEMMA CallsMonotone ==
    ASSUME NEW S \in SUBSET Did, NEW T \in SUBSET S
    PROVE  CallsAbout(T) <= CallsAbout(S)
<1>1. IsFiniteSet(S) /\ Cardinality(S) \in Nat /\ Cardinality(T) \in Nat
  BY CallsCount
<1>2. Cardinality(T) <= Cardinality(S)
  BY <1>1, FS_Subset
<1> QED
  BY <1>1, <1>2, TimesMonotone, TimeAssumption DEF CallsAbout

\* One device less, one call less.
LEMMA CallsWithout ==
    ASSUME NEW S \in SUBSET Did, NEW d \in S
    PROVE  CallsAbout(S) = CallsAbout(S \ {d}) + MaxCallback
<1>1. IsFiniteSet(S) /\ Cardinality(S) \in Nat /\ Cardinality(S \ {d}) \in Nat
  BY CallsCount
<1>2. Cardinality(S \ {d}) = Cardinality(S) - 1
  BY <1>1, FS_RemoveElement
<1>3. \A c, n \in Nat : c * (n + 1) = c * n + c
  OBVIOUS
<1>4. Cardinality(S) = Cardinality(S \ {d}) + 1
  BY <1>1, <1>2
<1> QED
  BY <1>1, <1>3, <1>4, TimeAssumption DEF CallsAbout

LEMMA CallsNone == CallsAbout({}) = 0
BY FS_EmptySet, TimeAssumption DEF CallsAbout

--------------------------------------------------------------------------------
(* LanTiming is LanDiscovery with fewer behaviours.                         *)

LEMMA AnswerArrives ==
    ASSUME NEW d \in Did, AnswerProbe(d)
    PROVE  [Next]_vars
<1>1. HomeIface[d] \in Iface /\ [did |-> d, ip |-> HomeIp[d]] \in Datagram
  BY HomeAssumption DEF Datagram, Answer
<1> QED
  BY <1>1 DEF AnswerProbe, Next

LEMMA TimedStep == [TimedNext]_timedVars => [Next]_vars
<1>1. CASE Broadcast
  BY <1>1 DEF Broadcast, Next, Discovery
<1>2. ASSUME NEW d \in Did, AnswerProbe(d) \/ FallSilent(d) PROVE [Next]_vars
  BY <1>2, AnswerArrives DEF FallSilent
<1>3. CASE Second
  BY <1>3 DEF Second, Next
<1>4. CASE Other
  BY <1>4 DEF Other, Next, Main
<1>5. CASE UNCHANGED timedVars
  BY <1>5 DEF timedVars
<1> QED
  BY <1>1, <1>2, <1>3, <1>4, <1>5 DEF TimedNext

LEMMA TimedIsSpec == TimedSpec => Spec
BY TimedStep, PTL DEF TimedSpec, TimedInit, Spec

--------------------------------------------------------------------------------
(* What the world of LanTiming adds to the inductive invariant.             *)

\* Every device is known at the one place it answers from.
TableFromHome ==
    \A d \in Did : devices[d].status # "absent" =>
        devices[d].ip = HomeIp[d] /\ devices[d].iface = HomeIface[d]

\* A socket only holds answers of the devices on its interface.
InboxFromHome ==
    \A i \in Iface : \A n \in 1..Len(inbox[i]) :
        /\ inbox[i][n] \in Answer
        /\ inbox[i][n].ip = HomeIp[inbox[i][n].did]
        /\ HomeIface[inbox[i][n].did] = i

AnswerFromHome ==
    pc["disc"] = "update" =>
        answer.ip = HomeIp[answer.did] /\ answer.iface = HomeIface[answer.did]

\* Discovery is started once, with all its sockets, and never stopped.
NeverStopped ==
    /\ ~stopping
    /\ pc["tmo"] # "exit" /\ pc["disc"] # "exit"
    /\ pc["disc"] = "off" <=> pc["tmo"] = "off"
    /\ pc["tmo"] # "off" => running /\ sockets = Iface
    /\ running => pc["tmo"] # "off"

\* A thread tells about a device what it has just made of it.
SubjectAsTold ==
    /\ Notifying("disc") => devices[subject["disc"]].status = "online"
    /\ Notifying("tmo") => devices[subject["tmo"]].status = "offline"

TimersBounded ==
    /\ pc["tmo"] = "sleep" => timer["tmo"] <= CheckPeriod
    /\ \A t \in Thread : pc[t] = "callback" => timer[t] <= MaxCallback

Setting ==
    /\ TableFromHome
    /\ InboxFromHome
    /\ AnswerFromHome
    /\ NeverStopped
    /\ SubjectAsTold
    /\ TimersBounded
    /\ owed \subseteq Did

LEMMA SettingInit == TimedInit => Setting
<1> SUFFICES ASSUME TimedInit PROVE Setting
  OBVIOUS
<1>1. TableFromHome /\ AnswerFromHome /\ NeverStopped /\ SubjectAsTold /\ TimersBounded
      /\ owed \subseteq Did
  BY DEF TimedInit, Init, Absent, TableFromHome, AnswerFromHome, NeverStopped,
     SubjectAsTold, TimersBounded, Notifying, Thread
<1>2. InboxFromHome
  BY DEF TimedInit, Init, InboxFromHome
<1> QED
  BY <1>1, <1>2 DEF Setting

\* Neither thread touches the entries except where it updates or expires one.
LEMMA TableUntouched ==
    ASSUME [Next]_vars, ~DUpdate, ~\E d \in Did : TExpire(d)
    PROVE  devices' = devices
<1> USE DEF table
<1>1. CASE Main
  BY <1>1 DEF Main, Start, Stop, Joined, RegisterCallback, UnregisterCallback
<1>2. CASE Discovery
  BY <1>2 DEF Discovery, DDelayOver, DTest, DProbe, DLock, DReceive, DBreak,
     DSleep, DWake, Notification, NotifyListener, NotifyNobody, CallbackReturns
<1>3. CASE Checker
  BY <1>3 DEF Checker, TTest, TCheck, TDone, TWake, Notification,
     NotifyListener, NotifyNobody, CallbackReturns
<1>4. CASE \E i \in Iface, m \in Datagram : Arrive(i, m)
  BY <1>4 DEF Arrive
<1>5. CASE Tick \/ UNCHANGED vars
  BY <1>5 DEF Tick, vars
<1> QED
  BY <1>1, <1>2, <1>3, <1>4, <1>5 DEF Next

\* What update_device and the checker make of an entry, and whether they tell.
LEMMA UpdateEffect ==
    ASSUME IInv, Setting, DUpdate
    PROVE  /\ answer.did \in Did
           /\ answer.ip = HomeIp[answer.did] /\ answer.iface = HomeIface[answer.did]
           /\ devices'[answer.did].status = "online"
           /\ devices'[answer.did].ip = answer.ip
           /\ devices'[answer.did].iface = answer.iface
           /\ \A d \in Did \ {answer.did} : devices'[d] = devices[d]
           /\ age' = [age EXCEPT ![answer.did] = 0]
           /\ Changed(devices[answer.did], answer) <=> devices[answer.did].status # "online"
           /\ IF devices[answer.did].status # "online"
                THEN pc' = [pc EXCEPT !["disc"] = "notify"]
                     /\ subject' = [subject EXCEPT !["disc"] = answer.did]
                ELSE pc' = [pc EXCEPT !["disc"] = "poll"] /\ subject' = subject
<1>1. pc["disc"] = "update"
  BY DEF DUpdate
<1>2. answer \in Located /\ devices[answer.did] \in Entry /\ answer.did \in Did
  BY <1>1, AtUpdate DEF Located
<1>3. answer.ip = HomeIp[answer.did] /\ answer.iface = HomeIface[answer.did]
  BY <1>1 DEF Setting, AnswerFromHome
<1>4. devices' = [devices EXCEPT ![answer.did] = Updated(devices[answer.did], answer)]
  BY DEF DUpdate
<1>5. devices \in [Did -> Entry]
  BY DEF IInv, TypeOK
<1>6. devices'[answer.did] = Updated(devices[answer.did], answer)
  BY <1>2, <1>4, <1>5
<1>7. \A d \in Did \ {answer.did} : devices'[d] = devices[d]
  BY <1>4, <1>5
<1>8. Changed(devices[answer.did], answer) <=> devices[answer.did].status # "online"
  BY <1>2, <1>3 DEF Changed, Setting, TableFromHome
<1>9. age' = [age EXCEPT ![answer.did] = 0]
  BY DEF DUpdate, Seen
<1>10. IF Changed(devices[answer.did], answer)
         THEN pc' = [pc EXCEPT !["disc"] = "notify"]
              /\ subject' = [subject EXCEPT !["disc"] = answer.did]
         ELSE pc' = [pc EXCEPT !["disc"] = "poll"] /\ subject' = subject
  BY DEF DUpdate, Goto
<1> QED
  BY <1>2, <1>3, <1>6, <1>7, <1>8, <1>9, <1>10 DEF Updated

LEMMA ExpireEffect ==
    ASSUME IInv, NEW d \in Did, TExpire(d)
    PROVE  /\ devices'[d].status = "offline"
           /\ devices'[d].ip = devices[d].ip /\ devices'[d].iface = devices[d].iface
           /\ \A e \in Did \ {d} : devices'[e] = devices[e]
           /\ devices[d].status = "online"
           /\ ~Notifying("disc")
           /\ pc' = [pc EXCEPT !["tmo"] = "notify"]
           /\ subject' = [subject EXCEPT !["tmo"] = d]
<1>1. devices \in [Did -> Entry] /\ devices[d] \in Entry
  BY DEF IInv, TypeOK
<1>2. devices' = [devices EXCEPT ![d].status = "offline", ![d].change = "OFFLINE"]
  BY DEF TExpire
<1>3. devices'[d] = [devices[d] EXCEPT !.status = "offline", !.change = "OFFLINE"]
  BY <1>1, <1>2
<1>4. \A e \in Did \ {d} : devices'[e] = devices[e]
  BY <1>1, <1>2
<1>5. devicesMutex = "tmo"
  BY DEF TExpire, IInv, Discipline, LockDiscipline
<1>6. devices[d].status = "online" /\ ~Notifying("disc")
  BY <1>5 DEF TExpire, IInv, Discipline, LockDiscipline, DueOnline, Notifying
<1> QED
  BY <1>1, <1>3, <1>4, <1>6 DEF TExpire, Goto, Entry

LEMMA TableFromHomeStep ==
    ASSUME IInv, Setting, [Next]_vars
    PROVE  TableFromHome'
<1>1. CASE DUpdate
  BY <1>1, UpdateEffect DEF TableFromHome, Setting
<1>2. ASSUME NEW d \in Did, TExpire(d) PROVE TableFromHome'
  BY <1>2, ExpireEffect DEF TableFromHome, Setting
<1>3. CASE ~DUpdate /\ ~\E d \in Did : TExpire(d)
  BY <1>3, TableUntouched DEF TableFromHome, Setting
<1> QED
  BY <1>1, <1>2, <1>3

LEMMA InboxFromHomeStep ==
    ASSUME IInv, Setting, [TimedNext]_timedVars
    PROVE  InboxFromHome'
<1> DEFINE Good(i, s) ==
             \A n \in 1..Len(s) :
                s[n] \in Answer /\ s[n].ip = HomeIp[s[n].did] /\ HomeIface[s[n].did] = i
<1>g. ASSUME \A i \in Iface : Good(i, inbox'[i]) PROVE InboxFromHome'
  BY <1>g DEF InboxFromHome
<1>t. inbox \in [Iface -> Seq(Datagram)] /\ \A i \in Iface : Good(i, inbox[i])
  BY DEF IInv, TypeOK, Setting, InboxFromHome
<1> USE DEF network
<1>0. CASE inbox' = inbox
  BY <1>0, <1>t, <1>g
<1>1. ASSUME NEW d \in Did, AnswerProbe(d) PROVE InboxFromHome'
  <2>1. CASE UNCHANGED vars
    BY <2>1, <1>0 DEF vars
  <2>2. CASE Arrive(HomeIface[d], [did |-> d, ip |-> HomeIp[d]])
    <3> DEFINE h == HomeIface[d]
               m == [did |-> d, ip |-> HomeIp[d]]
    <3>1. h \in Iface /\ m \in Answer /\ m.ip = HomeIp[m.did] /\ HomeIface[m.did] = h
      BY HomeAssumption DEF Answer
    <3>2. m \in Datagram
      BY <3>1 DEF Datagram
    <3>3. inbox' = [inbox EXCEPT ![h] = Append(inbox[h], m)]
      BY <2>2 DEF Arrive
    <3> HIDE DEF h, m
    <3> SUFFICES ASSUME NEW i \in Iface PROVE Good(i, inbox'[i])
      BY <1>g
    <3>4. CASE i # h
      BY <3>3, <3>4, <1>t
    <3>5. CASE i = h
      <4>1. inbox'[i] = Append(inbox[i], m) /\ inbox[i] \in Seq(Datagram)
        BY <3>1, <3>3, <3>5, <1>t
      <4>2. Good(i, inbox[i])
        BY <1>t
      <4>3. Len(inbox'[i]) = Len(inbox[i]) + 1 /\ inbox'[i][Len(inbox[i]) + 1] = m
            /\ \A n \in 1..Len(inbox[i]) : inbox'[i][n] = inbox[i][n]
        BY <3>2, <4>1
      <4>4. \A n \in 1..Len(inbox'[i]) : n \in 1..Len(inbox[i]) \/ n = Len(inbox[i]) + 1
        BY <4>1, <4>3
      <4> QED
        BY <3>1, <3>5, <4>2, <4>3, <4>4
    <3> QED
      BY <3>4, <3>5
  <2> QED
    BY <1>1, <2>1, <2>2 DEF AnswerProbe
<1>2. ASSUME NEW i \in Iface, DReceive(i) PROVE InboxFromHome'
  <2>1. CASE inbox[i] = <<>>
    BY <1>2, <2>1, <1>0 DEF DReceive
  <2>2. CASE inbox[i] # <<>>
    <3>1. inbox' = [inbox EXCEPT ![i] = Tail(inbox[i])]
      BY <1>2, <2>2 DEF DReceive
    <3> SUFFICES ASSUME NEW j \in Iface PROVE Good(j, inbox'[j])
      BY <1>g
    <3>2. CASE j # i
      BY <3>1, <3>2, <1>t
    <3>3. CASE j = i
      <4>1. inbox'[j] = Tail(inbox[j]) /\ inbox[j] \in Seq(Datagram) /\ inbox[j] # <<>>
        BY <3>1, <3>3, <2>2, <1>t
      <4>2. Good(j, inbox[j])
        BY <1>t
      <4>3. \A n \in 1..Len(inbox'[j]) : n + 1 \in 1..Len(inbox[j])
                                           /\ inbox'[j][n] = inbox[j][n + 1]
        BY <4>1
      <4> QED
        BY <4>2, <4>3
    <3> QED
      BY <3>2, <3>3
  <2> QED
    BY <2>1, <2>2
<1>3. CASE Other /\ ~\E i \in Iface : DReceive(i)
  <2>1. inbox' = inbox
    BY <1>3 DEF Other, Start, RegisterCallback, Discovery, DDelayOver, DTest, DProbe,
       DLock, DUpdate, DBreak, DSleep, DWake, Notification, NotifyListener,
       NotifyNobody, CallbackReturns, Checker, TTest, TCheck, TDone, TWake, TExpire
  <2> QED
    BY <2>1, <1>0
<1>4. CASE Broadcast \/ Second \/ (\E d \in Did : FallSilent(d)) \/ UNCHANGED timedVars
  BY <1>4, <1>0 DEF Broadcast, DProbe, Second, Tick, FallSilent, timedVars, vars
<1> QED
  BY <1>1, <1>2, <1>3, <1>4 DEF TimedNext

LEMMA AnswerFromHomeStep ==
    ASSUME IInv, Setting, [Next]_vars
    PROVE  AnswerFromHome'
<1> USE DEF IInv, TypeOK, Setting, AnswerFromHome, discLocals
<1>1. ASSUME NEW i \in Iface, DReceive(i) PROVE AnswerFromHome'
  <2>1. CASE inbox[i] # <<>> /\ Head(inbox[i]) # Noise
    <3>1. inbox[i] \in Seq(Datagram) /\ Head(inbox[i]) = inbox[i][1] /\ 1 \in 1..Len(inbox[i])
      BY <2>1
    <3>2. Head(inbox[i]).ip = HomeIp[Head(inbox[i]).did] /\ HomeIface[Head(inbox[i]).did] = i
      BY <3>1 DEF InboxFromHome
    <3> QED
      BY <1>1, <2>1, <3>2 DEF DReceive
  <2>2. CASE ~(inbox[i] # <<>> /\ Head(inbox[i]) # Noise)
    BY <1>1, <2>2 DEF DReceive
  <2> QED
    BY <2>1, <2>2
<1>2. CASE DUpdate
  BY <1>2, UpdateEffect DEF Thread
<1>3. CASE Main
  BY <1>3 DEF Main, Start, Stop, Joined, RegisterCallback, UnregisterCallback, Thread
<1>4. CASE Discovery /\ ~DUpdate /\ ~\E i \in Iface : DReceive(i)
  BY <1>4 DEF Discovery, DDelayOver, DTest, DProbe, DLock, DBreak, DSleep, DWake,
     Notification, NotifyListener, NotifyNobody, CallbackReturns, Goto, Resume, Thread
<1>5. CASE Checker
  BY <1>5 DEF Checker, TTest, TCheck, TDone, TWake, TExpire, Notification,
     NotifyListener, NotifyNobody, CallbackReturns, Goto, Thread
<1>6. CASE (\E i \in Iface, m \in Datagram : Arrive(i, m)) \/ Tick \/ UNCHANGED vars
  BY <1>6 DEF Arrive, Tick, vars
<1> QED
  BY <1>1, <1>2, <1>3, <1>4, <1>5, <1>6 DEF Next, Discovery

LEMMA NeverStoppedStep ==
    ASSUME IInv, Setting, [TimedNext]_timedVars
    PROVE  NeverStopped'
<1>i. NeverStopped /\ Places /\ pc \in [Thread -> PC] /\ "disc" \in Thread /\ "tmo" \in Thread
  BY DEF IInv, TypeOK, Discipline, Setting, Thread
<1> USE <1>i DEF NeverStopped, Places, control, network, Goto
<1>1. ASSUME NEW n \in 0..StartDelay, Start(Iface, n) PROVE NeverStopped'
  BY <1>1 DEF Start
<1>2. CASE RegisterCallback
  BY <1>2 DEF RegisterCallback
<1>3. CASE Discovery
  <2>1. UNCHANGED <<running, stopping, sockets>>
    BY <1>3 DEF Discovery, DDelayOver, DTest, DProbe, DLock, DReceive, DUpdate, DBreak,
       DSleep, DWake, Notification, NotifyListener, NotifyNobody, CallbackReturns
  <2>2. pc'["tmo"] = pc["tmo"] /\ (pc'["disc"] = "off" <=> pc["disc"] = "off")
        /\ (pc'["disc"] = "exit" => ~running)
    BY <1>3 DEF Discovery, DDelayOver, DTest, DProbe, DLock, DReceive, DUpdate, DBreak,
       DSleep, DWake, Notification, NotifyListener, NotifyNobody, CallbackReturns, Resume
  <2>3. pc["disc"] # "off"
    BY <1>3 DEF Discovery, DDelayOver, DTest, DProbe, DLock, DReceive, DUpdate, DBreak,
       DSleep, DWake, Notification, NotifyListener, NotifyNobody, CallbackReturns
  <2> QED
    BY <2>1, <2>2, <2>3
<1>4. CASE Checker
  <2>1. UNCHANGED <<running, stopping, sockets>>
    BY <1>4 DEF Checker, TTest, TCheck, TDone, TWake, TExpire, Notification,
       NotifyListener, NotifyNobody, CallbackReturns
  <2>2. pc'["disc"] = pc["disc"] /\ (pc'["tmo"] = "off" <=> pc["tmo"] = "off")
        /\ (pc'["tmo"] = "exit" => ~running)
    BY <1>4 DEF Checker, TTest, TCheck, TDone, TWake, TExpire, Notification,
       NotifyListener, NotifyNobody, CallbackReturns, Resume
  <2>3. pc["tmo"] # "off"
    BY <1>4 DEF Checker, TTest, TCheck, TDone, TWake, TExpire, Notification,
       NotifyListener, NotifyNobody, CallbackReturns
  <2> QED
    BY <2>1, <2>2, <2>3
<1>5. CASE Second \/ UNCHANGED vars
  BY <1>5 DEF Second, Tick, vars
<1>6. ASSUME NEW d \in Did, AnswerProbe(d) \/ FallSilent(d) PROVE NeverStopped'
  BY <1>6, <1>5 DEF AnswerProbe, FallSilent, Arrive
<1> QED
  BY <1>1, <1>2, <1>3, <1>4, <1>5, <1>6
  DEF TimedNext, Broadcast, Other, Discovery, timedVars

LEMMA SubjectAsToldStep ==
    ASSUME IInv, Setting, [TimedNext]_timedVars
    PROVE  SubjectAsTold'
<1>n. [Next]_vars
  BY TimedStep
<1>i. /\ SubjectAsTold /\ LockDiscipline /\ SubjectTold
      /\ pc \in [Thread -> PC] /\ subject \in [Thread -> Did \cup {"none"}]
      /\ "disc" \in Thread /\ "tmo" \in Thread
  BY DEF IInv, TypeOK, Discipline, Setting, Thread
<1>1. CASE DUpdate
  <2>1. pc'["tmo"] = pc["tmo"] /\ ~Notifying("tmo")
    BY <1>1, <1>i, UpdateEffect DEF DUpdate, TableFree, LockDiscipline, Notifying
  <2>2. Notifying("disc")' => subject'["disc"] = answer.did
    BY <1>1, <1>i, UpdateEffect DEF Notifying
  <2>3. devices'[answer.did].status = "online"
    BY <1>1, UpdateEffect
  <2> QED
    BY <2>1, <2>2, <2>3 DEF SubjectAsTold, Notifying
<1>2. ASSUME NEW d \in Did, TExpire(d) PROVE SubjectAsTold'
  <2>1. pc'["disc"] = pc["disc"] /\ ~Notifying("disc") /\ subject'["tmo"] = d
    BY <1>2, <1>i, ExpireEffect
  <2>2. devices'[d].status = "offline"
    BY <1>2, ExpireEffect
  <2> QED
    BY <2>1, <2>2 DEF SubjectAsTold, Notifying
<1>3. CASE ~DUpdate /\ ~\E d \in Did : TExpire(d)
  <2>1. devices' = devices
    BY <1>3, <1>n, TableUntouched
  <2>2. subject' = subject /\ \A t \in Thread : Notifying(t)' => Notifying(t)
    <3> DEFINE Same == subject' = subject /\ \A t \in Thread : Notifying(t)' => Notifying(t)
    <3> SUFFICES Same
      OBVIOUS
    <3> USE <1>i DEF Notifying, Goto, Thread, discLocals
    <3>1. ASSUME NEW n \in 0..StartDelay, Start(Iface, n) PROVE Same
      BY <3>1 DEF Start
    <3>2. CASE RegisterCallback \/ Second \/ UNCHANGED vars
      BY <3>2 DEF RegisterCallback, Second, Tick, vars
    <3>3. CASE Discovery
      BY <1>3, <3>3 DEF Discovery, DDelayOver, DTest, DProbe, DLock, DReceive, DBreak,
       DSleep, DWake, Notification, NotifyListener, NotifyNobody, CallbackReturns, Resume
    <3>4. CASE Checker
      BY <1>3, <3>4 DEF Checker, TTest, TCheck, TDone, TWake, Notification,
       NotifyListener, NotifyNobody, CallbackReturns, Resume
    <3>5. ASSUME NEW d \in Did, AnswerProbe(d) \/ FallSilent(d) PROVE Same
      BY <3>5, <3>2 DEF AnswerProbe, FallSilent, Arrive
    <3> QED
      BY <3>1, <3>2, <3>3, <3>4, <3>5
      DEF TimedNext, Broadcast, Other, Discovery, timedVars
  <2> QED
    BY <1>i, <2>1, <2>2 DEF SubjectAsTold, Notifying
<1> QED
  BY <1>1, <1>2, <1>3

LEMMA TimersBoundedStep ==
    ASSUME IInv, Setting, [TimedNext]_timedVars
    PROVE  TimersBounded'
<1>i. /\ TimersBounded /\ pc \in [Thread -> PC] /\ timer \in [Thread -> Nat]
      /\ CheckPeriod \in Nat /\ MaxCallback \in Nat
  BY TimeAssumption DEF IInv, TypeOK, Setting
<1> USE <1>i DEF TimersBounded, Thread, Goto, Sleep, mutexes
<1>1. ASSUME NEW n \in 0..StartDelay, Start(Iface, n) PROVE TimersBounded'
  BY <1>1 DEF Start
<1>2. CASE RegisterCallback \/ UNCHANGED vars
  BY <1>2 DEF RegisterCallback, vars
<1>3. ASSUME NEW t \in Thread, NEW n \in 0..MaxCallback, NotifyListener(t, n) PROVE TimersBounded'
  BY <1>3 DEF NotifyListener
<1>4. ASSUME NEW t \in Thread, NotifyNobody(t) \/ CallbackReturns(t) PROVE TimersBounded'
  BY <1>4 DEF NotifyNobody, CallbackReturns, Resume
<1>5. CASE Discovery /\ ~Notification("disc")
  BY <1>5 DEF Discovery, DDelayOver, DTest, DProbe, DLock, DReceive, DUpdate, DBreak,
     DSleep, DWake
<1>6. CASE Checker /\ ~Notification("tmo")
  <2>1. CASE TDone
    <3>1. pc' = [pc EXCEPT !["tmo"] = "sleep"] /\ timer' = [timer EXCEPT !["tmo"] = CheckPeriod]
      BY <2>1 DEF TDone
    <3> QED
      BY <3>1
  <2>2. CASE TTest \/ TCheck \/ TWake \/ \E d \in Did : TExpire(d)
    BY <2>2 DEF TTest, TCheck, TWake, TExpire
  <2> QED
    BY <1>6, <2>1, <2>2 DEF Checker
<1>7. CASE Second
  <2>1. pc' = pc /\ \A t \in Thread : timer'[t] <= timer[t] /\ timer'[t] \in Nat
    BY <1>7 DEF Second, Tick
  <2> QED
    BY <2>1
<1>8. ASSUME NEW d \in Did, AnswerProbe(d) \/ FallSilent(d) PROVE TimersBounded'
  BY <1>8, <1>2 DEF AnswerProbe, FallSilent, Arrive
<1> QED
  BY <1>1, <1>2, <1>3, <1>4, <1>5, <1>6, <1>7, <1>8
  DEF TimedNext, Broadcast, Other, Discovery, Checker, Notification, timedVars

LEMMA SettingStep == ASSUME IInv, Setting, [TimedNext]_timedVars PROVE Setting'
<1>1. (owed \subseteq Did)'
  BY DEF Setting, TimedNext, Broadcast, AnswerProbe, FallSilent, Second, Other, timedVars
<1> QED
  BY <1>1, TimedStep, TableFromHomeStep, InboxFromHomeStep, AnswerFromHomeStep,
     NeverStoppedStep, SubjectAsToldStep, TimersBoundedStep DEF Setting

LEMMA TimedInductive == TimedSpec => [](IInv /\ Setting)
<1>1. Setting /\ IInv /\ [TimedNext]_timedVars => Setting'
  BY SettingStep
<1>2. TimedSpec => []IInv
  BY TimedIsSpec, Inductive, PTL
<1> QED
  BY <1>1, <1>2, SettingInit, PTL DEF TimedSpec

--------------------------------------------------------------------------------
(* The age of an entry shown online.                                        *)

\* What is left of the listener call a thread is about.
CallLeft(t) ==
    IF pc[t] = "notify" THEN MaxCallback
    ELSE IF pc[t] = "callback" THEN timer[t] ELSE 0

\* The other devices that may go offline, and those that are not online.
Flaky(d) == (Did \ Responsive) \ {d}
NotOnline(d) == {e \in Did \ {d} : devices[e].status # "online"}

\* How old an entry may be that the last pass found fresh, at the end of it.
Spared(d) == Timeout + CallsAbout(Flaky(d))

\* The age of an online entry and what it may still have to wait for add up to
\* less than the timeout and the slack, at each place of the checker.
FreshAsleep(d) ==
    pc["tmo"] = "sleep" => age[d] + timer["tmo"] < Spared(d) + CheckPeriod
FreshAwake(d) ==
    pc["tmo"] \in {"test", "check"} =>
        age[d] + (CallLeft("disc") + CallsAbout(NotOnline(d)))
            < Spared(d) + CheckPeriod + CallsAbout(Did \ {d})
FreshInPass(d) ==
    pc["tmo"] \in {"scan", "notify", "callback"} =>
        /\ d \in due => age[d] + (CallLeft("tmo") + CallsAbout(due \ {d})) < Timeout + Slack(d)
        /\ d \notin due => age[d] + (CallLeft("tmo") + CallsAbout(due)) < Spared(d)
FreshToldNow(d) ==
    Notifying("disc") /\ subject["disc"] = d => age[d] + CallLeft("disc") <= MaxCallback

Fresh(d) ==
    devices[d].status = "online" =>
        /\ pc["tmo"] # "off"
        /\ FreshAsleep(d)
        /\ FreshAwake(d)
        /\ FreshInPass(d)
        /\ FreshToldNow(d)

FreshInv == \A d \in Did : Fresh(d)

LEMMA FreshNumbers ==
    ASSUME IInv, Setting, NEW d \in Did
    PROVE  /\ age[d] \in Nat /\ CallLeft("disc") \in Nat /\ CallLeft("tmo") \in Nat
           /\ timer["disc"] \in Nat /\ timer["tmo"] \in Nat
           /\ CallLeft("disc") <= MaxCallback /\ CallLeft("tmo") <= MaxCallback
           /\ CallsAbout(NotOnline(d)) \in Nat
           /\ CallsAbout(NotOnline(d)) <= CallsAbout(Did \ {d})
           /\ CallsAbout(Did \ {d}) \in Nat /\ CallsAbout(Flaky(d)) \in Nat
           /\ CallsAbout(due) \in Nat /\ CallsAbout(due \ {d}) \in Nat
           /\ Spared(d) = Timeout + CallsAbout(Flaky(d)) /\ Spared(d) \in Nat
           /\ Timeout + Slack(d)
                = Spared(d) + CheckPeriod + CallsAbout(Did \ {d}) + CallsAbout(Flaky(d))
           /\ MaxCallback \in Nat /\ Timeout \in Nat /\ CheckPeriod \in Nat
           /\ MaxCallback < Timeout
<1>1. age[d] \in Nat /\ timer["disc"] \in Nat /\ timer["tmo"] \in Nat /\ due \in SUBSET Did
  <2>1. age \in [Did -> 0..AgeMax] /\ timer \in [Thread -> Nat] /\ due \in SUBSET Did
    BY DEF IInv, TypeOK
  <2> QED
    BY <2>1, TimeAssumption DEF Thread
<1>2. /\ MaxCallback \in Nat /\ Timeout \in Nat /\ CheckPeriod \in Nat
      /\ MaxCallback < Timeout
  BY TimeAssumption, CallbackAssumption
<1>3. \A t \in Thread : CallLeft(t) \in Nat /\ CallLeft(t) <= MaxCallback
  BY <1>1, <1>2 DEF CallLeft, Setting, TimersBounded, Thread
<1>4. /\ NotOnline(d) \in SUBSET (Did \ {d}) /\ Did \ {d} \in SUBSET Did
      /\ NotOnline(d) \in SUBSET Did
      /\ Flaky(d) \in SUBSET Did /\ due \ {d} \in SUBSET Did
  BY <1>1 DEF NotOnline, Flaky
<1>5. /\ CallsAbout(NotOnline(d)) \in Nat /\ CallsAbout(Did \ {d}) \in Nat
      /\ CallsAbout(Flaky(d)) \in Nat /\ CallsAbout(due) \in Nat
      /\ CallsAbout(due \ {d}) \in Nat
  BY <1>1, <1>4, CallsCount
<1>6. CallsAbout(NotOnline(d)) <= CallsAbout(Did \ {d})
  BY <1>4, CallsMonotone
<1>7. Slack(d) = CheckPeriod + CallsAbout(Did \ {d}) + 2 * CallsAbout(Flaky(d))
  BY DEF Slack, Flaky
<1>8. /\ Spared(d) = Timeout + CallsAbout(Flaky(d)) /\ Spared(d) \in Nat
      /\ Timeout + Slack(d)
           = Spared(d) + CheckPeriod + CallsAbout(Did \ {d}) + CallsAbout(Flaky(d))
  BY <1>2, <1>5, <1>7 DEF Spared
<1> QED
  BY <1>1, <1>2, <1>3, <1>5, <1>6, <1>8 DEF Thread

\* What FreshInv is for.
LEMMA FreshEnough == IInv /\ Setting /\ FreshInv => OnlineIsFresh
<1> SUFFICES ASSUME IInv, Setting, FreshInv, NEW d \in Did, devices[d].status = "online"
             PROVE  age[d] < Timeout + Slack(d)
  BY DEF OnlineIsFresh
<1>f. /\ pc["tmo"] # "off" /\ FreshAsleep(d) /\ FreshAwake(d) /\ FreshInPass(d)
  BY DEF FreshInv, Fresh
<1>n. /\ age[d] \in Nat /\ CallLeft("disc") \in Nat /\ CallLeft("tmo") \in Nat
      /\ timer["tmo"] \in Nat
      /\ CallsAbout(NotOnline(d)) \in Nat
      /\ CallsAbout(Did \ {d}) \in Nat /\ CallsAbout(Flaky(d)) \in Nat
      /\ CallsAbout(due) \in Nat /\ CallsAbout(due \ {d}) \in Nat
      /\ Spared(d) \in Nat /\ CheckPeriod \in Nat
      /\ Timeout + Slack(d)
           = Spared(d) + CheckPeriod + CallsAbout(Did \ {d}) + CallsAbout(Flaky(d))
  BY FreshNumbers
<1>1. CASE pc["tmo"] = "sleep"
  BY <1>1, <1>f, <1>n DEF FreshAsleep
<1>2. CASE pc["tmo"] \in {"test", "check"}
  BY <1>2, <1>f, <1>n DEF FreshAwake
<1>3. CASE pc["tmo"] \in {"scan", "notify", "callback"}
  BY <1>3, <1>f, <1>n DEF FreshInPass
<1>4. pc["tmo"] \in {"sleep", "test", "check", "scan", "notify", "callback"}
  BY <1>f DEF IInv, Discipline, Places, Setting, NeverStopped
<1> QED
  BY <1>1, <1>2, <1>3, <1>4

\* A step that neither touches the entry nor moves what it waits for.
LEMMA FreshUnconcerned ==
    ASSUME NEW d \in Did, Fresh(d), UNCHANGED <<devices, age, due, subject>>,
           pc'["tmo"] = pc["tmo"], timer'["tmo"] = timer["tmo"],
           CallLeft("disc")' = CallLeft("disc"), Notifying("disc")' <=> Notifying("disc")
    PROVE  Fresh(d)'
<1>1. CallLeft("tmo")' = CallLeft("tmo") /\ NotOnline(d)' = NotOnline(d)
  BY DEF CallLeft, NotOnline
<1>2. Spared(d)' = Spared(d) /\ Slack(d)' = Slack(d)
  BY DEF Spared, Slack, CallsAbout, Flaky
<1>3. CallsAbout(NotOnline(d))' = CallsAbout(NotOnline(d))
      /\ CallsAbout(due)' = CallsAbout(due) /\ CallsAbout(due \ {d})' = CallsAbout(due \ {d})
      /\ CallsAbout(Did \ {d})' = CallsAbout(Did \ {d})
  BY <1>1 DEF CallsAbout
<1> QED
  BY <1>1, <1>2, <1>3 DEF Fresh, FreshAsleep, FreshAwake, FreshInPass, FreshToldNow

LEMMA FreshUpdate ==
    ASSUME IInv, Setting, DUpdate, NEW d \in Did, Fresh(d)
    PROVE  Fresh(d)'
<1>1. pc \in [Thread -> PC] /\ age \in [Did -> 0..AgeMax] /\ timer \in [Thread -> Nat]
      /\ subject \in [Thread -> Did \cup {"none"}] /\ "disc" \in Thread /\ "tmo" \in Thread
  BY DEF IInv, TypeOK, Thread
<1>2. /\ answer.did \in Did
      /\ devices'[answer.did].status = "online"
      /\ \A e \in Did \ {answer.did} : devices'[e] = devices[e]
      /\ age' = [age EXCEPT ![answer.did] = 0]
      /\ IF devices[answer.did].status # "online"
           THEN pc' = [pc EXCEPT !["disc"] = "notify"]
                /\ subject' = [subject EXCEPT !["disc"] = answer.did]
           ELSE pc' = [pc EXCEPT !["disc"] = "poll"] /\ subject' = subject
  BY UpdateEffect
<1> DEFINE e == answer.did
<1>3. pc["disc"] = "update" /\ timer' = timer /\ due' = due
  BY DEF DUpdate
<1>4. pc["tmo"] \in {"sleep", "test", "check"} /\ pc'["tmo"] = pc["tmo"]
  <2>1. pc["tmo"] \notin {"off", "exit", "scan", "notify", "callback"}
    BY <1>3 DEF IInv, Discipline, LockDiscipline, DUpdate, TableFree, Setting, NeverStopped
  <2> QED
    BY <1>1, <1>2, <2>1 DEF IInv, Discipline, Places
<1>n. /\ age[d] \in Nat /\ CallsAbout(NotOnline(d)) \in Nat
      /\ CallsAbout(NotOnline(d)) <= CallsAbout(Did \ {d})
      /\ CallsAbout(Did \ {d}) \in Nat
      /\ CallsAbout(Flaky(d)) \in Nat /\ Spared(d) = Timeout + CallsAbout(Flaky(d))
      /\ MaxCallback \in Nat /\ Timeout \in Nat /\ CheckPeriod \in Nat
      /\ MaxCallback < Timeout
  BY FreshNumbers
<1>5. CallLeft("disc") = 0
      /\ CallLeft("disc")' = IF devices[e].status # "online" THEN MaxCallback ELSE 0
  BY <1>1, <1>2, <1>3 DEF CallLeft
<1>6. NotOnline(d)' = NotOnline(d) \ {e}
  BY <1>2 DEF NotOnline
<1>7. Spared(d)' = Spared(d)
  BY DEF Spared, CallsAbout, Flaky
<1>8. CallsAbout(NotOnline(d) \ {e}) \in Nat
      /\ CallsAbout(NotOnline(d) \ {e}) <= CallsAbout(NotOnline(d))
  <2>1. NotOnline(d) \in SUBSET Did /\ NotOnline(d) \ {e} \in SUBSET NotOnline(d)
        /\ NotOnline(d) \ {e} \in SUBSET Did
    BY DEF NotOnline
  <2> QED
    BY <2>1, CallsMonotone, CallsCount
<1>9. /\ CallsAbout(NotOnline(d))' = CallsAbout(NotOnline(d) \ {e})
      /\ CallsAbout(Did \ {d})' = CallsAbout(Did \ {d})
  BY <1>6 DEF CallsAbout
<1> SUFFICES ASSUME devices'[d].status = "online"
             PROVE  FreshAsleep(d)' /\ FreshAwake(d)' /\ FreshToldNow(d)'
  BY <1>4 DEF Fresh, FreshInPass
<1> HIDE DEF e
<1>10. CASE d = e
  <2>1. age'[d] = 0
    BY <1>1, <1>2, <1>10 DEF e
  <2>2. CallLeft("disc")' \in Nat /\ CallLeft("disc")' <= MaxCallback
    BY <1>5, <1>n
  <2>3. FreshToldNow(d)'
    BY <2>1, <2>2 DEF FreshToldNow
  <2>4. FreshAwake(d)'
    <3>1. 0 + (CallLeft("disc")' + CallsAbout(NotOnline(d) \ {e}))
            < Spared(d) + CheckPeriod + CallsAbout(Did \ {d})
      BY <1>n, <1>8, <2>2
    <3> QED
      BY <2>1, <3>1, <1>7, <1>9 DEF FreshAwake
  <2>5. FreshAsleep(d)'
    <3>1. pc["tmo"] = "sleep" => timer["tmo"] <= CheckPeriod
      BY DEF Setting, TimersBounded
    <3>2. timer["tmo"] \in Nat
      BY <1>1
    <3>3. pc["tmo"] = "sleep" => 0 + timer["tmo"] < Spared(d) + CheckPeriod
      BY <1>n, <3>1, <3>2
    <3> QED
      BY <2>1, <3>3, <1>3, <1>4, <1>7 DEF FreshAsleep
  <2> QED
    BY <2>3, <2>4, <2>5
<1>11. CASE d # e
  <2>1. age'[d] = age[d] /\ devices'[d] = devices[d]
    BY <1>1, <1>2, <1>11 DEF e
  <2>2. FreshAsleep(d) /\ FreshAwake(d)
    BY <2>1 DEF Fresh
  <2>3. FreshAsleep(d)'
    BY <2>1, <2>2, <1>3, <1>4, <1>7 DEF FreshAsleep
  <2>4. FreshToldNow(d)'
    BY <1>1, <1>2, <1>11 DEF FreshToldNow, Notifying, e
  <2>5. CallLeft("disc")' + CallsAbout(NotOnline(d) \ {e}) <= CallsAbout(NotOnline(d))
        /\ CallLeft("disc")' + CallsAbout(NotOnline(d) \ {e}) \in Nat
    <3>1. CASE devices[e].status # "online"
      <4>1. e \in NotOnline(d) /\ NotOnline(d) \in SUBSET Did
        BY <1>2, <1>11, <3>1 DEF NotOnline, e
      <4>2. CallsAbout(NotOnline(d)) = CallsAbout(NotOnline(d) \ {e}) + MaxCallback
        BY <4>1, CallsWithout
      <4> QED
        BY <4>2, <3>1, <1>5, <1>8, <1>n
    <3>2. CASE devices[e].status = "online"
      BY <3>2, <1>5, <1>8, <1>n
    <3> QED
      BY <3>1, <3>2
  <2>6. FreshAwake(d)'
    <3>1. pc["tmo"] \in {"test", "check"} =>
            age[d] + (0 + CallsAbout(NotOnline(d)))
              < Spared(d) + CheckPeriod + CallsAbout(Did \ {d})
      BY <2>2, <1>5 DEF FreshAwake
    <3>2. pc["tmo"] \in {"test", "check"} =>
            age[d] + (CallLeft("disc")' + CallsAbout(NotOnline(d) \ {e}))
              < Spared(d) + CheckPeriod + CallsAbout(Did \ {d})
      BY <3>1, <2>5, <1>n
    <3> QED
      BY <3>2, <2>1, <1>4, <1>7, <1>9 DEF FreshAwake
  <2> QED
    BY <2>3, <2>4, <2>6
<1> QED
  BY <1>10, <1>11

\* A step of a notification: the call it is about becomes shorter, or ends.
LEMMA FreshNotification ==
    ASSUME IInv, Setting, NEW t \in Thread, Notification(t), NEW d \in Did, Fresh(d)
    PROVE  Fresh(d)'
<1>1. pc \in [Thread -> PC] /\ timer \in [Thread -> Nat]
      /\ "disc" \in Thread /\ "tmo" \in Thread
  BY DEF IInv, TypeOK, Thread
<1>2. UNCHANGED <<devices, age, due, subject>> /\ Notifying(t)
  BY DEF Notification, NotifyListener, NotifyNobody, CallbackReturns, table, Notifying
<1>3. \A u \in Thread \ {t} : pc'[u] = pc[u] /\ timer'[u] = timer[u]
  BY <1>1 DEF Notification, NotifyListener, NotifyNobody, CallbackReturns, Goto, Sleep
<1>4. pc'[t] \in {"callback", Resume(t)}
  BY <1>1 DEF Notification, NotifyListener, NotifyNobody, CallbackReturns, Goto
<1>5. CallLeft(t)' \in Nat /\ CallLeft(t)' <= CallLeft(t)
  <2>1. CASE \E n \in 0..MaxCallback : NotifyListener(t, n)
    <3>1. PICK n \in 0..MaxCallback : NotifyListener(t, n)
      BY <2>1
    <3>2. pc[t] = "notify" /\ pc'[t] = "callback" /\ timer'[t] = n
      BY <1>1, <3>1 DEF NotifyListener, Goto, Sleep
    <3> QED
      BY <3>2, TimeAssumption DEF CallLeft
  <2>2. CASE NotifyNobody(t) \/ CallbackReturns(t)
    <3>1. pc'[t] = Resume(t) /\ Resume(t) \notin {"notify", "callback"}
      BY <1>1, <2>2 DEF NotifyNobody, CallbackReturns, Goto, Resume
    <3>2. CallLeft(t)' = 0 /\ CallLeft(t) \in Nat
      BY <1>1, <3>1, TimeAssumption DEF CallLeft
    <3> QED
      BY <3>2
  <2> QED
    BY <2>1, <2>2 DEF Notification
<1>6. NotOnline(d)' = NotOnline(d)
  BY <1>2 DEF NotOnline
<1>7. Spared(d)' = Spared(d) /\ Slack(d)' = Slack(d)
      /\ CallsAbout(NotOnline(d))' = CallsAbout(NotOnline(d))
      /\ CallsAbout(due)' = CallsAbout(due) /\ CallsAbout(due \ {d})' = CallsAbout(due \ {d})
      /\ CallsAbout(Did \ {d})' = CallsAbout(Did \ {d})
  BY <1>2, <1>6 DEF Spared, Slack, CallsAbout, Flaky
<1>n. /\ age[d] \in Nat /\ CallLeft("disc") \in Nat /\ CallLeft("tmo") \in Nat
      /\ CallsAbout(NotOnline(d)) \in Nat
      /\ CallsAbout(Did \ {d}) \in Nat /\ CallsAbout(Flaky(d)) \in Nat
      /\ CallsAbout(due) \in Nat /\ CallsAbout(due \ {d}) \in Nat
      /\ Spared(d) \in Nat
      /\ Timeout + Slack(d)
           = Spared(d) + CheckPeriod + CallsAbout(Did \ {d}) + CallsAbout(Flaky(d))
      /\ MaxCallback \in Nat /\ Timeout \in Nat /\ CheckPeriod \in Nat
  BY FreshNumbers
<1> SUFFICES ASSUME devices[d].status = "online" PROVE Fresh(d)'
  BY <1>2 DEF Fresh
<1>f. pc["tmo"] # "off" /\ FreshAsleep(d) /\ FreshAwake(d) /\ FreshInPass(d) /\ FreshToldNow(d)
  BY DEF Fresh
<1>8. CASE t = "disc"
  <2>1. pc'["tmo"] = pc["tmo"] /\ timer'["tmo"] = timer["tmo"] /\ CallLeft("tmo")' = CallLeft("tmo")
    BY <1>1, <1>3, <1>8 DEF CallLeft
  <2>2. FreshAsleep(d)' /\ FreshInPass(d)'
    BY <1>f, <1>2, <1>7, <2>1 DEF FreshAsleep, FreshInPass
  <2>3. CallLeft("disc")' \in Nat /\ CallLeft("disc")' <= CallLeft("disc")
    BY <1>5, <1>8
  <2>4. FreshAwake(d)'
    <3>1. pc["tmo"] \in {"test", "check"} =>
            age[d] + (CallLeft("disc")' + CallsAbout(NotOnline(d)))
              < Spared(d) + CheckPeriod + CallsAbout(Did \ {d})
      BY <1>f, <1>n, <2>3 DEF FreshAwake
    <3> QED
      BY <3>1, <1>2, <1>7, <2>1 DEF FreshAwake
  <2>5. FreshToldNow(d)'
    <3>1. subject["disc"] = d => age[d] + CallLeft("disc")' <= MaxCallback
      BY <1>f, <1>n, <1>2, <1>8, <2>3 DEF FreshToldNow
    <3> QED
      BY <3>1, <1>2 DEF FreshToldNow
  <2> QED
    BY <1>f, <2>1, <2>2, <2>4, <2>5 DEF Fresh
<1>9. CASE t = "tmo"
  <2>1. pc'["disc"] = pc["disc"] /\ CallLeft("disc")' = CallLeft("disc")
        /\ (Notifying("disc")' <=> Notifying("disc"))
    BY <1>1, <1>3, <1>9 DEF CallLeft, Notifying
  <2>2. FreshToldNow(d)'
    BY <1>f, <1>2, <2>1 DEF FreshToldNow
  <2>3. pc'["tmo"] \in {"callback", "scan"} /\ pc["tmo"] \in {"notify", "callback"}
    BY <1>2, <1>4, <1>9 DEF Resume, Notifying
  <2>4. CallLeft("tmo")' \in Nat /\ CallLeft("tmo")' <= CallLeft("tmo")
    BY <1>5, <1>9
  <2>5. /\ d \in due => age[d] + (CallLeft("tmo")' + CallsAbout(due \ {d})) < Timeout + Slack(d)
        /\ d \notin due => age[d] + (CallLeft("tmo")' + CallsAbout(due)) < Spared(d)
    <3>1. /\ d \in due => age[d] + (CallLeft("tmo") + CallsAbout(due \ {d})) < Timeout + Slack(d)
          /\ d \notin due => age[d] + (CallLeft("tmo") + CallsAbout(due)) < Spared(d)
      BY <1>f, <2>3 DEF FreshInPass
    <3>2. Timeout + Slack(d) \in Nat
      BY <1>n
    <3> QED
      BY <3>1, <3>2, <1>n, <2>4
  <2>6. FreshInPass(d)'
    BY <2>5, <1>2, <1>7 DEF FreshInPass
  <2> QED
    BY <2>2, <2>3, <2>6 DEF Fresh, FreshAsleep, FreshAwake
<1> QED
  BY <1>8, <1>9 DEF Thread

\* The pass begins: those it finds due beside d may have been silent all along.
LEMMA FreshCheck ==
    ASSUME IInv, Setting, TCheck, ResponsiveStaysOnline', NEW d \in Did, Fresh(d)
    PROVE  Fresh(d)'
<1>1. pc \in [Thread -> PC] /\ "disc" \in Thread /\ "tmo" \in Thread
  BY DEF IInv, TypeOK, Thread
<1>2. /\ pc["tmo"] = "check" /\ pc'["tmo"] = "scan" /\ pc'["disc"] = pc["disc"]
      /\ devices' = devices /\ age' = age /\ timer' = timer /\ subject' = subject
      /\ due' = {e \in Did : Expired(e)}
  BY <1>1 DEF TCheck, Goto, table
<1>3. ~Notifying("disc") /\ CallLeft("disc") = 0
  BY <1>1 DEF TCheck, TableFree, IInv, Discipline, LockDiscipline, Notifying, CallLeft
<1>4. due' \ {d} \in SUBSET Flaky(d) /\ (d \notin due' => due' \in SUBSET Flaky(d))
      /\ Flaky(d) \in SUBSET Did /\ due' \in SUBSET Did
  BY <1>2 DEF ResponsiveStaysOnline, Flaky
<1>5. /\ CallsAbout(due' \ {d}) \in Nat /\ CallsAbout(due' \ {d}) <= CallsAbout(Flaky(d))
      /\ CallsAbout(due') \in Nat
      /\ d \notin due' => CallsAbout(due') <= CallsAbout(Flaky(d))
  <2>1. due' \ {d} \in SUBSET Did
    BY <1>4
  <2> QED
    BY <1>4, <2>1, CallsCount, CallsMonotone
<1>n. /\ age[d] \in Nat
      /\ CallsAbout(NotOnline(d)) \in Nat
      /\ CallsAbout(Did \ {d}) \in Nat /\ CallsAbout(Flaky(d)) \in Nat
      /\ Spared(d) = Timeout + CallsAbout(Flaky(d)) /\ Spared(d) \in Nat
      /\ Timeout + Slack(d)
           = Spared(d) + CheckPeriod + CallsAbout(Did \ {d}) + CallsAbout(Flaky(d))
      /\ Timeout \in Nat /\ CheckPeriod \in Nat
  BY FreshNumbers
<1> SUFFICES ASSUME devices[d].status = "online" PROVE Fresh(d)'
  BY <1>2 DEF Fresh
<1>6. age[d] + (0 + CallsAbout(NotOnline(d))) < Spared(d) + CheckPeriod + CallsAbout(Did \ {d})
  BY <1>2, <1>3 DEF Fresh, FreshAwake
<1>7. d \notin due' => age[d] < Timeout
  BY <1>2, <1>n DEF Expired
<1>8. /\ d \in due' => age[d] + (0 + CallsAbout(due' \ {d})) < Timeout + Slack(d)
      /\ d \notin due' => age[d] + (0 + CallsAbout(due')) < Spared(d)
  BY <1>5, <1>6, <1>7, <1>n
<1>9. CallLeft("tmo")' = 0
  BY <1>2 DEF CallLeft
<1>10. /\ CallsAbout(due \ {d})' = CallsAbout(due' \ {d}) /\ CallsAbout(due)' = CallsAbout(due')
       /\ Slack(d)' = Slack(d) /\ Spared(d)' = Spared(d)
  BY DEF CallsAbout, Slack, Spared, Flaky
<1>11. FreshInPass(d)'
  BY <1>2, <1>8, <1>9, <1>10 DEF FreshInPass
<1>12. ~Notifying("disc")'
  BY <1>2, <1>3 DEF Notifying
<1> QED
  BY <1>2, <1>11, <1>12 DEF Fresh, FreshAsleep, FreshAwake, FreshToldNow

\* The pass goes on: one device less to wait for, and the call about it.
LEMMA FreshExpire ==
    ASSUME IInv, Setting, NEW e \in Did, TExpire(e), NEW d \in Did, Fresh(d)
    PROVE  Fresh(d)'
<1>1. pc \in [Thread -> PC] /\ "disc" \in Thread /\ "tmo" \in Thread
  BY DEF IInv, TypeOK, Thread
<1>2. /\ pc["tmo"] = "scan" /\ pc'["tmo"] = "notify" /\ pc'["disc"] = pc["disc"]
      /\ age' = age /\ e \in due /\ due' = due \ {e}
  BY <1>1 DEF TExpire, Goto
<1>3. /\ devices'[e].status = "offline" /\ ~Notifying("disc")
      /\ \A x \in Did \ {e} : devices'[x] = devices[x]
  BY ExpireEffect
<1> SUFFICES ASSUME devices[d].status = "online", d # e PROVE Fresh(d)'
  BY <1>3 DEF Fresh
<1>n. /\ age[d] \in Nat
      /\ CallsAbout(due) \in Nat /\ CallsAbout(due \ {d}) \in Nat
      /\ MaxCallback \in Nat
  BY FreshNumbers
<1>4. due \in SUBSET Did
  BY DEF IInv, TypeOK
<1>5. /\ CallsAbout(due) = MaxCallback + CallsAbout(due \ {e})
      /\ CallsAbout(due \ {d}) = MaxCallback + CallsAbout((due \ {e}) \ {d})
  <2>1. due \ {d} \in SUBSET Did /\ e \in due \ {d} /\ (due \ {d}) \ {e} = (due \ {e}) \ {d}
        /\ (due \ {e}) \ {d} \in SUBSET Did /\ due \ {e} \in SUBSET Did
    BY <1>2, <1>4
  <2>2. CallsAbout(due) = CallsAbout(due \ {e}) + MaxCallback
    BY <1>2, <1>4, CallsWithout
  <2>3. CallsAbout(due \ {d}) = CallsAbout((due \ {d}) \ {e}) + MaxCallback
    BY <2>1, CallsWithout
  <2>4. CallsAbout(due \ {e}) \in Nat /\ CallsAbout((due \ {e}) \ {d}) \in Nat
    BY <2>1, CallsCount
  <2> QED
    BY <2>1, <2>2, <2>3, <2>4, <1>n
<1>6. CallLeft("tmo") = 0 /\ CallLeft("tmo")' = MaxCallback
  BY <1>2 DEF CallLeft
<1>7. /\ d \in due => age[d] + (0 + CallsAbout(due \ {d})) < Timeout + Slack(d)
      /\ d \notin due => age[d] + (0 + CallsAbout(due)) < Spared(d)
  BY <1>2, <1>6 DEF Fresh, FreshInPass
<1>8. /\ d \in due => age[d] + (MaxCallback + CallsAbout((due \ {e}) \ {d})) < Timeout + Slack(d)
      /\ d \notin due => age[d] + (MaxCallback + CallsAbout(due \ {e})) < Spared(d)
  BY <1>5, <1>7, <1>n
<1>9. /\ CallsAbout(due \ {d})' = CallsAbout((due \ {e}) \ {d})
      /\ CallsAbout(due)' = CallsAbout(due \ {e})
      /\ Slack(d)' = Slack(d) /\ Spared(d)' = Spared(d) /\ (d \in due' <=> d \in due)
  BY <1>2 DEF CallsAbout, Slack, Spared, Flaky
<1>10. FreshInPass(d)'
  BY <1>2, <1>6, <1>8, <1>9 DEF FreshInPass
<1>11. ~Notifying("disc")'
  BY <1>2, <1>3 DEF Notifying
<1> QED
  BY <1>2, <1>10, <1>11 DEF Fresh, FreshAsleep, FreshAwake, FreshToldNow

LEMMA FreshDone ==
    ASSUME IInv, Setting, TDone, NEW d \in Did, Fresh(d)
    PROVE  Fresh(d)'
<1>1. pc \in [Thread -> PC] /\ timer \in [Thread -> Nat] /\ "disc" \in Thread /\ "tmo" \in Thread
  BY DEF IInv, TypeOK, Thread
<1>2. /\ pc["tmo"] = "scan" /\ pc'["tmo"] = "sleep" /\ pc'["disc"] = pc["disc"]
      /\ timer'["tmo"] = CheckPeriod /\ due = {}
      /\ devices' = devices /\ age' = age
  BY <1>1 DEF TDone, Goto, Sleep, table
<1>3. ~Notifying("disc")
  BY <1>2 DEF IInv, Discipline, LockDiscipline, Notifying
<1> SUFFICES ASSUME devices[d].status = "online" PROVE Fresh(d)'
  BY <1>2 DEF Fresh
<1>n. age[d] \in Nat /\ Spared(d) \in Nat /\ CheckPeriod \in Nat
  BY FreshNumbers
<1>4. CallLeft("tmo") = 0 /\ CallsAbout(due) = 0
  BY <1>2, CallsNone DEF CallLeft
<1>5. age[d] + (0 + 0) < Spared(d)
  BY <1>2, <1>4 DEF Fresh, FreshInPass
<1>6. age[d] + CheckPeriod < Spared(d) + CheckPeriod
  BY <1>5, <1>n
<1>7. Spared(d)' = Spared(d)
  BY DEF CallsAbout, Spared, Flaky
<1>8. ~Notifying("disc")'
  BY <1>2, <1>3 DEF Notifying
<1> QED
  BY <1>2, <1>6, <1>7, <1>8 DEF Fresh, FreshAsleep, FreshAwake, FreshInPass, FreshToldNow

\* The checker wakes up: it may have to wait for the call discovery is in, and
\* for one about each device that is not online.
LEMMA FreshWake ==
    ASSUME IInv, Setting, TWake, NEW d \in Did, Fresh(d)
    PROVE  Fresh(d)'
<1>1. pc \in [Thread -> PC] /\ timer \in [Thread -> Nat] /\ "disc" \in Thread /\ "tmo" \in Thread
  BY DEF IInv, TypeOK, Thread
<1>2. /\ pc["tmo"] = "sleep" /\ pc'["tmo"] = "test" /\ pc'["disc"] = pc["disc"]
      /\ timer' = timer /\ timer["tmo"] = 0 /\ subject' = subject
      /\ devices' = devices /\ age' = age
  BY <1>1 DEF TWake, Goto, table
<1> SUFFICES ASSUME devices[d].status = "online" PROVE Fresh(d)'
  BY <1>2 DEF Fresh
<1>n. /\ age[d] \in Nat /\ CallLeft("disc") \in Nat /\ CallLeft("disc") <= MaxCallback
      /\ CallsAbout(NotOnline(d)) \in Nat
      /\ CallsAbout(NotOnline(d)) <= CallsAbout(Did \ {d})
      /\ CallsAbout(Did \ {d}) \in Nat /\ CallsAbout(Flaky(d)) \in Nat
      /\ Spared(d) = Timeout + CallsAbout(Flaky(d))
      /\ Timeout \in Nat /\ CheckPeriod \in Nat /\ MaxCallback \in Nat /\ MaxCallback < Timeout
  BY FreshNumbers
<1>3. age[d] + 0 < Spared(d) + CheckPeriod
  BY <1>2 DEF Fresh, FreshAsleep
<1>4. age[d] + (CallLeft("disc") + CallsAbout(NotOnline(d)))
        < Spared(d) + CheckPeriod + CallsAbout(Did \ {d})
  <2>1. CASE ~Notifying("disc")
    <3>1. CallLeft("disc") = 0
      BY <2>1 DEF Notifying, CallLeft
    <3> QED
      BY <3>1, <1>3, <1>n
  <2>2. CASE Notifying("disc") /\ subject["disc"] = d
    <3>1. age[d] + CallLeft("disc") <= MaxCallback
      BY <2>2 DEF Fresh, FreshToldNow
    <3> QED
      BY <3>1, <1>n
  <2>3. CASE Notifying("disc") /\ subject["disc"] # d
    <3> DEFINE e == subject["disc"]
    <3>1. e \in Did \ {d} /\ devices[e].status = "online"
      BY <2>3, <1>1 DEF IInv, Discipline, SubjectTold, Setting, SubjectAsTold
    <3>2. NotOnline(d) \in SUBSET ((Did \ {d}) \ {e}) /\ (Did \ {d}) \ {e} \in SUBSET Did
          /\ Did \ {d} \in SUBSET Did
      BY <3>1 DEF NotOnline
    <3>3. CallsAbout(NotOnline(d)) <= CallsAbout((Did \ {d}) \ {e})
          /\ CallsAbout((Did \ {d}) \ {e}) \in Nat
          /\ CallsAbout(Did \ {d}) = CallsAbout((Did \ {d}) \ {e}) + MaxCallback
      BY <3>1, <3>2, CallsMonotone, CallsCount, CallsWithout
    <3> HIDE DEF e
    <3> QED
      BY <3>3, <1>3, <1>n
  <2> QED
    BY <2>1, <2>2, <2>3
<1>5. /\ CallLeft("disc")' = CallLeft("disc") /\ NotOnline(d)' = NotOnline(d)
      /\ (Notifying("disc")' <=> Notifying("disc"))
  BY <1>2 DEF CallLeft, NotOnline, Notifying
<1>6. /\ Spared(d)' = Spared(d) /\ CallsAbout(Did \ {d})' = CallsAbout(Did \ {d})
      /\ CallsAbout(NotOnline(d))' = CallsAbout(NotOnline(d))
  BY <1>5 DEF CallsAbout, Spared, Flaky
<1>7. FreshAwake(d)'
  BY <1>2, <1>4, <1>5, <1>6 DEF FreshAwake
<1>8. FreshToldNow(d)'
  BY <1>2, <1>5 DEF FreshToldNow, Fresh
<1> QED
  BY <1>2, <1>7, <1>8 DEF Fresh, FreshAsleep, FreshInPass

\* A second passes: the entry gets older, and what it waits for shorter.
LEMMA FreshSecond ==
    ASSUME IInv, Setting, Second, NEW d \in Did, Fresh(d)
    PROVE  Fresh(d)'
<1>1. pc \in [Thread -> PC] /\ timer \in [Thread -> Nat] /\ age \in [Did -> 0..AgeMax]
      /\ "disc" \in Thread /\ "tmo" \in Thread
  BY DEF IInv, TypeOK, Thread
<1>2. /\ pc' = pc /\ devices' = devices /\ subject' = subject /\ due' = due
      /\ \A t \in Thread : timer'[t] = IF timer[t] > 0 THEN timer[t] - 1 ELSE 0
      /\ \A t \in Thread : ~CanRun(t)
      /\ age' = [x \in Did |-> IF devices[x].status = "absent" THEN 0
                               ELSE Min2(age[x] + 1, AgeMax)]
  BY DEF Second, Tick, discLocals
<1> SUFFICES ASSUME devices[d].status = "online" PROVE Fresh(d)'
  BY <1>2 DEF Fresh
<1>n. /\ age[d] \in Nat /\ CallLeft("disc") \in Nat /\ CallLeft("tmo") \in Nat
      /\ timer["disc"] \in Nat /\ timer["tmo"] \in Nat
      /\ CallsAbout(NotOnline(d)) \in Nat
      /\ CallsAbout(Did \ {d}) \in Nat /\ CallsAbout(Flaky(d)) \in Nat
      /\ CallsAbout(due) \in Nat /\ CallsAbout(due \ {d}) \in Nat
      /\ Spared(d) \in Nat
      /\ Timeout + Slack(d)
           = Spared(d) + CheckPeriod + CallsAbout(Did \ {d}) + CallsAbout(Flaky(d))
      /\ MaxCallback \in Nat /\ Timeout \in Nat /\ CheckPeriod \in Nat
  BY FreshNumbers
<1>3. age'[d] \in Nat /\ age'[d] <= age[d] + 1
  <2>1. age'[d] = Min2(age[d] + 1, AgeMax)
    BY <1>1, <1>2
  <2> QED
    BY <2>1, <1>n, TimeAssumption DEF Min2
<1>4. \A t \in Thread : Notifying(t) =>
        pc[t] = "callback" /\ timer[t] > 0 /\ CallLeft(t) = timer[t]
        /\ CallLeft(t)' = timer[t] - 1
  <2> SUFFICES ASSUME NEW t \in Thread, Notifying(t)
               PROVE  pc[t] = "callback" /\ timer[t] > 0 /\ CallLeft(t) = timer[t]
                      /\ CallLeft(t)' = timer[t] - 1
    OBVIOUS
  <2>1. pc[t] = "callback" /\ timer[t] # 0
    BY <1>2 DEF Notifying, CanRun
  <2>2. timer[t] \in Nat /\ timer[t] > 0
    BY <1>1, <2>1
  <2>3. timer'[t] = timer[t] - 1 /\ pc'[t] = "callback"
    BY <1>2, <2>1, <2>2
  <2> QED
    BY <2>1, <2>2, <2>3 DEF CallLeft
<1>5. NotOnline(d)' = NotOnline(d)
  BY <1>2 DEF NotOnline
<1>6. /\ Spared(d)' = Spared(d) /\ Slack(d)' = Slack(d)
      /\ CallsAbout(NotOnline(d))' = CallsAbout(NotOnline(d))
      /\ CallsAbout(due)' = CallsAbout(due) /\ CallsAbout(due \ {d})' = CallsAbout(due \ {d})
      /\ CallsAbout(Did \ {d})' = CallsAbout(Did \ {d})
  BY <1>2, <1>5 DEF Spared, Slack, CallsAbout, Flaky
<1>f. pc["tmo"] # "off" /\ FreshAsleep(d) /\ FreshAwake(d) /\ FreshInPass(d) /\ FreshToldNow(d)
  BY DEF Fresh
<1>7. FreshAsleep(d)'
  <2> SUFFICES ASSUME pc["tmo"] = "sleep" PROVE age'[d] + timer'["tmo"] < Spared(d) + CheckPeriod
    BY <1>2, <1>6 DEF FreshAsleep
  <2>1. timer["tmo"] # 0
    BY <1>1, <1>2 DEF CanRun
  <2>2. timer'["tmo"] = timer["tmo"] - 1
    BY <2>1, <1>1, <1>2
  <2>3. age[d] + timer["tmo"] < Spared(d) + CheckPeriod
    BY <1>f DEF FreshAsleep
  <2> QED
    BY <2>1, <2>2, <2>3, <1>3, <1>n
<1>8. FreshAwake(d)'
  <2> SUFFICES ASSUME pc["tmo"] \in {"test", "check"}
               PROVE  age'[d] + (CallLeft("disc")' + CallsAbout(NotOnline(d)))
                        < Spared(d) + CheckPeriod + CallsAbout(Did \ {d})
    BY <1>2, <1>6 DEF FreshAwake
  <2>1. devicesMutex # "free" /\ devicesMutex # "tmo" /\ devicesMutex \in Holder
    BY <1>1, <1>2 DEF CanRun, TableFree, IInv, TypeOK, Discipline, LockDiscipline
  <2>2. Notifying("disc")
    BY <2>1 DEF IInv, Discipline, LockDiscipline, Notifying, Holder, Thread
  <2>3. CallLeft("disc") > 0 /\ CallLeft("disc")' = CallLeft("disc") - 1
    BY <2>2, <1>1, <1>4
  <2>4. age[d] + (CallLeft("disc") + CallsAbout(NotOnline(d)))
          < Spared(d) + CheckPeriod + CallsAbout(Did \ {d})
    BY <1>f DEF FreshAwake
  <2> QED
    BY <2>3, <2>4, <1>3, <1>n
<1>9. FreshInPass(d)'
  <2> SUFFICES ASSUME pc["tmo"] \in {"scan", "notify", "callback"}
               PROVE
        /\ d \in due => age'[d] + (CallLeft("tmo")' + CallsAbout(due \ {d})) < Timeout + Slack(d)
        /\ d \notin due => age'[d] + (CallLeft("tmo")' + CallsAbout(due)) < Spared(d)
    BY <1>2, <1>6 DEF FreshInPass
  <2>1. Notifying("tmo")
    BY <1>1, <1>2 DEF CanRun, Notifying
  <2>2. CallLeft("tmo") > 0 /\ CallLeft("tmo")' = CallLeft("tmo") - 1
    BY <2>1, <1>1, <1>4
  <2>3. /\ d \in due => age[d] + (CallLeft("tmo") + CallsAbout(due \ {d})) < Timeout + Slack(d)
        /\ d \notin due => age[d] + (CallLeft("tmo") + CallsAbout(due)) < Spared(d)
    BY <1>f DEF FreshInPass
  <2>4. Timeout + Slack(d) \in Nat
    BY <1>n
  <2> QED
    BY <2>2, <2>3, <2>4, <1>3, <1>n
<1>10. FreshToldNow(d)'
  <2> SUFFICES ASSUME Notifying("disc"), subject["disc"] = d
               PROVE  age'[d] + CallLeft("disc")' <= MaxCallback
    BY <1>2 DEF FreshToldNow, Notifying
  <2>1. CallLeft("disc") > 0 /\ CallLeft("disc")' = CallLeft("disc") - 1
    BY <1>1, <1>4
  <2>2. age[d] + CallLeft("disc") <= MaxCallback
    BY <1>f DEF FreshToldNow
  <2> QED
    BY <2>1, <2>2, <1>3, <1>n
<1> QED
  BY <1>2, <1>f, <1>7, <1>8, <1>9, <1>10 DEF Fresh

LEMMA FreshStep ==
    ASSUME IInv, Setting, [TimedNext]_timedVars, ResponsiveStaysOnline',
           NEW d \in Did, Fresh(d)
    PROVE  Fresh(d)'
<1>1. pc \in [Thread -> PC] /\ timer \in [Thread -> Nat] /\ "disc" \in Thread /\ "tmo" \in Thread
  BY DEF IInv, TypeOK, Thread
<1>2. ASSUME NEW n \in 0..StartDelay, Start(Iface, n) PROVE Fresh(d)'
  <2>1. pc["tmo"] = "off" /\ devices' = devices
    BY <1>1, <1>2 DEF Start, IInv, Discipline, NoThreadsAtRest
  <2> QED
    BY <1>1, <1>2, <2>1 DEF Fresh, Start
<1> USE DEF table, discLocals
<1>3. CASE RegisterCallback \/ UNCHANGED vars
  <2>1. UNCHANGED <<devices, age, due, subject, pc, timer>>
    BY <1>3 DEF RegisterCallback, vars
  <2> QED
    BY <2>1, FreshUnconcerned DEF CallLeft, Notifying
<1>4. CASE Discovery /\ ~DUpdate /\ ~Notification("disc")
  <2>1. UNCHANGED <<devices, age, due, subject>>
    BY <1>4 DEF Discovery, DDelayOver, DTest, DProbe, DLock, DReceive, DBreak, DSleep, DWake
  <2>2. pc'["tmo"] = pc["tmo"] /\ timer'["tmo"] = timer["tmo"]
    BY <1>1, <1>4 DEF Discovery, DDelayOver, DTest, DProbe, DLock, DReceive, DBreak, DSleep,
       DWake, Goto, Sleep
  <2>3. ~Notifying("disc") /\ ~Notifying("disc")'
    BY <1>1, <1>4 DEF Discovery, DDelayOver, DTest, DProbe, DLock, DReceive, DBreak, DSleep,
       DWake, Goto, Sleep, Notifying
  <2>4. CallLeft("disc") = 0 /\ CallLeft("disc")' = 0
    BY <2>3 DEF CallLeft, Notifying
  <2> QED
    BY <2>1, <2>2, <2>3, <2>4, FreshUnconcerned
<1>5. CASE TTest
  <2>1. /\ UNCHANGED <<devices, age, due, subject, timer>>
        /\ pc["tmo"] = "test" /\ pc'["tmo"] \in {"check", "exit"} /\ pc'["disc"] = pc["disc"]
    BY <1>1, <1>5 DEF TTest, Goto
  <2>2. pc'["tmo"] = "check"
    BY <2>1, NeverStoppedStep DEF NeverStopped
  <2>3. CallLeft("disc")' = CallLeft("disc") /\ (Notifying("disc")' <=> Notifying("disc"))
        /\ NotOnline(d)' = NotOnline(d)
    BY <2>1 DEF CallLeft, Notifying, NotOnline
  <2>4. Spared(d)' = Spared(d) /\ CallsAbout(NotOnline(d))' = CallsAbout(NotOnline(d))
        /\ CallsAbout(Did \ {d})' = CallsAbout(Did \ {d})
    BY <2>3 DEF Spared, CallsAbout, Flaky
  <2> QED
    BY <2>1, <2>2, <2>3, <2>4
    DEF Fresh, FreshAsleep, FreshAwake, FreshInPass, FreshToldNow
<1>6. ASSUME NEW e \in Did, AnswerProbe(e) \/ FallSilent(e) PROVE Fresh(d)'
  <2>1. UNCHANGED <<devices, age, due, subject, pc, timer>>
    BY <1>6 DEF AnswerProbe, FallSilent, Arrive, vars
  <2> QED
    BY <2>1, FreshUnconcerned DEF CallLeft, Notifying
<1>7. CASE DUpdate \/ Second \/ TCheck \/ TDone \/ TWake
  BY <1>7, FreshUpdate, FreshSecond, FreshCheck, FreshDone, FreshWake
<1>8. ASSUME NEW e \in Did, TExpire(e) PROVE Fresh(d)'
  BY <1>8, FreshExpire
<1>9. ASSUME NEW t \in Thread, Notification(t) PROVE Fresh(d)'
  BY <1>9, FreshNotification
<1> QED
  BY <1>1, <1>2, <1>3, <1>4, <1>5, <1>6, <1>7, <1>8, <1>9
  DEF TimedNext, Broadcast, Other, Discovery, Checker, timedVars

LEMMA FreshInductive == TimedSpec => ([]ResponsiveStaysOnline => []FreshInv)
<1>1. TimedInit => FreshInv
  BY DEF TimedInit, Init, Absent, FreshInv, Fresh
<1>2. IInv /\ Setting /\ ResponsiveStaysOnline' /\ FreshInv /\ [TimedNext]_timedVars => FreshInv'
  BY FreshStep DEF FreshInv
<1> QED
  BY <1>1, <1>2, TimedInductive, PTL DEF TimedSpec

\* Whatever the listener does within its time and however many devices there are,
\* as long as no device that keeps answering is declared offline, no entry is shown
\* online longer than the timeout and the slack after its device was last heard.
THEOREM FreshWhenOnline == TimedSpec => ([]ResponsiveStaysOnline => []OnlineIsFresh)
<1>1. IInv /\ Setting /\ FreshInv => OnlineIsFresh
  BY FreshEnough
<1> QED
  BY <1>1, TimedInductive, FreshInductive, PTL

\* In particular when nothing is known of how the devices answer.
THEOREM FreshWithSilentDevices == Responsive = {} => (TimedSpec => []OnlineIsFresh)
<1> SUFFICES ASSUME Responsive = {} PROVE TimedSpec => []OnlineIsFresh
  OBVIOUS
<1>1. ResponsiveStaysOnline
  BY DEF ResponsiveStaysOnline
<1>2. []ResponsiveStaysOnline
  BY <1>1, PTL
<1> QED
  BY <1>2, FreshWhenOnline, PTL

--------------------------------------------------------------------------------
(* Devices that answer stay online.                                         *)

Here(i) == {d \in Did : HomeIface[d] = i}
AllCalls == CallsAbout(Did)
FirstInterval == Min2(2 * MinScan, MaxScan)

\* How old the entry of a device that answers can get: an interval, a second for
\* each answer read before its own, and the listener calls in between.
Pace == MaxScan + Cardinality(Did) + 2 * AllCalls + 1

\* No more devices on an interface than the shortest interval has seconds, sockets
\* that buffer what arrives meanwhile, and a timeout that leaves room for it all.
KeepsUp ==
    /\ Responsive = Did \/ MaxCallback = 0
    /\ \A i \in Iface : Cardinality(Here(i)) <= FirstInterval
    /\ Cardinality(Did) + AllCalls <= InboxCap
    /\ Pace < Timeout

\* Listener calls that discovery has before it: the one it is in, and one about
\* each device it does not know.
Unknown == {d \in Did : devices[d].status = "absent"}
Ahead == CallsAbout(Unknown) + CallLeft("disc")

\* Seconds to the end of the scan interval.
Until == IF sinceProbe < scanInterval THEN scanInterval - sinceProbe ELSE 0

\* 1 when the datagram of this second has been taken from a socket.
Read(i) ==
    IF \/ pc["disc"] = "sleep" /\ timer["disc"] = 1
       \/ pc["disc"] \in {"poll", "update", "notify", "callback"} /\ i \notin todo
    THEN 1 ELSE 0

\* Answers on an interface that have still to be read, those under way included.
Owing(i) == Cardinality(owed \cap Here(i))
Load(i) == Len(inbox[i]) + Owing(i)

BetweenScans == pc["disc"] \in {"off", "delay", "outer", "probe"}

NothingKnown == pc["disc"] \in {"off", "delay"} => \A d \in Did : devices[d].status = "absent"

\* A scan leaves no more answers unread than it spent seconds in the listener.
ScanReadsAll ==
    BetweenScans => owed = {} /\ \A i \in Iface : Load(i) + Ahead <= AllCalls
LoadBounded ==
    \A i \in Iface : Load(i) + Ahead <= Cardinality(Here(i)) + AllCalls
ScanHasTime ==
    ~BetweenScans => \A i \in Iface : Load(i) + Read(i) + Ahead <= Until + 1 + AllCalls

IntervalLongEnough ==
    /\ owed # {} => sinceProbe = 0
    /\ scanInterval >= MinScan
    /\ ~BetweenScans => scanInterval >= FirstInterval
SleepIsOne ==
    pc["disc"] = "sleep" =>
        timer["disc"] <= 1 /\ (timer["disc"] = 1 => sinceProbe < scanInterval)

\* The next answer of d is in the socket, or on its way, or will be asked for when
\* the interval ends, or is being worked on.
Waiting(d) ==
    \E k \in 1..Len(inbox[HomeIface[d]]) :
        /\ inbox[HomeIface[d]][k].did = d
        /\ age[d] + (k + Read(HomeIface[d]) + Ahead) <= Pace
Asked(d) == d \in owed /\ age[d] + (Load(HomeIface[d]) + Ahead) < Pace
NotYetAsked(d) == age[d] + (Until + Ahead) <= MaxScan + AllCalls
InHand(d) == pc["disc"] = "update" /\ answer.did = d /\ age[d] <= Pace

AnswerComes ==
    \A d \in Responsive : devices[d].status = "online" =>
        Waiting(d) \/ Asked(d) \/ NotYetAsked(d) \/ InHand(d)

PaceInv ==
    /\ NothingKnown
    /\ ScanReadsAll
    /\ LoadBounded
    /\ ScanHasTime
    /\ IntervalLongEnough
    /\ SleepIsOne
    /\ AnswerComes

PaceConstants ==
    /\ Cardinality(Did) \in Nat /\ AllCalls \in Nat /\ Pace \in Nat
    /\ FirstInterval \in Nat /\ MaxScan \in Nat /\ MinScan \in Nat \ {0} /\ MinScan <= MaxScan
    /\ MaxCallback \in Nat /\ InboxCap \in Nat /\ Timeout \in Nat
    /\ Pace = MaxScan + Cardinality(Did) + 2 * AllCalls + 1
    /\ \A i \in Iface : Cardinality(Here(i)) \in Nat /\ Cardinality(Here(i)) <= Cardinality(Did)
    /\ \A d \in Did : HomeIface[d] \in Iface

PaceNumbers ==
    /\ \A i \in Iface :
        /\ Len(inbox[i]) \in Nat /\ Owing(i) \in Nat /\ Owing(i) <= Cardinality(Here(i))
        /\ Load(i) = Len(inbox[i]) + Owing(i) /\ Load(i) \in Nat
        /\ Read(i) \in {0, 1}
    /\ Ahead \in Nat /\ Ahead <= AllCalls
    /\ Until \in Nat /\ Until <= MaxScan
    /\ scanInterval \in Nat \ {0} /\ scanInterval <= MaxScan /\ sinceProbe \in Nat
    /\ timer["disc"] \in Nat
    /\ \A d \in Did : age[d] \in Nat

LEMMA PaceConstantsHold == PaceConstants
<1>1. Cardinality(Did) \in Nat /\ AllCalls \in Nat
  BY CallsCount DEF AllCalls
<1>2. ASSUME NEW i \in Iface
      PROVE  Cardinality(Here(i)) \in Nat /\ Cardinality(Here(i)) <= Cardinality(Did)
  <2>1. Here(i) \in SUBSET Did
    BY DEF Here
  <2> QED
    BY <2>1, CallsCount, FiniteAssumption, FS_Subset
<1>3. FirstInterval \in Nat /\ MaxScan \in Nat /\ MinScan \in Nat \ {0} /\ MinScan <= MaxScan
  BY ScanAssumption DEF FirstInterval, Min2
<1>4. Pace = MaxScan + Cardinality(Did) + 2 * AllCalls + 1 /\ Pace \in Nat
  BY <1>1, <1>3 DEF Pace
<1> QED
  BY <1>1, <1>2, <1>3, <1>4, TimeAssumption, InboxAssumption, HomeAssumption DEF PaceConstants

LEMMA PaceNumbersHold == IInv /\ Setting => PaceNumbers
<1> SUFFICES ASSUME IInv, Setting PROVE PaceNumbers
  OBVIOUS
<1>1. /\ inbox \in [Iface -> Seq(Datagram)] /\ scanInterval \in 1..MaxScan
      /\ sinceProbe \in 0..MaxScan /\ timer \in [Thread -> Nat] /\ age \in [Did -> 0..AgeMax]
      /\ subject \in [Thread -> Did \cup {"none"}]
      /\ "disc" \in Thread
  BY DEF IInv, TypeOK, Thread
<1>2. ASSUME NEW i \in Iface
      PROVE  /\ Len(inbox[i]) \in Nat /\ Owing(i) \in Nat /\ Owing(i) <= Cardinality(Here(i))
             /\ Load(i) = Len(inbox[i]) + Owing(i) /\ Load(i) \in Nat
             /\ Read(i) \in {0, 1}
  <2>1. Len(inbox[i]) \in Nat
    BY <1>1
  <2>2. Here(i) \in SUBSET Did /\ owed \cap Here(i) \in SUBSET Here(i)
        /\ owed \cap Here(i) \in SUBSET Did
    BY DEF Here
  <2>3. IsFiniteSet(Here(i)) /\ Owing(i) \in Nat
    BY <2>2, CallsCount DEF Owing
  <2>4. Owing(i) <= Cardinality(Here(i))
    BY <2>2, <2>3, FS_Subset DEF Owing
  <2> QED
    BY <2>1, <2>3, <2>4 DEF Load, Read
<1>3. Ahead \in Nat /\ Ahead <= AllCalls
  <2>1. Unknown \in SUBSET Did
    BY DEF Unknown
  <2>2. CallsAbout(Unknown) \in Nat /\ AllCalls \in Nat /\ CallsAbout(Unknown) <= AllCalls
    BY <2>1, CallsCount, CallsMonotone DEF AllCalls
  <2>3. CASE ~Notifying("disc")
    BY <2>2, <2>3 DEF Ahead, CallLeft, Notifying
  <2>4. CASE Notifying("disc")
    <3> DEFINE e == subject["disc"]
    <3>1. e \in Did /\ devices[e].status = "online"
      BY <2>4, <1>1 DEF IInv, Discipline, SubjectTold, Setting, SubjectAsTold
    <3>2. Unknown \in SUBSET (Did \ {e}) /\ Did \ {e} \in SUBSET Did
      BY <3>1 DEF Unknown
    <3>3. CallsAbout(Unknown) <= CallsAbout(Did \ {e}) /\ CallsAbout(Did \ {e}) \in Nat
          /\ AllCalls = CallsAbout(Did \ {e}) + MaxCallback
      BY <3>1, <3>2, CallsMonotone, CallsCount, CallsWithout DEF AllCalls
    <3>4. CallLeft("disc") \in Nat /\ CallLeft("disc") <= MaxCallback /\ MaxCallback \in Nat
      BY <3>1, FreshNumbers
    <3> HIDE DEF e
    <3> QED
      BY <2>2, <3>3, <3>4 DEF Ahead
  <2> QED
    BY <2>3, <2>4
<1>4. /\ Until \in Nat /\ Until <= MaxScan
      /\ scanInterval \in Nat \ {0} /\ scanInterval <= MaxScan /\ sinceProbe \in Nat
  BY <1>1, ScanAssumption DEF Until
<1>5. timer["disc"] \in Nat /\ \A d \in Did : age[d] \in Nat
  BY <1>1, TimeAssumption
<1> QED
  BY <1>2, <1>3, <1>4, <1>5 DEF PaceNumbers

LEMMA NothingKnownStep ==
    ASSUME IInv, Setting, NothingKnown, [TimedNext]_timedVars
    PROVE  NothingKnown'
<1>n. [Next]_vars
  BY TimedStep
<1>i. /\ pc \in [Thread -> PC] /\ "disc" \in Thread /\ "tmo" \in Thread
  BY DEF IInv, TypeOK, Thread
<1>1. CASE DUpdate
  <2>1. pc'["disc"] \notin {"off", "delay"}
    BY <1>1, <1>i, UpdateEffect
  <2> QED
    BY <2>1 DEF NothingKnown
<1>2. ASSUME NEW d \in Did, TExpire(d) PROVE NothingKnown'
  <2>1. pc'["disc"] = pc["disc"] /\ devices[d].status = "online"
    BY <1>2, <1>i, ExpireEffect
  <2> QED
    BY <2>1 DEF NothingKnown
<1>3. CASE ~DUpdate /\ ~\E d \in Did : TExpire(d)
  <2>1. devices' = devices
    BY <1>3, <1>n, TableUntouched
  <2>2. pc'["disc"] \in {"off", "delay"} => pc["disc"] \in {"off", "delay"}
    <3> DEFINE Early == pc'["disc"] \in {"off", "delay"} => pc["disc"] \in {"off", "delay"}
    <3> SUFFICES Early
      OBVIOUS
    <3> USE <1>i DEF Goto, discLocals
    <3>1. ASSUME NEW n \in 0..StartDelay, Start(Iface, n) PROVE Early
      BY <3>1 DEF Start, IInv, Discipline, NoThreadsAtRest
    <3>2. CASE RegisterCallback \/ Second \/ UNCHANGED vars
      BY <3>2 DEF RegisterCallback, Second, Tick, vars
    <3>3. CASE Discovery
      BY <1>3, <3>3 DEF Discovery, DDelayOver, DTest, DProbe, DLock, DReceive, DBreak,
       DSleep, DWake, Notification, NotifyListener, NotifyNobody, CallbackReturns, Resume
    <3>4. CASE Checker
      BY <1>3, <3>4 DEF Checker, TTest, TCheck, TDone, TWake, Notification,
       NotifyListener, NotifyNobody, CallbackReturns, Resume
    <3>5. ASSUME NEW d \in Did, AnswerProbe(d) \/ FallSilent(d) PROVE Early
      BY <3>5, <3>2 DEF AnswerProbe, FallSilent, Arrive
    <3> QED
      BY <3>1, <3>2, <3>3, <3>4, <3>5
      DEF TimedNext, Broadcast, Other, Discovery, timedVars
  <2> QED
    BY <2>1, <2>2 DEF NothingKnown
<1> QED
  BY <1>1, <1>2, <1>3

LEMMA SleepIsOneStep ==
    ASSUME IInv, Setting, SleepIsOne, [TimedNext]_timedVars
    PROVE  SleepIsOne'
<1>i. /\ pc \in [Thread -> PC] /\ timer \in [Thread -> Nat] /\ "disc" \in Thread /\ "tmo" \in Thread
  BY DEF IInv, TypeOK, Thread
<1>0. ASSUME pc'["disc"] # "sleep" PROVE SleepIsOne'
  BY <1>0 DEF SleepIsOne
<1>s. ASSUME pc'["disc"] = pc["disc"], timer'["disc"] = timer["disc"],
             UNCHANGED <<sinceProbe, scanInterval>>
      PROVE  SleepIsOne'
  BY <1>s DEF SleepIsOne
<1>1. ASSUME NEW n \in 0..StartDelay, Start(Iface, n) PROVE SleepIsOne'
  BY <1>0, <1>i, <1>1 DEF Start
<1>2. CASE DSleep
  <2>1. timer'["disc"] = 1 /\ sinceProbe < scanInterval /\ UNCHANGED <<sinceProbe, scanInterval>>
    BY <1>i, <1>2 DEF DSleep, Sleep
  <2> QED
    BY <2>1 DEF SleepIsOne
<1>3. CASE Second
  <2>1. pc' = pc /\ timer'["disc"] = IF timer["disc"] > 0 THEN timer["disc"] - 1 ELSE 0
    BY <1>i, <1>3 DEF Second, Tick
  <2>2. pc["disc"] = "sleep" => timer["disc"] # 0 /\ timer["disc"] <= 1
    BY <1>i, <1>3 DEF Second, CanRun, SleepIsOne
  <2>3. timer["disc"] \in Nat
    BY <1>i
  <2>4. pc["disc"] = "sleep" => timer'["disc"] = 0
    BY <2>1, <2>2, <2>3
  <2> QED
    BY <2>1, <2>4 DEF SleepIsOne
<1>4. CASE Discovery /\ ~DSleep
  BY <1>0, <1>i, <1>4 DEF Discovery, DDelayOver, DTest, DProbe, DLock, DReceive, DUpdate,
     DBreak, DWake, Notification, NotifyListener, NotifyNobody, CallbackReturns, Goto, Resume
<1>5. CASE Checker
  <2>1. pc'["disc"] = pc["disc"] /\ timer'["disc"] = timer["disc"]
        /\ UNCHANGED <<sinceProbe, scanInterval>>
    BY <1>i, <1>5 DEF Checker, TTest, TCheck, TDone, TWake, TExpire, Notification,
       NotifyListener, NotifyNobody, CallbackReturns, Goto, Sleep
  <2> QED
    BY <2>1, <1>s
<1>6. CASE RegisterCallback \/ UNCHANGED vars
  <2>1. UNCHANGED <<pc, timer, sinceProbe, scanInterval>>
    BY <1>6 DEF RegisterCallback, vars
  <2> QED
    BY <2>1, <1>s
<1>7. ASSUME NEW d \in Did, AnswerProbe(d) \/ FallSilent(d) PROVE SleepIsOne'
  <2>1. UNCHANGED <<pc, timer, sinceProbe, scanInterval>>
    BY <1>7 DEF AnswerProbe, FallSilent, Arrive, vars
  <2> QED
    BY <2>1, <1>s
<1> QED
  BY <1>1, <1>2, <1>3, <1>4, <1>5, <1>6, <1>7
  DEF TimedNext, Broadcast, Other, Discovery, timedVars

--------------------------------------------------------------------------------
(* The pace of discovery: one lemma per kind of step.                       *)

\* What a step starts from, and what is known beforehand of where it ends.
Numbered == IInv /\ Setting /\ PaceNumbers
Ready == KeepsUp /\ Numbered /\ ResponsiveStaysOnline /\ PaceInv

Scanning ==
    /\ ScanReadsAll
    /\ LoadBounded
    /\ ScanHasTime
    /\ IntervalLongEnough
    /\ AnswerComes

\* A step that leaves the answers where they are, or takes some of the waiting away.
LEMMA ScanningUnmoved ==
    ASSUME Ready, Numbered',
           UNCHANGED <<inbox, owed, scanInterval, sinceProbe, age>>,
           \A d \in Responsive : devices'[d].status = "online" => devices[d].status = "online",
           BetweenScans' <=> BetweenScans,
           \A i \in Iface : Read(i)' <= Read(i),
           Ahead' <= Ahead,
           pc["disc"] = "update" => pc'["disc"] = "update" /\ answer' = answer
    PROVE  Scanning'
<1>1. Until' = Until
  BY DEF Until
<1>2. \A i \in Iface : Owing(i)' = Owing(i) /\ Load(i)' = Load(i)
  BY DEF Owing, Load
<1>c. PaceConstants
  BY PaceConstantsHold
<1>p. PaceNumbers /\ PaceNumbers'
  BY DEF Ready, Numbered
<1>n. /\ Ahead \in Nat /\ Ahead' \in Nat /\ AllCalls \in Nat /\ Until \in Nat
      /\ Pace \in Nat /\ MaxScan \in Nat
  <2>1. Ahead \in Nat /\ Until \in Nat
    BY <1>p DEF PaceNumbers
  <2>2. Ahead' \in Nat
    BY <1>p DEF PaceNumbers
  <2> QED
    BY <1>c, <2>1, <2>2 DEF PaceConstants
<1>i. ASSUME NEW i \in Iface
      PROVE  /\ Load(i) \in Nat /\ Read(i) \in Nat /\ Read(i)' \in Nat
             /\ Cardinality(Here(i)) \in Nat
  <2>1. Load(i) \in Nat /\ Read(i) \in {0, 1}
    BY <1>p DEF PaceNumbers
  <2>2. Read(i)' \in {0, 1}
    BY <1>p DEF PaceNumbers
  <2>3. Cardinality(Here(i)) \in Nat
    BY <1>c DEF PaceConstants
  <2> QED
    BY <2>1, <2>2, <2>3
<1>3. ScanReadsAll'
  <2> SUFFICES ASSUME BetweenScans, NEW i \in Iface PROVE Load(i) + Ahead' <= AllCalls
    BY <1>2 DEF ScanReadsAll, Ready, PaceInv
  <2>1. Load(i) + Ahead <= AllCalls
    BY DEF Ready, PaceInv, ScanReadsAll
  <2> QED
    BY <2>1, <1>n, <1>i
<1>4. LoadBounded'
  <2> SUFFICES ASSUME NEW i \in Iface PROVE Load(i) + Ahead' <= Cardinality(Here(i)) + AllCalls
    BY <1>2 DEF LoadBounded
  <2>1. Load(i) + Ahead <= Cardinality(Here(i)) + AllCalls
    BY DEF Ready, PaceInv, LoadBounded
  <2> QED
    BY <2>1, <1>n, <1>i
<1>5. ScanHasTime'
  <2> SUFFICES ASSUME ~BetweenScans, NEW i \in Iface
               PROVE  Load(i) + Read(i)' + Ahead' <= Until + 1 + AllCalls
    BY <1>1, <1>2 DEF ScanHasTime
  <2>1. Load(i) + Read(i) + Ahead <= Until + 1 + AllCalls
    BY DEF Ready, PaceInv, ScanHasTime
  <2>2. Read(i)' <= Read(i)
    OBVIOUS
  <2> QED
    BY <2>1, <2>2, <1>n, <1>i
<1>6. IntervalLongEnough'
  BY DEF Ready, PaceInv, IntervalLongEnough
<1>7. AnswerComes'
  <2> SUFFICES ASSUME NEW d \in Responsive, devices'[d].status = "online"
               PROVE  Waiting(d)' \/ Asked(d)' \/ NotYetAsked(d)' \/ InHand(d)'
    BY DEF AnswerComes
  <2> DEFINE h == HomeIface[d]
  <2>1. Waiting(d) \/ Asked(d) \/ NotYetAsked(d) \/ InHand(d)
    BY DEF Ready, PaceInv, AnswerComes
  <2>2. d \in Did /\ h \in Iface /\ age[d] \in Nat
    BY <1>c, HomeAssumption DEF Ready, Numbered, PaceNumbers, PaceConstants
  <2>3. Load(h) \in Nat /\ Read(h) \in Nat /\ Read(h)' \in Nat /\ Read(h)' <= Read(h)
        /\ Load(h)' = Load(h)
    BY <2>2, <1>i, <1>2
  <2>4. CASE Waiting(d)
    <3>1. PICK k \in 1..Len(inbox[h]) :
             inbox[h][k].did = d /\ age[d] + (k + Read(h) + Ahead) <= Pace
      BY <2>4 DEF Waiting
    <3>2. k \in Nat
      OBVIOUS
    <3>3. age[d] + (k + Read(h)' + Ahead') <= Pace
      BY <3>1, <3>2, <2>2, <2>3, <1>n
    <3> QED
      BY <3>1, <3>3 DEF Waiting
  <2>5. CASE Asked(d)
    <3>1. age[d] + (Load(h) + Ahead') < Pace
      BY <2>2, <2>3, <2>5, <1>n DEF Asked
    <3> QED
      BY <2>3, <2>5, <3>1 DEF Asked
  <2>6. CASE NotYetAsked(d)
    <3>1. age[d] + (Until + Ahead') <= MaxScan + AllCalls
      BY <2>2, <2>6, <1>n DEF NotYetAsked
    <3> QED
      BY <1>1, <3>1 DEF NotYetAsked
  <2>7. CASE InHand(d)
    BY <2>7 DEF InHand
  <2> QED
    BY <2>1, <2>4, <2>5, <2>6, <2>7
<1> QED
  BY <1>3, <1>4, <1>5, <1>6, <1>7 DEF Scanning

\* A broadcast: every device is to answer, and the interval that begins is long
\* enough to read what there is.
LEMMA ScanningProbe ==
    ASSUME Ready, Numbered', Broadcast
    PROVE  Scanning'
<1>c. PaceConstants
  BY PaceConstantsHold
<1>p. PaceNumbers /\ PaceNumbers'
  BY DEF Ready, Numbered
<1>1. /\ pc["disc"] = "probe" /\ pc'["disc"] = "inner"
      /\ scanInterval' = Min2(2 * scanInterval, MaxScan) /\ sinceProbe' = 0
      /\ inbox' = inbox /\ devices' = devices /\ age' = age /\ owed' = Did
  BY DEF Broadcast, DProbe, Goto, Ready, Numbered, IInv, TypeOK, Thread, network, table
<1>2. owed = {} /\ \A i \in Iface : Load(i) + Ahead <= AllCalls
  BY <1>1 DEF Ready, PaceInv, ScanReadsAll, BetweenScans
<1>3. Ahead' = Ahead
  BY <1>1 DEF Ahead, CallLeft, Unknown, CallsAbout
<1>n. /\ Ahead \in Nat /\ AllCalls \in Nat /\ Until \in Nat
      /\ Pace \in Nat /\ MaxScan \in Nat /\ Cardinality(Did) \in Nat
      /\ Pace = MaxScan + Cardinality(Did) + 2 * AllCalls + 1
  <2>1. Ahead \in Nat /\ Until \in Nat
    BY <1>p DEF PaceNumbers
  <2> QED
    BY <1>c, <2>1 DEF PaceConstants
<1>i. ASSUME NEW i \in Iface
      PROVE  /\ Len(inbox[i]) \in Nat /\ Len(inbox[i]) + Ahead <= AllCalls
             /\ Cardinality(Here(i)) \in Nat /\ Cardinality(Here(i)) <= Cardinality(Did)
             /\ Cardinality(Here(i)) <= FirstInterval
             /\ Load(i)' = Len(inbox[i]) + Cardinality(Here(i))
             /\ Read(i) = 0 /\ Read(i)' = 0
  <2>1. Owing(i) = 0 /\ Owing(i)' = Cardinality(Here(i))
    <3>1. owed \cap Here(i) = {} /\ owed' \cap Here(i) = Here(i)
      BY <1>1, <1>2 DEF Here
    <3> QED
      BY <3>1, FS_EmptySet DEF Owing, Here
  <2>2. Len(inbox[i]) \in Nat /\ Load(i) = Len(inbox[i]) + Owing(i)
    BY <1>p DEF PaceNumbers
  <2>3. Load(i)' = Len(inbox[i]) + Cardinality(Here(i))
    BY <2>1, <1>1 DEF Load
  <2>4. Cardinality(Here(i)) \in Nat /\ Cardinality(Here(i)) <= Cardinality(Did)
        /\ Cardinality(Here(i)) <= FirstInterval
    BY <1>c DEF PaceConstants, Ready, KeepsUp
  <2>5. Load(i) + Ahead <= AllCalls
    BY <1>2
  <2> QED
    BY <1>1, <2>1, <2>2, <2>3, <2>4, <2>5 DEF Read
<1>4. /\ scanInterval' >= FirstInterval /\ scanInterval' >= MinScan
      /\ Until' = scanInterval' /\ scanInterval' \in Nat /\ FirstInterval \in Nat
  <2>1. scanInterval \in Nat \ {0} /\ MaxScan \in Nat /\ MinScan \in Nat \ {0}
        /\ MinScan <= MaxScan /\ scanInterval >= MinScan
    BY <1>p, <1>c DEF PaceNumbers, PaceConstants, Ready, PaceInv, IntervalLongEnough
  <2>2. scanInterval' \in Nat \ {0}
    BY <1>p DEF PaceNumbers
  <2>3. Until' = scanInterval'
    BY <1>1, <2>2 DEF Until
  <2> QED
    BY <1>1, <2>1, <2>2, <2>3 DEF FirstInterval, Min2
<1>5. ScanReadsAll'
  BY <1>1 DEF ScanReadsAll, BetweenScans
<1>6. LoadBounded'
  <2> SUFFICES ASSUME NEW i \in Iface
               PROVE  Load(i)' + Ahead <= Cardinality(Here(i)) + AllCalls
    BY <1>3 DEF LoadBounded
  <2> QED
    BY <1>i, <1>n
<1>7. ScanHasTime'
  <2> SUFFICES ASSUME NEW i \in Iface
               PROVE  Load(i)' + Read(i)' + Ahead <= Until' + 1 + AllCalls
    BY <1>3 DEF ScanHasTime
  <2>1. /\ Len(inbox[i]) \in Nat /\ Len(inbox[i]) + Ahead <= AllCalls
        /\ Cardinality(Here(i)) \in Nat /\ Cardinality(Here(i)) <= FirstInterval
        /\ Load(i)' = Len(inbox[i]) + Cardinality(Here(i)) /\ Read(i)' = 0
    BY <1>i
  <2>2. Cardinality(Here(i)) <= Until' /\ Until' \in Nat
    BY <2>1, <1>4
  <2>3. \A l, h, a, c, u \in Nat : l + a <= c /\ h <= u => (l + h) + 0 + a <= u + 1 + c
    OBVIOUS
  <2>4. (Len(inbox[i]) + Cardinality(Here(i))) + 0 + Ahead <= Until' + 1 + AllCalls
    BY <2>1, <2>2, <2>3, <1>n
  <2> QED
    BY <2>1, <2>4
<1>8. IntervalLongEnough'
  BY <1>1, <1>4 DEF IntervalLongEnough
<1>9. AnswerComes'
  <2> SUFFICES ASSUME NEW d \in Responsive, devices'[d].status = "online"
               PROVE  Waiting(d)' \/ Asked(d)'
    BY DEF AnswerComes
  <2> DEFINE h == HomeIface[d]
  <2>1. Waiting(d) \/ NotYetAsked(d)
    BY <1>1, <1>2 DEF Ready, PaceInv, AnswerComes, Asked, InHand
  <2>2. d \in Did /\ h \in Iface /\ age[d] \in Nat
    BY <1>c, <1>p, HomeAssumption DEF PaceNumbers, PaceConstants
  <2>3. CASE Waiting(d)
    BY <2>2, <2>3, <1>1, <1>3, <1>i DEF Waiting
  <2>4. CASE NotYetAsked(d)
    <3>1. age[d] + (Until + Ahead) <= MaxScan + AllCalls
      BY <2>4 DEF NotYetAsked
    <3>2. /\ Len(inbox[h]) \in Nat /\ Len(inbox[h]) + Ahead <= AllCalls
          /\ Cardinality(Here(h)) \in Nat /\ Cardinality(Here(h)) <= Cardinality(Did)
          /\ Load(h)' = Len(inbox[h]) + Cardinality(Here(h))
      BY <2>2, <1>i
    <3> HIDE DEF h
    <3>3. \A g, u, a, l, m, c, n, s \in Nat :
            g + (u + a) <= s + c /\ l + a <= c /\ m <= n
              => g + ((l + m) + a) < s + n + 2 * c + 1
      OBVIOUS
    <3>4. age[d] + ((Len(inbox[h]) + Cardinality(Here(h))) + Ahead) < Pace
      BY <2>2, <3>1, <3>2, <3>3, <1>n
    <3>5. age[d] + (Load(h)' + Ahead) < Pace
      BY <3>2, <3>4
    <3> QED
      BY <3>5, <2>2, <1>1, <1>3 DEF Asked, h
  <2> QED
    BY <2>1, <2>3, <2>4
<1> QED
  BY <1>5, <1>6, <1>7, <1>8, <1>9 DEF Scanning

\* The end of the interval: all that the sockets still hold came late because of
\* the listener.
LEMMA ScanningBreak ==
    ASSUME Ready, Numbered', DBreak, UNCHANGED owed
    PROVE  Scanning'
<1>c. PaceConstants
  BY PaceConstantsHold
<1>p. PaceNumbers
  BY DEF Ready, Numbered
<1>1. /\ pc["disc"] = "poll" /\ pc'["disc"] = "outer"
      /\ todo = {} /\ sinceProbe >= scanInterval
      /\ scanInterval' = scanInterval /\ sinceProbe' = sinceProbe
      /\ inbox' = inbox /\ devices' = devices /\ age' = age /\ owed' = owed
  BY DEF DBreak, Goto, Ready, Numbered, IInv, TypeOK, Thread, network, table
<1>2. Ahead' = Ahead
  BY <1>1 DEF Ahead, CallLeft, Unknown, CallsAbout
<1>3. Until = 0 /\ Until' = 0
  <2>1. scanInterval \in Nat /\ sinceProbe \in Nat
    BY <1>p DEF PaceNumbers
  <2> QED
    BY <1>1, <2>1 DEF Until
<1>4. owed = {}
  <2>1. scanInterval \in Nat \ {0}
    BY <1>p DEF PaceNumbers
  <2> QED
    BY <1>1, <2>1 DEF Ready, PaceInv, IntervalLongEnough
<1>n. Ahead \in Nat /\ AllCalls \in Nat /\ Pace \in Nat
  BY <1>p, <1>c DEF PaceNumbers, PaceConstants
<1>i. ASSUME NEW i \in Iface
      PROVE  /\ Load(i) \in Nat /\ Load(i)' = Load(i)
             /\ Read(i) = 1 /\ Read(i)' = 0
             /\ Load(i) + Ahead <= AllCalls
  <2>1. Load(i) \in Nat
    BY <1>p DEF PaceNumbers
  <2>2. Read(i) = 1 /\ Read(i)' = 0
    BY <1>1 DEF Read
  <2>3. Load(i) + Read(i) + Ahead <= Until + 1 + AllCalls
    BY <1>1 DEF Ready, PaceInv, ScanHasTime, BetweenScans
  <2>4. Load(i)' = Load(i)
    BY <1>1 DEF Load, Owing
  <2> QED
    BY <2>1, <2>2, <2>3, <2>4, <1>3, <1>n
<1>5. ScanReadsAll'
  BY <1>1, <1>2, <1>4, <1>i DEF ScanReadsAll
<1>6. LoadBounded'
  BY <1>2, <1>i DEF Ready, PaceInv, LoadBounded
<1>7. ScanHasTime' /\ IntervalLongEnough'
  BY <1>1 DEF ScanHasTime, IntervalLongEnough, BetweenScans, Ready, PaceInv
<1>8. AnswerComes'
  <2> SUFFICES ASSUME NEW d \in Responsive, devices'[d].status = "online"
               PROVE  Waiting(d)' \/ NotYetAsked(d)'
    BY DEF AnswerComes
  <2> DEFINE h == HomeIface[d]
  <2>1. Waiting(d) \/ NotYetAsked(d)
    BY <1>1, <1>4 DEF Ready, PaceInv, AnswerComes, Asked, InHand
  <2>2. d \in Did /\ h \in Iface /\ age[d] \in Nat
    BY <1>c, <1>p, HomeAssumption DEF PaceNumbers, PaceConstants
  <2>3. CASE Waiting(d)
    <3>1. PICK k \in 1..Len(inbox[h]) :
             inbox[h][k].did = d /\ age[d] + (k + Read(h) + Ahead) <= Pace
      BY <2>3 DEF Waiting
    <3>2. k \in Nat /\ Read(h) = 1 /\ Read(h)' = 0
      BY <2>2, <1>i
    <3>3. age[d] + (k + 0 + Ahead) <= Pace
      BY <3>1, <3>2, <2>2, <1>n
    <3> QED
      BY <3>1, <3>2, <3>3, <1>1, <1>2 DEF Waiting
  <2>4. CASE NotYetAsked(d)
    BY <2>4, <1>1, <1>2, <1>3 DEF NotYetAsked
  <2> QED
    BY <2>1, <2>3, <2>4
<1> QED
  BY <1>5, <1>6, <1>7, <1>8 DEF Scanning

\* One recvfrom: every answer of that socket moves up by one, or there was none.
LEMMA ScanningReceive ==
    ASSUME Ready, Numbered', NEW i \in Iface, DReceive(i), UNCHANGED owed
    PROVE  Scanning'
<1>c. PaceConstants
  BY PaceConstantsHold
<1>p. PaceNumbers /\ PaceNumbers'
  BY DEF Ready, Numbered
<1>t. inbox \in [Iface -> Seq(Datagram)] /\ pc \in [Thread -> PC] /\ "disc" \in Thread
      /\ todo \subseteq Iface
  BY DEF Ready, Numbered, IInv, TypeOK, Thread
<1>1. /\ pc["disc"] = "poll" /\ pc'["disc"] \in {"poll", "update"} /\ i \in todo
      /\ todo' = todo \ {i}
      /\ scanInterval' = scanInterval /\ sinceProbe' = sinceProbe
      /\ devices' = devices /\ age' = age /\ owed' = owed
      /\ inbox' = IF inbox[i] # <<>> THEN [inbox EXCEPT ![i] = Tail(inbox[i])] ELSE inbox
  BY <1>t DEF DReceive, Goto, table
<1>2. Ahead' = Ahead /\ Until' = Until
  BY <1>1 DEF Ahead, CallLeft, Unknown, CallsAbout, Until
<1>n. /\ Ahead \in Nat /\ AllCalls \in Nat /\ Until \in Nat /\ Ahead <= AllCalls
      /\ Pace \in Nat
  <2>1. Ahead \in Nat /\ Until \in Nat /\ Ahead <= AllCalls
    BY <1>p DEF PaceNumbers
  <2> QED
    BY <1>c, <2>1 DEF PaceConstants
<1>3. \A j \in Iface \ {i} :
        /\ inbox'[j] = inbox[j] /\ Load(j)' = Load(j) /\ Read(j)' = Read(j)
  BY <1>t, <1>1 DEF Load, Owing, Read
<1>4. Read(i) = 0 /\ Read(i)' = 1
  BY <1>1 DEF Read
<1>5. /\ Load(i) \in Nat /\ Load(i)' \in Nat /\ Owing(i) \in Nat /\ Owing(i)' = Owing(i)
      /\ Owing(i) <= Cardinality(Here(i)) /\ Cardinality(Here(i)) \in Nat
      /\ Len(inbox[i]) \in Nat /\ Load(i) = Len(inbox[i]) + Owing(i)
      /\ Load(i)' = Len(inbox'[i]) + Owing(i)
  <2>1. /\ Load(i) \in Nat /\ Owing(i) \in Nat /\ Owing(i) <= Cardinality(Here(i))
        /\ Len(inbox[i]) \in Nat /\ Load(i) = Len(inbox[i]) + Owing(i)
    BY <1>p DEF PaceNumbers
  <2>2. Owing(i)' = Owing(i)
    BY <1>1 DEF Owing
  <2>3. Load(i)' = Len(inbox'[i]) + Owing(i)
    BY <2>2 DEF Load
  <2>4. Load(i)' \in Nat
    BY <1>p DEF PaceNumbers
  <2>5. Cardinality(Here(i)) \in Nat
    BY <1>c DEF PaceConstants
  <2> QED
    BY <2>1, <2>2, <2>3, <2>4, <2>5
<1>6. CASE inbox[i] = <<>>
  <2>1. inbox' = inbox /\ pc'["disc"] = "poll" /\ Load(i)' = Load(i)
    BY <1>1, <1>5, <1>6, <1>t DEF DReceive
  <2>2. ScanReadsAll' /\ LoadBounded' /\ IntervalLongEnough'
    BY <2>1, <1>1, <1>2, <1>3
    DEF Ready, PaceInv, ScanReadsAll, LoadBounded, IntervalLongEnough, BetweenScans
  <2>3. Load(i) + 1 + Ahead <= Until + 1 + AllCalls
    <3>1. Load(i) = Owing(i)
      BY <1>5, <1>6
    <3>2. CASE owed = {}
      <4>1. Owing(i) = 0
        BY <3>2, FS_EmptySet DEF Owing
      <4> QED
        BY <3>1, <4>1, <1>n
    <3>3. CASE owed # {}
      <4>1. sinceProbe = 0 /\ scanInterval >= FirstInterval
        BY <3>3, <1>1 DEF Ready, PaceInv, IntervalLongEnough, BetweenScans
      <4>2. Until = scanInterval /\ scanInterval \in Nat /\ FirstInterval \in Nat
        <5>1. scanInterval \in Nat \ {0}
          BY <1>p DEF PaceNumbers
        <5> QED
          BY <4>1, <5>1, <1>c DEF Until, PaceConstants
      <4>3. Cardinality(Here(i)) <= FirstInterval
        BY DEF Ready, KeepsUp
      <4> QED
        BY <3>1, <4>1, <4>2, <4>3, <1>5, <1>n
    <3> QED
      BY <3>2, <3>3
  <2>4. ScanHasTime'
    <3> SUFFICES ASSUME NEW j \in Iface
                 PROVE  Load(j)' + Read(j)' + Ahead' <= Until' + 1 + AllCalls
      BY DEF ScanHasTime
    <3>1. CASE j = i
      BY <3>1, <2>1, <2>3, <1>2, <1>4
    <3>2. CASE j # i
      BY <3>2, <1>1, <1>2, <1>3 DEF Ready, PaceInv, ScanHasTime, BetweenScans
    <3> QED
      BY <3>1, <3>2
  <2>5. AnswerComes'
    <3> SUFFICES ASSUME NEW d \in Responsive, devices'[d].status = "online"
                 PROVE  Waiting(d)' \/ Asked(d)' \/ NotYetAsked(d)'
      BY DEF AnswerComes
    <3>1. Waiting(d) \/ Asked(d) \/ NotYetAsked(d)
      BY <1>1 DEF Ready, PaceInv, AnswerComes, InHand
    <3>2. HomeIface[d] \in Iface
      BY <1>c, HomeAssumption DEF PaceConstants
    <3>3. CASE Waiting(d)
      <4>1. HomeIface[d] # i
        <5>1. ~\E k \in 1..Len(inbox[i]) : TRUE
          BY <1>6
        <5> QED
          BY <5>1, <3>3 DEF Waiting
      <4> QED
        BY <3>2, <3>3, <4>1, <2>1, <1>1, <1>2, <1>3 DEF Waiting
    <3>4. CASE Asked(d) \/ NotYetAsked(d)
      BY <3>2, <3>4, <2>1, <1>1, <1>2, <1>3 DEF Asked, NotYetAsked
    <3> QED
      BY <3>1, <3>3, <3>4
  <2> QED
    BY <2>2, <2>4, <2>5 DEF Scanning
<1>7. CASE inbox[i] # <<>>
  <2>1. /\ inbox[i] \in Seq(Datagram) /\ inbox'[i] = Tail(inbox[i])
        /\ Len(inbox'[i]) = Len(inbox[i]) - 1 /\ Len(inbox[i]) > 0
        /\ Head(inbox[i]) = inbox[i][1]
        /\ \A n \in 1..Len(inbox'[i]) : inbox'[i][n] = inbox[i][n + 1]
    BY <1>t, <1>1, <1>7
  <2>2. Load(i)' = Load(i) - 1
    BY <2>1, <1>5
  <2>3. ScanReadsAll' /\ IntervalLongEnough'
    BY <1>1 DEF Ready, PaceInv, ScanReadsAll, IntervalLongEnough, BetweenScans
  <2>4. LoadBounded'
    <3> SUFFICES ASSUME NEW j \in Iface
                 PROVE  Load(j)' + Ahead <= Cardinality(Here(j)) + AllCalls
      BY <1>2 DEF LoadBounded
    <3>1. Load(j) + Ahead <= Cardinality(Here(j)) + AllCalls
      BY DEF Ready, PaceInv, LoadBounded
    <3>2. CASE j = i
      <4>1. Load(i) + Ahead <= Cardinality(Here(i)) + AllCalls
        BY <3>1, <3>2
      <4>2. (Load(i) - 1) + Ahead <= Cardinality(Here(i)) + AllCalls
        BY <4>1, <1>5, <1>n
      <4> QED
        BY <3>2, <4>2, <2>2
    <3>3. CASE j # i
      BY <3>1, <3>3, <1>3
    <3> QED
      BY <3>2, <3>3
  <2>5. ScanHasTime'
    <3> SUFFICES ASSUME NEW j \in Iface
                 PROVE  Load(j)' + Read(j)' + Ahead <= Until + 1 + AllCalls
      BY <1>2 DEF ScanHasTime
    <3>1. Load(j) + Read(j) + Ahead <= Until + 1 + AllCalls
      BY <1>1 DEF Ready, PaceInv, ScanHasTime, BetweenScans
    <3>2. CASE j = i
      BY <3>1, <3>2, <2>2, <1>4, <1>5, <1>n
    <3>3. CASE j # i
      BY <3>1, <3>3, <1>3
    <3> QED
      BY <3>2, <3>3
  <2>6. AnswerComes'
    <3> SUFFICES ASSUME NEW d \in Responsive, devices'[d].status = "online"
                 PROVE  Waiting(d)' \/ Asked(d)' \/ NotYetAsked(d)' \/ InHand(d)'
      BY DEF AnswerComes
    <3> DEFINE h == HomeIface[d]
    <3>1. Waiting(d) \/ Asked(d) \/ NotYetAsked(d)
      BY <1>1 DEF Ready, PaceInv, AnswerComes, InHand
    <3>2. d \in Did /\ h \in Iface /\ age[d] \in Nat
      BY <1>c, <1>p, HomeAssumption DEF PaceConstants, PaceNumbers
    <3>3. CASE NotYetAsked(d)
      BY <3>3, <1>1, <1>2 DEF NotYetAsked
    <3>4. CASE Asked(d)
      <4>1. Load(h)' <= Load(h) /\ Load(h) \in Nat /\ Load(h)' \in Nat
        <5>1. CASE h = i
          BY <5>1, <2>2, <1>5
        <5>2. CASE h # i
          <6>1. Load(h)' = Load(h) /\ Load(h) \in Nat
            BY <3>2, <5>2, <1>3, <1>p DEF PaceNumbers
          <6> QED
            BY <6>1
        <5> QED
          BY <5>1, <5>2
      <4>2. age[d] + (Load(h)' + Ahead) < Pace
        BY <3>2, <3>4, <4>1, <1>n DEF Asked
      <4> QED
        BY <3>4, <4>2, <1>1, <1>2 DEF Asked
    <3>5. CASE Waiting(d) /\ h # i
      BY <3>2, <3>5, <1>1, <1>2, <1>3 DEF Waiting
    <3>6. CASE Waiting(d) /\ h = i
      <4>1. PICK k \in 1..Len(inbox[i]) :
               inbox[i][k].did = d /\ age[d] + (k + 0 + Ahead) <= Pace
        BY <3>6, <1>4 DEF Waiting
      <4>2. k \in Nat /\ k >= 1 /\ k <= Len(inbox[i])
        BY <1>5
      <4>3. CASE k = 1
        <5>1. Head(inbox[i]).did = d /\ Head(inbox[i]) \in Answer
          <6>1. inbox[i][1] \in Answer /\ 1 \in 1..Len(inbox[i])
            BY <4>1, <4>3 DEF Ready, Numbered, Setting, InboxFromHome
          <6> QED
            BY <6>1, <4>1, <4>3, <2>1
        <5>2. Head(inbox[i]) # Noise
          BY <5>1, DidAssumption DEF Answer, Noise
        <5>3. pc'["disc"] = "update" /\ answer'.did = d
          BY <5>1, <5>2, <1>7, <1>t DEF DReceive, Goto
        <5>4. age[d] <= Pace
          BY <4>1, <4>2, <3>2, <1>n
        <5> QED
          BY <5>3, <5>4, <1>1 DEF InHand
      <4>4. CASE k # 1
        <5>1. k - 1 \in 1..Len(inbox'[i]) /\ inbox'[i][k - 1] = inbox[i][k]
          <6>1. k - 1 \in 1..Len(inbox'[i]) /\ (k - 1) + 1 = k
            BY <4>2, <4>4, <2>1, <1>5
          <6> QED
            BY <6>1, <2>1
        <5>2. age[d] + ((k - 1) + 1 + Ahead) <= Pace
          BY <4>1, <4>2, <3>2, <1>n
        <5> QED
          BY <5>1, <5>2, <4>1, <3>6, <1>1, <1>2, <1>4 DEF Waiting
      <4> QED
        BY <4>3, <4>4
    <3> QED
      BY <3>1, <3>3, <3>4, <3>5, <3>6
  <2> QED
    BY <2>3, <2>4, <2>5, <2>6 DEF Scanning
<1> QED
  BY <1>6, <1>7

\* An answer costs a listener call where the device was not known, which is then
\* one device less to hear of.
LEMMA AheadOfUpdate ==
    ASSUME Ready, DUpdate
    PROVE  Ahead' = Ahead
<1>s. IInv /\ Setting
  BY DEF Ready, Numbered
<1> DEFINE e == answer.did
<1>1. /\ e \in Did /\ devices'[e].status = "online"
      /\ \A d \in Did \ {e} : devices'[d] = devices[d]
      /\ IF devices[e].status # "online" THEN pc' = [pc EXCEPT !["disc"] = "notify"]
         ELSE pc' = [pc EXCEPT !["disc"] = "poll"]
  BY <1>s, UpdateEffect
<1>2. pc["disc"] = "update" /\ pc \in [Thread -> PC] /\ "disc" \in Thread
  BY <1>s DEF DUpdate, IInv, TypeOK, Thread
<1>3. CallLeft("disc") = 0
      /\ CallLeft("disc")' = IF devices[e].status # "online" THEN MaxCallback ELSE 0
  BY <1>1, <1>2 DEF CallLeft
<1>4. Unknown' = Unknown \ {e} /\ Unknown \in SUBSET Did /\ Unknown \ {e} \in SUBSET Did
  BY <1>1 DEF Unknown
<1>5. CallsAbout(Unknown)' = CallsAbout(Unknown \ {e})
  BY <1>4 DEF CallsAbout
<1>6. CallsAbout(Unknown) \in Nat /\ CallsAbout(Unknown \ {e}) \in Nat /\ MaxCallback \in Nat
  BY <1>4, CallsCount, TimeAssumption
<1> HIDE DEF e
<1>7. CASE MaxCallback = 0
  <2>1. \A n \in Nat : 0 * n = 0
    OBVIOUS
  <2>2. CallsAbout(Unknown) = 0 /\ CallsAbout(Unknown \ {e}) = 0
    BY <2>1, <1>4, <1>7, CallsCount DEF CallsAbout
  <2> QED
    BY <2>2, <1>3, <1>5, <1>7 DEF Ahead
<1>8. CASE Responsive = Did
  <2>1. devices[e].status \in {"absent", "online"}
    BY <1>1, <1>s, <1>8 DEF Ready, ResponsiveStaysOnline, IInv, TypeOK, Entry, Status
  <2>2. CASE devices[e].status = "absent"
    <3>1. CallsAbout(Unknown) = CallsAbout(Unknown \ {e}) + MaxCallback
      BY <2>2, <1>1, <1>4, CallsWithout DEF Unknown
    <3> QED
      BY <2>2, <3>1, <1>3, <1>5, <1>6 DEF Ahead
  <2>3. CASE devices[e].status = "online"
    <3>1. Unknown \ {e} = Unknown
      BY <2>3 DEF Unknown
    <3> QED
      BY <2>3, <3>1, <1>3, <1>5 DEF Ahead
  <2> QED
    BY <2>1, <2>2, <2>3
<1> QED
  BY <1>7, <1>8 DEF Ready, KeepsUp

LEMMA ScanningUpdate ==
    ASSUME Ready, Numbered', DUpdate, UNCHANGED owed
    PROVE  Scanning'
<1>c. PaceConstants
  BY PaceConstantsHold
<1>s. IInv /\ Setting /\ PaceNumbers
  BY DEF Ready, Numbered
<1> DEFINE e == answer.did
<1>1. /\ e \in Did
      /\ \A d \in Did \ {e} : devices'[d] = devices[d]
      /\ age' = [age EXCEPT ![e] = 0]
      /\ pc' = [pc EXCEPT !["disc"] = "notify"] \/ pc' = [pc EXCEPT !["disc"] = "poll"]
  BY <1>s, UpdateEffect
<1>2. /\ pc["disc"] = "update" /\ pc'["disc"] \in {"notify", "poll"}
      /\ inbox' = inbox /\ owed' = owed /\ todo' = todo
      /\ scanInterval' = scanInterval /\ sinceProbe' = sinceProbe
  BY <1>1, <1>s DEF DUpdate, IInv, TypeOK, Thread, network
<1>3. Ahead' = Ahead /\ Until' = Until
  BY <1>2, AheadOfUpdate DEF Until
<1>4. \A i \in Iface : Owing(i)' = Owing(i) /\ Load(i)' = Load(i) /\ Read(i)' = Read(i)
  BY <1>2 DEF Owing, Load, Read
<1>5. ScanReadsAll' /\ LoadBounded' /\ ScanHasTime' /\ IntervalLongEnough'
  BY <1>2, <1>3, <1>4
  DEF Ready, PaceInv, ScanReadsAll, LoadBounded, ScanHasTime, IntervalLongEnough, BetweenScans
<1>n. /\ Ahead \in Nat /\ AllCalls \in Nat /\ Until \in Nat /\ Ahead <= AllCalls
      /\ Until <= MaxScan /\ MaxScan \in Nat
  <2>1. Ahead \in Nat /\ Until \in Nat /\ Ahead <= AllCalls /\ Until <= MaxScan
    BY <1>s DEF PaceNumbers
  <2> QED
    BY <1>c, <2>1 DEF PaceConstants
<1>6. AnswerComes'
  <2> SUFFICES ASSUME NEW d \in Responsive, devices'[d].status = "online"
               PROVE  Waiting(d)' \/ Asked(d)' \/ NotYetAsked(d)'
    BY DEF AnswerComes
  <2>1. d \in Did /\ HomeIface[d] \in Iface /\ age \in [Did -> 0..AgeMax]
    BY <1>c, <1>s, HomeAssumption DEF PaceConstants, IInv, TypeOK
  <2>2. CASE d = e
    <3>1. age'[d] = 0
      BY <2>1, <2>2, <1>1
    <3>2. 0 + (Until + Ahead) <= MaxScan + AllCalls
      BY <1>n
    <3> QED
      BY <3>1, <3>2, <1>3 DEF NotYetAsked
  <2>3. CASE d # e
    <3>1. age'[d] = age[d] /\ devices[d].status = "online" /\ ~InHand(d)
      BY <2>1, <2>3, <1>1 DEF InHand
    <3>2. Waiting(d) \/ Asked(d) \/ NotYetAsked(d)
      BY <3>1 DEF Ready, PaceInv, AnswerComes
    <3>3. CASE Waiting(d)
      BY <3>1, <3>3, <2>1, <1>2, <1>3, <1>4 DEF Waiting
    <3>4. CASE Asked(d) \/ NotYetAsked(d)
      BY <3>1, <3>4, <2>1, <1>2, <1>3, <1>4 DEF Asked, NotYetAsked
    <3> QED
      BY <3>2, <3>3, <3>4
  <2> QED
    BY <2>2, <2>3
<1> QED
  BY <1>5, <1>6 DEF Scanning

\* An answer arrives: it is counted in the socket instead of under way, and the
\* socket has room for it.
LEMMA ScanningAnswer ==
    ASSUME Ready, Numbered', NEW e \in Did, AnswerProbe(e)
    PROVE  Scanning'
<1>c. PaceConstants
  BY PaceConstantsHold
<1>p. PaceNumbers /\ PaceNumbers'
  BY DEF Ready, Numbered
<1>t. inbox \in [Iface -> Seq(Datagram)]
  BY DEF Ready, Numbered, IInv, TypeOK
<1> DEFINE h == HomeIface[e]
           m == [did |-> e, ip |-> HomeIp[e]]
<1>0. h \in Iface /\ m \in Datagram /\ m.did = e /\ e \in owed /\ owed' = owed \ {e}
  BY HomeAssumption DEF AnswerProbe, Datagram, Answer
<1>1. Owing(h) = Owing(h)' + 1
  <2>1. owed' \cap Here(h) = (owed \cap Here(h)) \ {e} /\ e \in owed \cap Here(h)
        /\ owed \cap Here(h) \in SUBSET Did
    BY <1>0 DEF Here
  <2>2. IsFiniteSet(owed \cap Here(h))
    BY <2>1, CallsCount
  <2>3. Cardinality(owed' \cap Here(h)) = Cardinality(owed \cap Here(h)) - 1
    <3> DEFINE S == owed \cap Here(h)
    <3>1. e \in S /\ IsFiniteSet(S)
      BY <2>1, <2>2
    <3> HIDE DEF S
    <3>2. Cardinality(S \ {e}) = Cardinality(S) - 1
      BY <3>1, FS_RemoveElement
    <3> QED
      BY <3>2, <2>1 DEF S
  <2>4. Owing(h) \in Nat /\ Owing(h)' \in Nat
    BY <1>0, <1>p DEF PaceNumbers
  <2> QED
    BY <2>3, <2>4 DEF Owing, Here
<1>n. /\ Ahead \in Nat /\ AllCalls \in Nat /\ Pace \in Nat /\ Cardinality(Did) \in Nat
      /\ InboxCap \in Nat /\ Cardinality(Did) + AllCalls <= InboxCap
  <2>1. Ahead \in Nat
    BY <1>p DEF PaceNumbers
  <2> QED
    BY <1>c, <2>1 DEF PaceConstants, Ready, KeepsUp
<1>h. /\ Len(inbox[h]) \in Nat /\ Owing(h) \in Nat /\ Owing(h)' \in Nat
      /\ Load(h) = Len(inbox[h]) + Owing(h) /\ Load(h) \in Nat /\ Read(h) \in Nat /\ Read(h) <= 1
      /\ Load(h) + Ahead <= Cardinality(Here(h)) + AllCalls
      /\ Cardinality(Here(h)) \in Nat /\ Cardinality(Here(h)) <= Cardinality(Did)
  <2>1. Len(inbox[h]) \in Nat /\ Owing(h) \in Nat
        /\ Load(h) = Len(inbox[h]) + Owing(h) /\ Load(h) \in Nat /\ Read(h) \in {0, 1}
    BY <1>0, <1>p DEF PaceNumbers
  <2>2. Owing(h)' \in Nat
    BY <1>0, <1>p DEF PaceNumbers
  <2>3. Cardinality(Here(h)) \in Nat /\ Cardinality(Here(h)) <= Cardinality(Did)
    BY <1>0, <1>c DEF PaceConstants
  <2>4. Load(h) + Ahead <= Cardinality(Here(h)) + AllCalls
    BY <1>0 DEF Ready, PaceInv, LoadBounded
  <2> QED
    BY <2>1, <2>2, <2>3, <2>4
<1>2. Arrive(h, m)
  <2>1. Len(inbox[h]) # InboxCap
    BY <1>1, <1>h, <1>n
  <2> QED
    BY <2>1 DEF AnswerProbe
<1> HIDE DEF m
<1>3. /\ inbox' = [inbox EXCEPT ![h] = Append(inbox[h], m)]
      /\ UNCHANGED <<pc, timer, todo, devices, age, scanInterval, sinceProbe, answer>>
  BY <1>2 DEF Arrive, table, discLocals
<1>4. Ahead' = Ahead /\ Until' = Until /\ (BetweenScans' <=> BetweenScans)
      /\ \A i \in Iface : Read(i)' = Read(i)
  BY <1>3 DEF Ahead, CallLeft, Unknown, CallsAbout, Until, BetweenScans, Read
<1>5. /\ Len(inbox'[h]) = Len(inbox[h]) + 1
      /\ inbox'[h][Len(inbox[h]) + 1] = m
      /\ \A k \in 1..Len(inbox[h]) : inbox'[h][k] = inbox[h][k]
  <2>1. inbox'[h] = Append(inbox[h], m) /\ inbox[h] \in Seq(Datagram)
    BY <1>0, <1>3, <1>t
  <2> QED
    BY <2>1, <1>0
<1>6. \A i \in Iface : Load(i)' = Load(i)
  <2> SUFFICES ASSUME NEW i \in Iface PROVE Load(i)' = Load(i)
    OBVIOUS
  <2>1. CASE i = h
    <3>1. Load(h)' = (Len(inbox[h]) + 1) + Owing(h)'
      BY <1>5 DEF Load
    <3> QED
      BY <2>1, <3>1, <1>1, <1>h
  <2>2. CASE i # h
    <3>1. owed' \cap Here(i) = owed \cap Here(i) /\ inbox'[i] = inbox[i]
      BY <2>2, <1>0, <1>3, <1>t DEF Here
    <3> QED
      BY <3>1 DEF Load, Owing, Here
  <2> QED
    BY <2>1, <2>2
<1>7. ScanReadsAll' /\ LoadBounded' /\ ScanHasTime' /\ IntervalLongEnough'
  BY <1>0, <1>3, <1>4, <1>6
  DEF Ready, PaceInv, ScanReadsAll, LoadBounded, ScanHasTime, IntervalLongEnough
<1>8. AnswerComes'
  <2> SUFFICES ASSUME NEW d \in Responsive, devices'[d].status = "online"
               PROVE  Waiting(d)' \/ Asked(d)' \/ NotYetAsked(d)' \/ InHand(d)'
    BY DEF AnswerComes
  <2>1. Waiting(d) \/ Asked(d) \/ NotYetAsked(d) \/ InHand(d)
    BY <1>3 DEF Ready, PaceInv, AnswerComes
  <2>2. d \in Did /\ HomeIface[d] \in Iface /\ age[d] \in Nat
    BY <1>c, <1>p, HomeAssumption DEF PaceConstants, PaceNumbers
  <2>3. CASE NotYetAsked(d) \/ InHand(d)
    BY <2>3, <1>3, <1>4 DEF NotYetAsked, InHand
  <2>4. CASE Waiting(d)
    <3>1. CASE HomeIface[d] = h
      <4>1. \A k \in 1..Len(inbox[h]) : k \in 1..Len(inbox'[h])
        BY <1>5, <1>h
      <4> QED
        BY <2>4, <3>1, <4>1, <1>0, <1>3, <1>4, <1>5 DEF Waiting
    <3>2. CASE HomeIface[d] # h
      BY <2>2, <2>4, <3>2, <1>3, <1>4, <1>t DEF Waiting
    <3> QED
      BY <3>1, <3>2
  <2>5. CASE Asked(d) /\ d # e
    BY <2>2, <2>5, <1>0, <1>3, <1>4, <1>6 DEF Asked
  <2>6. CASE Asked(d) /\ d = e
    <3>1. age[d] + (Load(h) + Ahead) < Pace
      BY <2>6 DEF Asked
    <3> HIDE DEF h
    <3>a. \A g, l, o, r, a, p \in Nat :
            g + ((l + (o + 1)) + a) < p /\ r <= 1 => g + ((l + 1) + r + a) <= p
      OBVIOUS
    <3>2. age[d] + ((Len(inbox[h]) + 1) + Read(h) + Ahead) <= Pace
      <4>1. age[d] + ((Len(inbox[h]) + (Owing(h)' + 1)) + Ahead) < Pace
        BY <3>1, <1>1, <1>h
      <4> QED
        BY <4>1, <3>a, <2>2, <1>h, <1>n
    <3>3. Len(inbox[h]) + 1 \in 1..Len(inbox'[h])
      BY <1>5, <1>h
    <3> QED
      BY <3>2, <3>3, <2>6, <1>0, <1>3, <1>4, <1>5 DEF Waiting, h
  <2> QED
    BY <2>1, <2>3, <2>4, <2>5, <2>6
<1> QED
  BY <1>7, <1>8 DEF Scanning

LEMMA ScanningSilent ==
    ASSUME Ready, Numbered', NEW e \in Did, FallSilent(e)
    PROVE  Scanning'
<1>c. PaceConstants
  BY PaceConstantsHold
<1>p. PaceNumbers /\ PaceNumbers'
  BY DEF Ready, Numbered
<1>1. /\ UNCHANGED <<inbox, pc, timer, todo, devices, age, scanInterval, sinceProbe, answer>>
      /\ owed' = owed \ {e} /\ e \notin Responsive
  BY DEF FallSilent, vars
<1>2. Ahead' = Ahead /\ Until' = Until /\ (BetweenScans' <=> BetweenScans)
      /\ \A i \in Iface : Read(i)' = Read(i)
  BY <1>1 DEF Ahead, CallLeft, Unknown, CallsAbout, Until, BetweenScans, Read
<1>n. /\ Ahead \in Nat /\ AllCalls \in Nat /\ Pace \in Nat /\ Until \in Nat
  <2>1. Ahead \in Nat /\ Until \in Nat
    BY <1>p DEF PaceNumbers
  <2> QED
    BY <1>c, <2>1 DEF PaceConstants
<1>i. ASSUME NEW i \in Iface
      PROVE  /\ Load(i) \in Nat /\ Load(i)' \in Nat /\ Load(i)' <= Load(i)
             /\ Read(i) \in Nat /\ Cardinality(Here(i)) \in Nat
  <2>1. /\ Len(inbox[i]) \in Nat /\ Owing(i) \in Nat
        /\ Load(i) = Len(inbox[i]) + Owing(i) /\ Load(i) \in Nat /\ Read(i) \in {0, 1}
    BY <1>p DEF PaceNumbers
  <2>2. Owing(i)' \in Nat /\ Load(i)' \in Nat
    BY <1>p DEF PaceNumbers
  <2>3. Load(i)' = Len(inbox[i]) + Owing(i)'
    BY <1>1 DEF Load
  <2>4. Owing(i)' <= Owing(i)
    <3>1. owed' \cap Here(i) \in SUBSET (owed \cap Here(i)) /\ owed \cap Here(i) \in SUBSET Did
      BY <1>1 DEF Here
    <3>2. IsFiniteSet(owed \cap Here(i))
      BY <3>1, CallsCount
    <3>3. Cardinality(owed' \cap Here(i)) <= Cardinality(owed \cap Here(i))
      BY <3>1, <3>2, FS_Subset
    <3> QED
      BY <3>3 DEF Owing, Here
  <2>5. Cardinality(Here(i)) \in Nat
    BY <1>c DEF PaceConstants
  <2> QED
    BY <2>1, <2>2, <2>3, <2>4, <2>5
<1>3. ScanReadsAll'
  <2> SUFFICES ASSUME BetweenScans PROVE owed' = {} /\ \A i \in Iface : Load(i)' + Ahead <= AllCalls
    BY <1>2 DEF ScanReadsAll
  <2>1. owed = {}
    BY DEF Ready, PaceInv, ScanReadsAll
  <2>2. ASSUME NEW i \in Iface PROVE Load(i)' + Ahead <= AllCalls
    <3>1. Load(i) + Ahead <= AllCalls
      BY DEF Ready, PaceInv, ScanReadsAll
    <3> QED
      BY <3>1, <1>i, <1>n
  <2> QED
    BY <2>1, <2>2, <1>1
<1>4. LoadBounded'
  <2> SUFFICES ASSUME NEW i \in Iface PROVE Load(i)' + Ahead <= Cardinality(Here(i)) + AllCalls
    BY <1>2 DEF LoadBounded
  <2>1. Load(i) + Ahead <= Cardinality(Here(i)) + AllCalls
    BY DEF Ready, PaceInv, LoadBounded
  <2> QED
    BY <2>1, <1>n, <1>i
<1>5. ScanHasTime'
  <2> SUFFICES ASSUME ~BetweenScans, NEW i \in Iface
               PROVE  Load(i)' + Read(i) + Ahead <= Until + 1 + AllCalls
    BY <1>2 DEF ScanHasTime
  <2>1. Load(i) + Read(i) + Ahead <= Until + 1 + AllCalls
    BY DEF Ready, PaceInv, ScanHasTime
  <2> QED
    BY <2>1, <1>n, <1>i
<1>6. IntervalLongEnough'
  BY <1>1, <1>2 DEF Ready, PaceInv, IntervalLongEnough
<1>7. AnswerComes'
  <2> SUFFICES ASSUME NEW d \in Responsive, devices'[d].status = "online"
               PROVE  Waiting(d)' \/ Asked(d)' \/ NotYetAsked(d)' \/ InHand(d)'
    BY DEF AnswerComes
  <2>1. Waiting(d) \/ Asked(d) \/ NotYetAsked(d) \/ InHand(d)
    BY <1>1 DEF Ready, PaceInv, AnswerComes
  <2>2. d \in Did /\ HomeIface[d] \in Iface /\ age[d] \in Nat
    BY <1>c, <1>p, HomeAssumption DEF PaceConstants, PaceNumbers
  <2>3. CASE Waiting(d) \/ NotYetAsked(d) \/ InHand(d)
    BY <2>2, <2>3, <1>1, <1>2 DEF Waiting, NotYetAsked, InHand
  <2>4. CASE Asked(d)
    <3> DEFINE h == HomeIface[d]
    <3>1. Load(h) \in Nat /\ Load(h)' \in Nat /\ Load(h)' <= Load(h)
      BY <2>2, <1>i
    <3>2. age[d] + (Load(h)' + Ahead) < Pace
      BY <3>1, <2>2, <2>4, <1>n DEF Asked
    <3> QED
      BY <3>2, <2>4, <1>1, <1>2 DEF Asked
  <2> QED
    BY <2>1, <2>3, <2>4
<1> QED
  BY <1>3, <1>4, <1>5, <1>6, <1>7 DEF Scanning

\* Where discovery can be when a second passes: nothing keeps the table from it.
LEMMA DiscoveryAtSecond ==
    ASSUME Ready, Second
    PROVE  \/ pc["disc"] \in {"off", "delay"}
           \/ pc["disc"] = "sleep" /\ timer["disc"] = 1 /\ sinceProbe < scanInterval
           \/ pc["disc"] = "callback" /\ timer["disc"] > 0
<1>s. IInv /\ Setting /\ SleepIsOne /\ ResponsiveStaysOnline
  BY DEF Ready, Numbered, PaceInv
<1>1. /\ Places /\ LockDiscipline /\ NeverStopped /\ SubjectTold
      /\ pc \in [Thread -> PC] /\ timer \in [Thread -> Nat]
      /\ socketsMutex \in Holder /\ devicesMutex \in Holder
      /\ "disc" \in Thread /\ "tmo" \in Thread
  BY <1>s DEF IInv, TypeOK, Discipline, Setting, Thread
<1>2. ~CanRun("disc") /\ ~CanRun("tmo")
  BY <1>1 DEF Second
<1>3. pc["disc"] \notin {"probe", "lock"}
  <2>1. pc["disc"] \in {"probe", "lock"} => socketsMutex = "free"
    BY <1>1 DEF LockDiscipline, Holder, Thread
  <2> QED
    BY <2>1, <1>2 DEF CanRun
<1>4. pc["disc"] # "update"
  <2> SUFFICES ASSUME pc["disc"] = "update" PROVE FALSE
    OBVIOUS
  <2>1. devicesMutex = "tmo"
    BY <1>1, <1>2 DEF CanRun, TableFree, LockDiscipline, Holder, Thread
  <2>2. pc["tmo"] = "callback" /\ timer["tmo"] # 0
    BY <2>1, <1>1, <1>2 DEF CanRun, LockDiscipline
  <2>3. CASE MaxCallback = 0
    <3>1. timer["tmo"] <= 0 /\ timer["tmo"] \in Nat
      BY <2>2, <2>3, <1>1, <1>s DEF Setting, TimersBounded
    <3> QED
      BY <2>2, <3>1
  <2>4. CASE Responsive = Did
    <3>1. subject["tmo"] \in Did /\ devices[subject["tmo"]].status = "offline"
      BY <2>2, <1>1, <1>s DEF SubjectTold, Setting, SubjectAsTold, Notifying
    <3> QED
      BY <2>4, <3>1, <1>s DEF ResponsiveStaysOnline
  <2> QED
    BY <2>3, <2>4 DEF Ready, KeepsUp
<1>5. pc["disc"] \in {"off", "delay", "sleep", "callback"}
  BY <1>1, <1>2, <1>3, <1>4 DEF CanRun, Places, NeverStopped
<1>6. timer["disc"] \in Nat /\ (pc["disc"] \in {"sleep", "callback"} => timer["disc"] # 0)
  BY <1>1, <1>2 DEF CanRun
<1>7. pc["disc"] = "sleep" => timer["disc"] = 1
  BY <1>6, <1>s DEF SleepIsOne
<1> QED
  BY <1>5, <1>6, <1>7, <1>s DEF SleepIsOne

\* A second passes: it has been spent on an answer of each socket, or on a call.
LEMMA ScanningSecond ==
    ASSUME Ready, Numbered', Second
    PROVE  Scanning'
<1>c. PaceConstants
  BY PaceConstantsHold
<1>p. PaceNumbers /\ PaceNumbers'
  BY DEF Ready, Numbered
<1>t. timer \in [Thread -> Nat] /\ age \in [Did -> 0..AgeMax] /\ "disc" \in Thread
  BY DEF Ready, Numbered, IInv, TypeOK, Thread
<1>1. /\ UNCHANGED <<inbox, pc, todo, devices, scanInterval, answer>>
      /\ owed' = {} /\ owed \cap Responsive = {}
      /\ sinceProbe' = Min2(sinceProbe + 1, MaxScan)
      /\ timer'["disc"] = IF timer["disc"] > 0 THEN timer["disc"] - 1 ELSE 0
      /\ \A d \in Did : devices[d].status # "absent" => age'[d] = Min2(age[d] + 1, AgeMax)
  BY <1>t DEF Second, Tick, network, discLocals
<1>n. /\ Ahead \in Nat /\ AllCalls \in Nat /\ Pace \in Nat /\ Until \in Nat /\ MaxScan \in Nat
      /\ Ahead' \in Nat /\ Until' \in Nat
  <2>1. Ahead \in Nat /\ Until \in Nat
    BY <1>p DEF PaceNumbers
  <2>2. Ahead' \in Nat /\ Until' \in Nat
    BY <1>p DEF PaceNumbers
  <2> QED
    BY <1>c, <2>1, <2>2 DEF PaceConstants
<1>i. ASSUME NEW i \in Iface
      PROVE  /\ Load(i) \in Nat /\ Load(i)' \in Nat /\ Load(i)' <= Load(i)
             /\ Read(i) \in Nat /\ Read(i)' \in Nat /\ Cardinality(Here(i)) \in Nat
  <2>1. /\ Len(inbox[i]) \in Nat /\ Owing(i) \in Nat
        /\ Load(i) = Len(inbox[i]) + Owing(i) /\ Load(i) \in Nat /\ Read(i) \in {0, 1}
    BY <1>p DEF PaceNumbers
  <2>2. Read(i)' \in {0, 1}
    BY <1>p DEF PaceNumbers
  <2>3. Load(i)' = Len(inbox[i]) + 0
    <3>1. owed' \cap Here(i) = {}
      BY <1>1
    <3>2. Owing(i)' = 0
      BY <3>1, FS_EmptySet DEF Owing, Here
    <3> QED
      BY <3>2, <1>1 DEF Load
  <2>4. Cardinality(Here(i)) \in Nat
    BY <1>c DEF PaceConstants
  <2> QED
    BY <2>1, <2>2, <2>3, <2>4
<1>d. ASSUME NEW d \in Did, devices[d].status # "absent"
      PROVE  age[d] \in Nat /\ age'[d] \in Nat /\ age'[d] <= age[d] + 1
  <2>1. age[d] \in Nat /\ AgeMax \in Nat /\ age'[d] = Min2(age[d] + 1, AgeMax)
    BY <1>1, <1>d, <1>t, TimeAssumption
  <2> QED
    BY <2>1 DEF Min2
<1>2. /\ CallsAbout(Unknown)' = CallsAbout(Unknown) /\ CallsAbout(Unknown) \in Nat
      /\ (BetweenScans' <=> BetweenScans)
  <2>1. Unknown' = Unknown /\ Unknown \in SUBSET Did
    BY <1>1 DEF Unknown
  <2> QED
    BY <2>1, <1>1, CallsCount DEF CallsAbout, BetweenScans
<1>3. Until <= Until' + 1 /\ Until' <= Until
      /\ (sinceProbe < scanInterval => Until = Until' + 1)
  <2>1. scanInterval \in Nat /\ scanInterval <= MaxScan /\ sinceProbe \in Nat
    BY <1>p DEF PaceNumbers
  <2>2. CASE sinceProbe < scanInterval
    <3>a. \A p, s, m \in Nat : p < s /\ s <= m => Min2(p + 1, m) = p + 1
      BY DEF Min2
    <3>1. sinceProbe' = sinceProbe + 1
      BY <2>1, <2>2, <3>a, <1>1, <1>n
    <3>2. Until' = scanInterval - (sinceProbe + 1)
      BY <2>1, <2>2, <3>1, <1>1 DEF Until
    <3>3. Until = scanInterval - sinceProbe
      BY <2>2 DEF Until
    <3> QED
      BY <2>1, <3>2, <3>3
  <2>3. CASE ~(sinceProbe < scanInterval)
    <3>1. sinceProbe' >= scanInterval
      BY <2>1, <2>3, <1>1, <1>n DEF Min2
    <3>2. sinceProbe' \in Nat
      BY <1>p DEF PaceNumbers
    <3>3. Until = 0
      BY <2>3 DEF Until
    <3>4. Until' = 0
      BY <2>1, <3>1, <3>2, <1>1 DEF Until
    <3> QED
      BY <2>3, <3>3, <3>4
  <2> QED
    BY <2>2, <2>3
<1>a. \A u, v, a, b \in Nat :
        (u = v + 1 /\ b = a => v + b + 1 <= u + a)
        /\ (v <= u /\ a = b + 1 => v + b + 1 <= u + a /\ b <= a)
  OBVIOUS
<1>4. ASSUME Ahead' <= Ahead PROVE ScanReadsAll' /\ LoadBounded' /\ IntervalLongEnough'
  <2>1. LoadBounded'
    <3> SUFFICES ASSUME NEW i \in Iface PROVE Load(i)' + Ahead' <= Cardinality(Here(i)) + AllCalls
      BY DEF LoadBounded
    <3>1. Load(i) + Ahead <= Cardinality(Here(i)) + AllCalls
      BY DEF Ready, PaceInv, LoadBounded
    <3> QED
      BY <3>1, <1>4, <1>n, <1>i
  <2>2. ScanReadsAll'
    <3> SUFFICES ASSUME BetweenScans, NEW i \in Iface PROVE Load(i)' + Ahead' <= AllCalls
      BY <1>1, <1>2 DEF ScanReadsAll
    <3>1. Load(i) + Ahead <= AllCalls
      BY DEF Ready, PaceInv, ScanReadsAll
    <3> QED
      BY <3>1, <1>4, <1>n, <1>i
  <2>3. IntervalLongEnough'
    BY <1>1, <1>2 DEF Ready, PaceInv, IntervalLongEnough
  <2> QED
    BY <2>1, <2>2, <2>3
<1>5. CASE pc["disc"] \in {"off", "delay"}
  <2>1. Ahead' = Ahead
    BY <1>1, <1>2, <1>5 DEF Ahead, CallLeft
  <2>2. ScanHasTime'
    BY <1>1, <1>5 DEF ScanHasTime, BetweenScans
  <2>3. AnswerComes'
    BY <1>1, <1>5, HomeAssumption DEF AnswerComes, Ready, PaceInv, NothingKnown
  <2> QED
    BY <2>1, <2>2, <2>3, <1>4, <1>n DEF Scanning
<1>6. ASSUME pc["disc"] \in {"sleep", "callback"},
             \A i \in Iface : Read(i)' + Ahead' + 1 <= Read(i) + Ahead,
             Until' + Ahead' + 1 <= Until + Ahead,
             Ahead' <= Ahead
      PROVE  Scanning'
  <2>1. ScanHasTime'
    <3> SUFFICES ASSUME NEW i \in Iface
                 PROVE  Load(i)' + Read(i)' + Ahead' <= Until' + 1 + AllCalls
      BY DEF ScanHasTime
    <3>1. Load(i) + Read(i) + Ahead <= Until + 1 + AllCalls
      BY <1>6 DEF Ready, PaceInv, ScanHasTime, BetweenScans
    <3>2. Read(i)' + Ahead' + 1 <= Read(i) + Ahead
      BY <1>6
    <3>3. /\ Load(i) \in Nat /\ Load(i)' \in Nat /\ Load(i)' <= Load(i)
          /\ Read(i) \in Nat /\ Read(i)' \in Nat
      BY <1>i
    <3>4. Until <= Until' + 1
      BY <1>3
    <3>5. \A l, r, a, x, m, s, b \in Nat :
            l + r + a <= x /\ s + b + 1 <= r + a /\ m <= l => m + s + b + 1 <= x
      OBVIOUS
    <3>6. Load(i)' + Read(i)' + Ahead' + 1 <= Until + 1 + AllCalls
      BY <3>1, <3>2, <3>3, <3>5, <1>n
    <3>7. \A x, u, v, c \in Nat : x + 1 <= u + 1 + c /\ u <= v + 1 => x <= v + 1 + c
      OBVIOUS
    <3>8. Load(i)' + Read(i)' + Ahead' \in Nat
      BY <3>3, <1>n
    <3> QED
      BY <3>4, <3>6, <3>7, <3>8, <1>n
  <2>2. AnswerComes'
    <3> SUFFICES ASSUME NEW d \in Responsive, devices'[d].status = "online"
                 PROVE  Waiting(d)' \/ NotYetAsked(d)'
      BY DEF AnswerComes
    <3> DEFINE h == HomeIface[d]
    <3>1. Waiting(d) \/ NotYetAsked(d)
      BY <1>1, <1>6 DEF Ready, PaceInv, AnswerComes, Asked, InHand
    <3>2. d \in Did /\ h \in Iface
      BY <1>c, HomeAssumption DEF PaceConstants
    <3>3. age[d] \in Nat /\ age'[d] \in Nat /\ age'[d] <= age[d] + 1
      BY <3>2, <1>1, <1>d
    <3>4. CASE Waiting(d)
      <4>1. PICK k \in 1..Len(inbox[h]) :
               inbox[h][k].did = d /\ age[d] + (k + Read(h) + Ahead) <= Pace
        BY <3>4 DEF Waiting
      <4>2. k \in Nat /\ Read(h) \in Nat /\ Read(h)' \in Nat
            /\ Read(h)' + Ahead' + 1 <= Read(h) + Ahead
        BY <3>2, <1>6, <1>i
      <4>3. \A g, j, r, a, p, f, s, b \in Nat :
              g + (j + r + a) <= p /\ f <= g + 1 /\ s + b + 1 <= r + a
                => f + (j + s + b) <= p
        OBVIOUS
      <4>4. age'[d] + (k + Read(h)' + Ahead') <= Pace
        BY <4>1, <4>2, <4>3, <3>3, <1>n
      <4> QED
        BY <4>1, <4>4, <1>1 DEF Waiting
    <3>5. CASE NotYetAsked(d)
      <4>1. age'[d] + (Until' + Ahead') <= MaxScan + AllCalls
        BY <3>3, <3>5, <1>6, <1>n DEF NotYetAsked
      <4> QED
        BY <4>1 DEF NotYetAsked
    <3> QED
      BY <3>1, <3>4, <3>5
  <2> QED
    BY <2>1, <2>2, <1>4, <1>6 DEF Scanning
<1>7. CASE pc["disc"] = "sleep" /\ timer["disc"] = 1 /\ sinceProbe < scanInterval
  <2>1. Ahead' = Ahead
    BY <1>1, <1>2, <1>7 DEF Ahead, CallLeft
  <2>2. \A i \in Iface : Read(i) = 1 /\ Read(i)' = 0
    <3>1. timer'["disc"] = 0 /\ pc'["disc"] = "sleep"
      BY <1>1, <1>7
    <3> QED
      BY <3>1, <1>7 DEF Read
  <2>3. \A i \in Iface : Read(i)' + Ahead' + 1 <= Read(i) + Ahead
    BY <2>1, <2>2, <1>n
  <2>4. Until' + Ahead' + 1 <= Until + Ahead
    <3>1. Until = Until' + 1
      BY <1>3, <1>7
    <3> QED
      BY <2>1, <3>1, <1>a, <1>n
  <2>5. Ahead' <= Ahead
    BY <2>1, <1>n
  <2> QED
    BY <2>3, <2>4, <2>5, <1>6, <1>7
<1>8. CASE pc["disc"] = "callback" /\ timer["disc"] > 0
  <2>1. Ahead = Ahead' + 1
    <3>1. timer["disc"] \in Nat /\ timer'["disc"] = timer["disc"] - 1
      BY <1>t, <1>1, <1>8
    <3>2. CallLeft("disc") = timer["disc"] /\ CallLeft("disc")' = timer["disc"] - 1
      BY <3>1, <1>1, <1>8 DEF CallLeft
    <3>3. Ahead = CallsAbout(Unknown) + timer["disc"]
      BY <3>2 DEF Ahead
    <3>4. Ahead' = CallsAbout(Unknown) + (timer["disc"] - 1)
      BY <3>2, <1>2 DEF Ahead
    <3> QED
      BY <3>1, <3>3, <3>4, <1>2
  <2>2. \A i \in Iface : Read(i)' = Read(i)
    BY <1>1, <1>8 DEF Read
  <2>3. \A i \in Iface : Read(i)' + Ahead' + 1 <= Read(i) + Ahead
    BY <2>1, <2>2, <1>i, <1>n
  <2>4. Until' + Ahead' + 1 <= Until + Ahead /\ Ahead' <= Ahead
    <3>1. Until' <= Until
      BY <1>3
    <3> QED
      BY <2>1, <3>1, <1>a, <1>n
  <2> QED
    BY <2>3, <2>4, <1>6, <1>8
<1> QED
  BY <1>5, <1>7, <1>8, DiscoveryAtSecond

LEMMA AheadOfNotification ==
    ASSUME Ready, Numbered', Notification("disc")
    PROVE  Ahead' <= Ahead
<1>1. devices' = devices
  BY DEF Notification, NotifyListener, NotifyNobody, CallbackReturns, table
<1>2. CallLeft("disc")' <= CallLeft("disc") /\ CallLeft("disc") \in Nat /\ CallLeft("disc")' \in Nat
  <2>t. pc \in [Thread -> PC] /\ timer \in [Thread -> Nat] /\ "disc" \in Thread
        /\ MaxCallback \in Nat
    BY TimeAssumption DEF Ready, Numbered, IInv, TypeOK, Thread
  <2>1. ASSUME NEW n \in 0..MaxCallback, NotifyListener("disc", n)
      PROVE  CallLeft("disc")' <= CallLeft("disc") /\ CallLeft("disc") \in Nat
             /\ CallLeft("disc")' \in Nat
    <3>1. pc["disc"] = "notify" /\ pc'["disc"] = "callback" /\ timer'["disc"] = n
      BY <2>t, <2>1 DEF NotifyListener, Goto, Sleep
    <3> QED
      BY <2>t, <3>1 DEF CallLeft
  <2>2. CASE NotifyNobody("disc") \/ CallbackReturns("disc")
    <3>1. pc'["disc"] = "poll"
      BY <2>t, <2>2 DEF NotifyNobody, CallbackReturns, Goto, Resume
    <3> QED
      BY <2>t, <3>1 DEF CallLeft
  <2> QED
    BY <2>1, <2>2 DEF Notification
<1>3. CallsAbout(Unknown)' = CallsAbout(Unknown) /\ CallsAbout(Unknown) \in Nat
  <2>1. Unknown' = Unknown /\ Unknown \in SUBSET Did
    BY <1>1 DEF Unknown
  <2> QED
    BY <2>1, CallsCount DEF CallsAbout
<1> QED
  BY <1>2, <1>3 DEF Ahead

LEMMA ScanningStep ==
    ASSUME Ready, Numbered', [TimedNext]_timedVars
    PROVE  Scanning'
<1>t. /\ pc \in [Thread -> PC] /\ timer \in [Thread -> Nat] /\ "disc" \in Thread /\ "tmo" \in Thread
      /\ devices \in [Did -> Entry] /\ todo \subseteq Iface
  BY DEF Ready, Numbered, IInv, TypeOK, Thread
<1>a. Ahead \in Nat
  BY DEF Ready, Numbered, PaceNumbers
<1>r. \A i \in Iface : Read(i) \in {0, 1}
  BY DEF Ready, Numbered, PaceNumbers
<1> DEFINE Still == UNCHANGED <<inbox, owed, scanInterval, sinceProbe, age>>
<1>u. ASSUME Still, devices' = devices,
             BetweenScans' <=> BetweenScans, \A i \in Iface : Read(i)' <= Read(i),
             ~Notifying("disc"), ~Notifying("disc")', pc["disc"] # "update"
      PROVE  Scanning'
  <2>1. Ahead' <= Ahead
    <3>1. Ahead' = Ahead
      BY <1>u DEF Ahead, Unknown, CallsAbout, CallLeft, Notifying
    <3> QED
      BY <3>1, <1>a
  <2> QED
    BY <2>1, <1>u, ScanningUnmoved
<1>v. ASSUME Still, UNCHANGED <<todo, answer>>,
             pc'["disc"] = pc["disc"], timer'["disc"] = timer["disc"],
             \A d \in Responsive : devices'[d].status = "online" => devices[d].status = "online",
             Unknown' = Unknown
      PROVE  Scanning'
  <2>1. Ahead' <= Ahead
    <3>1. Ahead' = Ahead
      BY <1>v DEF Ahead, CallsAbout, CallLeft
    <3> QED
      BY <3>1, <1>a
  <2>2. \A i \in Iface : Read(i)' <= Read(i)
    <3>1. \A i \in Iface : Read(i)' = Read(i)
      BY <1>v DEF Read
    <3> QED
      BY <3>1, <1>r
  <2> QED
    BY <2>1, <2>2, <1>v, ScanningUnmoved DEF BetweenScans
<1> USE DEF network, table, discLocals
<1>1. ASSUME NEW n \in 0..StartDelay, Start(Iface, n), UNCHANGED owed PROVE Scanning'
  <2>1. Still /\ devices' = devices
    BY <1>1 DEF Start
  <2>2. pc["disc"] = "off" /\ pc'["disc"] = "delay"
    BY <1>1, <1>t DEF Start, Ready, Numbered, IInv, Discipline, NoThreadsAtRest
  <2>3. \A i \in Iface : Read(i)' = 0 /\ Read(i) = 0
    BY <2>2 DEF Read
  <2> QED
    BY <2>1, <2>2, <2>3, <1>u DEF BetweenScans, Notifying
<1>2. CASE (DDelayOver \/ DTest) /\ UNCHANGED owed
  <2>1. Still /\ devices' = devices
    BY <1>2 DEF DDelayOver, DTest
  <2>2. pc["disc"] \in {"delay", "outer", "inner"}
        /\ pc'["disc"] \in {"outer", "probe", "lock", "exit"}
        /\ (pc["disc"] = "inner" <=> pc'["disc"] \in {"lock", "exit"})
    <3>1. DTest => running
      BY <1>t DEF DTest, Ready, Numbered, Setting, NeverStopped, IInv, Discipline, Places
    <3> QED
      BY <1>2, <1>t, <3>1 DEF DDelayOver, DTest, Goto
  <2>3. \A i \in Iface : Read(i)' = 0 /\ Read(i) = 0
    BY <2>2 DEF Read
  <2>4. BetweenScans' <=> BetweenScans
    BY <2>2 DEF BetweenScans
  <2> QED
    BY <2>1, <2>2, <2>3, <2>4, <1>u DEF Notifying
<1>3. CASE DLock /\ UNCHANGED owed
  <2>1. Still /\ devices' = devices
    BY <1>3 DEF DLock
  <2>2. pc["disc"] = "lock" /\ pc'["disc"] = "poll" /\ todo' = Iface
    BY <1>3, <1>t DEF DLock, Goto, Ready, Numbered, Setting, NeverStopped
  <2>3. \A i \in Iface : Read(i)' = 0 /\ Read(i) = 0
    BY <2>2 DEF Read
  <2> QED
    BY <2>1, <2>2, <2>3, <1>u DEF BetweenScans, Notifying
<1>4. CASE DSleep /\ UNCHANGED owed
  <2>1. Still /\ devices' = devices
    BY <1>4 DEF DSleep
  <2>2. pc["disc"] = "poll" /\ pc'["disc"] = "sleep" /\ timer'["disc"] = 1 /\ todo = {}
    BY <1>4, <1>t DEF DSleep, Goto, Sleep
  <2>3. \A i \in Iface : Read(i)' = 1 /\ Read(i) = 1
    BY <2>2 DEF Read
  <2> QED
    BY <2>1, <2>2, <2>3, <1>u DEF BetweenScans, Notifying
<1>5. CASE DWake /\ UNCHANGED owed
  <2>1. Still /\ devices' = devices
    BY <1>5 DEF DWake
  <2>2. pc["disc"] = "sleep" /\ pc'["disc"] = "inner" /\ timer["disc"] = 0
    BY <1>5, <1>t DEF DWake, Goto
  <2>3. \A i \in Iface : Read(i)' = 0 /\ Read(i) = 0
    BY <2>2 DEF Read
  <2> QED
    BY <2>1, <2>2, <2>3, <1>u DEF BetweenScans, Notifying
<1>6. CASE Notification("disc") /\ UNCHANGED owed
  <2>1. Still /\ devices' = devices /\ todo' = todo
    BY <1>6 DEF Notification, NotifyListener, NotifyNobody, CallbackReturns
  <2>2. pc["disc"] \in {"notify", "callback"} /\ pc'["disc"] \in {"callback", "poll"}
    BY <1>6, <1>t DEF Notification, NotifyListener, NotifyNobody, CallbackReturns, Goto, Resume
  <2>3. \A i \in Iface : Read(i)' <= Read(i)
    <3>1. \A i \in Iface : Read(i)' = Read(i)
      BY <2>1, <2>2 DEF Read
    <3> QED
      BY <3>1, <1>r
  <2>4. Ahead' <= Ahead
    BY <1>6, AheadOfNotification
  <2> QED
    BY <2>1, <2>2, <2>3, <2>4, ScanningUnmoved DEF BetweenScans
<1>7. CASE (RegisterCallback /\ UNCHANGED owed) \/ UNCHANGED timedVars
  <2>1. UNCHANGED <<inbox, owed, scanInterval, sinceProbe, age, pc, todo, answer, timer, devices>>
    BY <1>7 DEF RegisterCallback, timedVars, vars
  <2> QED
    BY <2>1, <1>v DEF Unknown
<1>8. CASE Checker /\ UNCHANGED owed
  <2>1. Still /\ UNCHANGED <<todo, answer>> /\ timer'["disc"] = timer["disc"]
        /\ pc'["disc"] = pc["disc"]
    BY <1>8, <1>t DEF Checker, TTest, TCheck, TExpire, TDone, TWake, Notification,
       NotifyListener, NotifyNobody, CallbackReturns, Goto, Sleep
  <2>2. Unknown' = Unknown
        /\ \A d \in Responsive : devices'[d].status = "online" => devices[d].status = "online"
    <3>1. ASSUME NEW e \in Did, TExpire(e)
          PROVE  Unknown' = Unknown /\ \A d \in Responsive :
                    devices'[d].status = "online" => devices[d].status = "online"
      BY <3>1, ExpireEffect, HomeAssumption DEF Ready, Numbered, Unknown
    <3>2. CASE ~\E e \in Did : TExpire(e)
      <4>1. devices' = devices
        BY <1>8, <3>2 DEF Checker, TTest, TCheck, TDone, TWake, Notification,
           NotifyListener, NotifyNobody, CallbackReturns
      <4> QED
        BY <4>1 DEF Unknown
    <3> QED
      BY <3>1, <3>2
  <2> QED
    BY <2>1, <2>2, <1>v
<1>9. ASSUME NEW e \in Did, AnswerProbe(e) \/ FallSilent(e) PROVE Scanning'
  BY <1>9, ScanningAnswer, ScanningSilent
<1>10. CASE Broadcast \/ Second
  BY <1>10, ScanningProbe, ScanningSecond
<1>11. CASE (DBreak \/ DUpdate \/ \E i \in Iface : DReceive(i)) /\ UNCHANGED owed
  BY <1>11, ScanningBreak, ScanningUpdate, ScanningReceive
<1> QED
  BY <1>1, <1>2, <1>3, <1>4, <1>5, <1>6, <1>7, <1>8, <1>9, <1>10, <1>11
  DEF TimedNext, Other, Discovery, DProbe

--------------------------------------------------------------------------------
(* The two properties, where discovery keeps up.                            *)

LEMMA PaceInit == TimedInit => PaceInv /\ ResponsiveStaysOnline
<1> SUFFICES ASSUME TimedInit PROVE PaceInv /\ ResponsiveStaysOnline
  OBVIOUS
<1>1. PaceConstants
  BY PaceConstantsHold
<1>2. /\ pc["disc"] = "off" /\ pc["tmo"] = "off" /\ owed = {} /\ due = {}
      /\ \A d \in Did : devices[d].status = "absent"
      /\ \A i \in Iface : inbox[i] = <<>>
      /\ scanInterval = MinScan
  BY DEF TimedInit, Init, Absent, Thread
<1>3. Ahead <= AllCalls /\ Ahead \in Nat
  BY PaceNumbersHold, SettingInit, InitIInv DEF TimedInit, PaceNumbers
<1>4. ASSUME NEW i \in Iface PROVE Load(i) = 0
  <2>1. owed \cap Here(i) = {}
    BY <1>2
  <2>2. Owing(i) = 0 /\ Len(inbox[i]) = 0
    BY <2>1, <1>2, FS_EmptySet DEF Owing
  <2> QED
    BY <2>2 DEF Load
<1>5. ScanReadsAll
  BY <1>1, <1>2, <1>3, <1>4 DEF ScanReadsAll, PaceConstants
<1>6. LoadBounded
  BY <1>1, <1>3, <1>4 DEF LoadBounded, PaceConstants
<1>7. NothingKnown /\ ScanHasTime /\ SleepIsOne
  BY <1>2 DEF NothingKnown, ScanHasTime, SleepIsOne, BetweenScans
<1>8. IntervalLongEnough
  BY <1>1, <1>2 DEF IntervalLongEnough, BetweenScans, PaceConstants
<1>9. AnswerComes /\ ResponsiveStaysOnline
  BY <1>2, HomeAssumption DEF AnswerComes, ResponsiveStaysOnline
<1> QED
  BY <1>5, <1>6, <1>7, <1>8, <1>9 DEF PaceInv

\* An entry whose next answer comes in time is young enough for the checker.
LEMMA YoungEnough ==
    ASSUME Ready, NEW d \in Responsive, devices[d].status = "online"
    PROVE  age[d] < Timeout
<1>c. PaceConstants /\ PaceNumbers
  BY PaceConstantsHold DEF Ready, Numbered
<1>1. d \in Did /\ HomeIface[d] \in Iface
  BY <1>c, HomeAssumption DEF PaceConstants
<1> DEFINE h == HomeIface[d]
<1>n. /\ Ahead \in Nat /\ Until \in Nat /\ age[d] \in Nat /\ Load(h) \in Nat /\ Read(h) \in {0, 1}
      /\ AllCalls \in Nat /\ MaxScan \in Nat /\ Cardinality(Did) \in Nat /\ Pace \in Nat
      /\ Pace = MaxScan + Cardinality(Did) + 2 * AllCalls + 1 /\ Timeout \in Nat
      /\ Pace < Timeout
  <2>1. Ahead \in Nat /\ Until \in Nat /\ age[d] \in Nat /\ Load(h) \in Nat /\ Read(h) \in {0, 1}
    BY <1>1, <1>c DEF PaceNumbers
  <2> QED
    BY <2>1, <1>c DEF PaceConstants, Ready, KeepsUp
<1> HIDE DEF h
<1>2. CASE Waiting(d)
  <2>1. PICK k \in 1..Len(inbox[h]) : age[d] + (k + Read(h) + Ahead) <= Pace
    BY <1>2 DEF Waiting, h
  <2> QED
    BY <2>1, <1>n
<1>3. CASE Asked(d)
  <2>1. age[d] + (Load(h) + Ahead) < Pace
    BY <1>3 DEF Asked, h
  <2> QED
    BY <2>1, <1>n
<1>4. CASE NotYetAsked(d) \/ InHand(d)
  BY <1>4, <1>n DEF NotYetAsked, InHand
<1> QED
  BY <1>2, <1>3, <1>4 DEF Ready, PaceInv, AnswerComes

LEMMA StaysOnlineStep ==
    ASSUME Ready, [TimedNext]_timedVars
    PROVE  ResponsiveStaysOnline'
<1>n. [Next]_vars /\ IInv /\ Setting
  BY TimedStep DEF Ready, Numbered
<1>r. Responsive \subseteq Did
      /\ \A d \in Responsive : devices[d].status # "offline" /\ d \notin due
  BY HomeAssumption DEF Ready, ResponsiveStaysOnline
<1>1. CASE DUpdate
  <2>1. due' = due
    BY <1>1 DEF DUpdate
  <2> QED
    BY <1>1, <1>n, <1>r, <2>1, UpdateEffect DEF ResponsiveStaysOnline
<1>2. ASSUME NEW e \in Did, TExpire(e) PROVE ResponsiveStaysOnline'
  <2>1. due' = due \ {e} /\ e \in due
    BY <1>2 DEF TExpire
  <2> QED
    BY <1>2, <1>n, <1>r, <2>1, ExpireEffect DEF ResponsiveStaysOnline
<1>3. CASE TCheck
  <2>1. devices' = devices /\ due' = {d \in Did : Expired(d)}
    BY <1>3 DEF TCheck, table
  <2>2. ASSUME NEW d \in Responsive PROVE ~Expired(d)
    <3>1. devices[d].status = "online" => age[d] < Timeout /\ age[d] \in Nat /\ Timeout \in Nat
      BY YoungEnough, <1>r, TimeAssumption DEF Ready, Numbered, PaceNumbers
    <3> QED
      BY <3>1 DEF Expired
  <2> QED
    BY <2>1, <2>2, <1>r DEF ResponsiveStaysOnline
<1>4. CASE ~DUpdate /\ ~TCheck /\ ~\E e \in Did : TExpire(e)
  <2>1. devices' = devices
    BY <1>4, <1>n, TableUntouched
  <2>2. due' = due
    BY <1>4, <1>n DEF Next, Main, Start, Stop, Joined, RegisterCallback, UnregisterCallback,
       Discovery, DDelayOver, DTest, DProbe, DLock, DReceive, DBreak, DSleep, DWake, Checker,
       TTest, TDone, TWake, Notification, NotifyListener, NotifyNobody, CallbackReturns,
       Arrive, Tick, vars
  <2> QED
    BY <1>r, <2>1, <2>2 DEF ResponsiveStaysOnline
<1> QED
  BY <1>1, <1>2, <1>3, <1>4

\* Where no interface has more devices than its shortest interval has seconds, the
\* sockets buffer what arrives during the listener's calls, and the timeout is
\* longer than an interval, a second for each device and two calls about each: a
\* device that answers every broadcast is never declared offline.
THEOREM AnsweringStaysOnline == KeepsUp => (TimedSpec => []ResponsiveStaysOnline)
<1> SUFFICES ASSUME KeepsUp PROVE TimedSpec => []ResponsiveStaysOnline
  OBVIOUS
<1>1. IInv /\ Setting => Numbered
  BY PaceNumbersHold DEF Numbered
<1>2. Numbered /\ Numbered' /\ PaceInv /\ ResponsiveStaysOnline /\ [TimedNext]_timedVars
        => PaceInv' /\ ResponsiveStaysOnline'
  <2> SUFFICES ASSUME Numbered, Numbered', PaceInv, ResponsiveStaysOnline,
                      [TimedNext]_timedVars
               PROVE  PaceInv' /\ ResponsiveStaysOnline'
    OBVIOUS
  <2>1. Ready
    BY DEF Ready
  <2>2. Scanning' /\ ResponsiveStaysOnline'
    BY <2>1, ScanningStep, StaysOnlineStep
  <2>3. NothingKnown' /\ SleepIsOne'
    BY NothingKnownStep, SleepIsOneStep DEF Numbered, PaceInv
  <2> QED
    BY <2>2, <2>3 DEF PaceInv, Scanning
<1>3. TimedSpec => []Numbered
  BY <1>1, TimedInductive, PTL
<1> QED
  BY <1>2, <1>3, PaceInit, PTL DEF TimedSpec

\* And then no entry is shown online for longer than the timeout and the slack.
THEOREM FreshWhereDiscoveryKeepsUp == KeepsUp => (TimedSpec => []OnlineIsFresh)
BY AnsweringStaysOnline, FreshWhenOnline, PTL
================================================================================
