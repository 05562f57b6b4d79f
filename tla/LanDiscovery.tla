----------------------------- MODULE LanDiscovery -----------------------------
(***************************************************************************)
(* MIoTLanDiscovery (miot_lan_device.cpp): a discovery thread that         *)
(* broadcasts probes and turns the answers into a device table, a checker  *)
(* thread that declares silent devices offline, and the main thread that   *)
(* starts and stops both and (un)registers the listener.  The table is     *)
(* guarded by devices_mutex_, the sockets by sockets_mutex_, the listener  *)
(* by callbacks_mutex_; each is held exactly where the code holds it.      *)
(*                                                                         *)
(* Time is counted in ticks of one second.  What the listener does is left *)
(* open: a call takes 0..MaxCallback ticks.                                *)
(***************************************************************************)
EXTENDS Integers, Sequences

CONSTANTS
    Did,            \* device ids
    Ip,             \* addresses a device may answer from
    Iface,          \* network interfaces
    MinScan,        \* min_scan_interval_
    MaxScan,        \* max_scan_interval_
    Timeout,        \* device_timeout_
    CheckPeriod,    \* sleep of the checker between two passes
    StartDelay,     \* longest initial delay of the discovery thread
    MaxCallback,    \* longest listener call
    AgeMax,         \* bound: ages are counted up to here
    InboxCap        \* bound: datagrams one socket buffers

ASSUME DidAssumption == Did # {} /\ "none" \notin Did
ASSUME IfaceAssumption == Iface # {}
ASSUME ScanAssumption ==
    /\ MinScan \in Nat \ {0}
    /\ MaxScan \in Nat
    /\ MinScan <= MaxScan
ASSUME TimeAssumption ==
    /\ Timeout \in Nat
    /\ CheckPeriod \in Nat
    /\ StartDelay \in Nat
    /\ MaxCallback \in Nat
    /\ AgeMax \in Nat
    /\ Timeout < AgeMax
ASSUME InboxAssumption == InboxCap \in Nat

Status == {"absent", "online", "offline"}
Change == {"NEW", "ONLINE", "OFFLINE", "IP_CHANGED", "INTERFACE_CHANGED"}

\* An answer to a probe, or anything handle_received_data throws away: another
\* port, another header, another length.
Answer == [did : Did, ip : Ip]
Noise == [did |-> "none", ip |-> "none"]
Datagram == Answer \cup {Noise}

\* DeviceInfo; "absent" is a did that devices_ has no entry for.
Entry == [status : Status, ip : Ip \cup {"none"}, iface : Iface \cup {"none"},
          change : Change \cup {"none"}]
Absent == [status |-> "absent", ip |-> "none", iface |-> "none", change |-> "none"]

\* The discovery thread and the checker thread.
Thread == {"disc", "tmo"}
Holder == Thread \cup {"free"}

VARIABLES
    running,        \* running_
    stopping,       \* the main thread is in stop(), joining
    sockets,        \* interfaces that have an entry in sockets_
    inbox,          \* datagrams the kernel holds for each socket
    devices,        \* devices_
    age,            \* ticks since last_seen
    scanInterval,   \* current_scan_interval_
    sinceProbe,     \* ticks since the last broadcast, up to MaxScan
    registered,     \* callbacks_ has the listener
    socketsMutex, devicesMutex, callbacksMutex,
    pc,             \* where each thread stands
    timer,          \* ticks left of a thread's sleep or listener call
    subject,        \* the did a thread is working on
    todo,           \* sockets the poll loop has still to read
    answer,         \* datagram and interface given to update_device
    due             \* devices the checker has still to declare offline

table == <<devices, age>>
mutexes == <<socketsMutex, devicesMutex, callbacksMutex>>
network == <<sockets, inbox>>
control == <<running, stopping>>
vars == <<running, stopping, sockets, inbox, devices, age, scanInterval,
          sinceProbe, registered, socketsMutex, devicesMutex, callbacksMutex,
          pc, timer, subject, todo, answer, due>>

PC == {"off", "delay", "outer", "probe", "inner", "lock", "poll", "update",
       "notify", "callback", "sleep", "test", "check", "scan", "exit"}

NoAnswer == [did |-> "none", ip |-> "none", iface |-> "none"]

TypeOK ==
    /\ running \in BOOLEAN /\ stopping \in BOOLEAN /\ registered \in BOOLEAN
    /\ sockets \subseteq Iface
    /\ inbox \in [Iface -> Seq(Datagram)]
    /\ devices \in [Did -> Entry]
    /\ age \in [Did -> 0..AgeMax]
    /\ scanInterval \in 1..MaxScan
    /\ sinceProbe \in 0..MaxScan
    /\ socketsMutex \in Holder
    /\ devicesMutex \in Holder
    /\ callbacksMutex \in Holder
    /\ pc \in [Thread -> PC]
    /\ timer \in [Thread -> Nat]
    /\ subject \in [Thread -> Did \cup {"none"}]
    /\ todo \subseteq Iface
    /\ answer \in [did : Did, ip : Ip, iface : Iface] \cup {NoAnswer}
    /\ due \subseteq Did

Init ==
    /\ running = FALSE /\ stopping = FALSE /\ registered = FALSE
    /\ sockets = {}
    /\ inbox = [i \in Iface |-> <<>>]
    /\ devices = [d \in Did |-> Absent]
    /\ age = [d \in Did |-> 0]
    /\ scanInterval = MinScan
    /\ sinceProbe = 0
    /\ socketsMutex = "free" /\ devicesMutex = "free" /\ callbacksMutex = "free"
    /\ pc = [t \in Thread |-> "off"]
    /\ timer = [t \in Thread |-> 0]
    /\ subject = [t \in Thread |-> "none"]
    /\ todo = {}
    /\ answer = NoAnswer
    /\ due = {}

Min2Mut(a, b) == a              \* variant: no ceiling
Min2(a, b) == IF a < b THEN a ELSE b

\* std::lock_guard: the variants leave it out.
TableFreeMut == TRUE
TableFree == devicesMutex = "free"
ListenersFreeMut == TRUE
ListenersFree == callbacksMutex = "free"

Goto(t, l) == pc' = [pc EXCEPT ![t] = l]
Sleep(t, n) == timer' = [timer EXCEPT ![t] = n]

--------------------------------------------------------------------------------
(* The main thread.                                                         *)

\* start(): some of the sockets may fail to open, not all of them.
Start(S, delay) ==
    /\ ~running /\ ~stopping
    /\ S # {}
    /\ sockets' = S
    /\ running' = TRUE
    /\ pc' = [pc EXCEPT !["disc"] = "delay", !["tmo"] = "test"]
    /\ Sleep("disc", delay)
    /\ UNCHANGED <<stopping, inbox, devices, age, scanInterval, sinceProbe,
                   registered, mutexes, subject, todo, answer, due>>

\* stop(), up to the joins.
Stop ==
    /\ running /\ ~stopping
    /\ running' = FALSE
    /\ stopping' = TRUE
    /\ UNCHANGED <<network, table, scanInterval, sinceProbe, registered, mutexes,
                   pc, timer, subject, todo, answer, due>>

\* Both joins have returned; close_all_sockets().
Joined ==
    /\ stopping
    /\ \A t \in Thread : pc[t] = "exit"
    /\ socketsMutex = "free"
    /\ pc' = [t \in Thread |-> "off"]
    /\ sockets' = {}
    /\ inbox' = [i \in Iface |-> <<>>]
    /\ stopping' = FALSE
    /\ UNCHANGED <<running, table, scanInterval, sinceProbe, registered, mutexes,
                   timer, subject, todo, answer, due>>

RegisterCallback ==
    /\ ~stopping
    /\ ListenersFree
    /\ registered' = TRUE
    /\ UNCHANGED <<control, network, table, scanInterval, sinceProbe, mutexes, pc,
                   timer, subject, todo, answer, due>>

UnregisterCallback ==
    /\ ~stopping
    /\ ListenersFree
    /\ registered' = FALSE
    /\ UNCHANGED <<control, network, table, scanInterval, sinceProbe, mutexes, pc,
                   timer, subject, todo, answer, due>>

--------------------------------------------------------------------------------
(* Both threads: notify_callbacks, called with devices_mutex_ held.         *)

\* Where a thread goes on when notify_callbacks returns.
Resume(t) == IF t = "disc" THEN "poll" ELSE "scan"

\* update_device is done once its notification is; check_device_timeouts still
\* holds the table.
ReleaseEachMut(t) == devicesMutex' = "free"     \* variant: the checker lets go
ReleaseNeverMut(t) == UNCHANGED devicesMutex    \* variant: nobody does
ReleaseTable(t) == devicesMutex' = IF t = "disc" THEN "free" ELSE devicesMutex

NotifyListener(t, n) ==
    /\ pc[t] = "notify"
    /\ ListenersFree
    /\ registered
    /\ callbacksMutex' = t
    /\ Goto(t, "callback")
    /\ Sleep(t, n)
    /\ UNCHANGED <<control, network, table, scanInterval, sinceProbe, registered,
                   socketsMutex, devicesMutex, subject, todo, answer, due>>

NotifyNobody(t) ==
    /\ pc[t] = "notify"
    /\ ListenersFree
    /\ ~registered
    /\ Goto(t, Resume(t))
    /\ ReleaseTable(t)
    /\ UNCHANGED <<control, network, table, scanInterval, sinceProbe, registered,
                   socketsMutex, callbacksMutex, timer, subject, todo, answer, due>>

\* The listener returns, or throws: notify_callbacks catches.
CallbackReturns(t) ==
    /\ pc[t] = "callback"
    /\ timer[t] = 0
    /\ callbacksMutex' = "free"
    /\ Goto(t, Resume(t))
    /\ ReleaseTable(t)
    /\ UNCHANGED <<control, network, table, scanInterval, sinceProbe, registered,
                   socketsMutex, timer, subject, todo, answer, due>>

Notification(t) ==
    \/ \E n \in 0..MaxCallback : NotifyListener(t, n)
    \/ NotifyNobody(t)
    \/ CallbackReturns(t)

--------------------------------------------------------------------------------
(* The discovery thread: discovery_loop, send_probe, update_device.         *)

discLocals == <<todo, answer>>

DDelayOver ==
    /\ pc["disc"] = "delay"
    /\ timer["disc"] = 0
    /\ Goto("disc", "outer")
    /\ UNCHANGED <<control, network, table, scanInterval, sinceProbe, registered,
                   mutexes, timer, subject, discLocals, due>>

\* The tests of the two while (running_) loops; the outer one is reached with
\* running_ false when the inner one ends so.
DTest ==
    /\ pc["disc"] \in {"outer", "inner"}
    /\ Goto("disc", IF ~running THEN "exit"
                    ELSE IF pc["disc"] = "outer" THEN "probe" ELSE "lock")
    /\ UNCHANGED <<control, network, table, scanInterval, sinceProbe, registered,
                   mutexes, timer, subject, discLocals, due>>

\* send_probe(), get_next_scan_interval() and the start of the interval.
DProbe ==
    /\ pc["disc"] = "probe"
    /\ socketsMutex = "free"
    /\ scanInterval' = Min2(2 * scanInterval, MaxScan)
    /\ sinceProbe' = 0
    /\ Goto("disc", "inner")
    /\ UNCHANGED <<control, network, table, registered, mutexes, timer, subject,
                   discLocals, due>>

DLock ==
    /\ pc["disc"] = "lock"
    /\ socketsMutex = "free"
    /\ socketsMutex' = "disc"
    /\ todo' = sockets
    /\ Goto("disc", "poll")
    /\ UNCHANGED <<control, network, table, scanInterval, sinceProbe, registered,
                   devicesMutex, callbacksMutex, timer, subject, answer, due>>

\* One recvfrom on one socket, which does not block.
DReceive(i) ==
    /\ pc["disc"] = "poll"
    /\ i \in todo
    /\ todo' = todo \ {i}
    /\ IF inbox[i] # <<>> /\ Head(inbox[i]) # Noise
         THEN /\ answer' = [did |-> Head(inbox[i]).did, ip |-> Head(inbox[i]).ip,
                            iface |-> i]
              /\ Goto("disc", "update")
         ELSE UNCHANGED <<answer, pc>>
    /\ inbox' = IF inbox[i] # <<>> THEN [inbox EXCEPT ![i] = Tail(@)] ELSE inbox
    /\ UNCHANGED <<control, sockets, table, scanInterval, sinceProbe, registered,
                   mutexes, timer, subject, due>>

\* The entry update_device leaves behind: a later assignment to
\* status_changed_type overwrites an earlier one.
ChangeOf(e, a) ==
    CASE e.status = "absent" -> "NEW"
      [] e.status # "absent" /\ e.iface # a.iface -> "INTERFACE_CHANGED"
      [] e.status # "absent" /\ e.iface = a.iface /\ e.ip # a.ip -> "IP_CHANGED"
      [] e.status = "offline" /\ e.iface = a.iface /\ e.ip = a.ip -> "ONLINE"
      [] OTHER -> e.change

ChangedMut(e, a) == e.ip # a.ip \/ e.iface # a.iface    \* variant: online missed
Changed(e, a) == e.status # "online" \/ e.ip # a.ip \/ e.iface # a.iface

Updated(e, a) ==
    [status |-> "online", ip |-> a.ip, iface |-> a.iface, change |-> ChangeOf(e, a)]

\* last_seen = now, whether or not anything changed.
SeenMut(a) == IF Changed(devices[a.did], a) THEN [age EXCEPT ![a.did] = 0] ELSE age
Seen(a) == [age EXCEPT ![a.did] = 0]

DUpdate ==
    /\ pc["disc"] = "update"
    /\ TableFree
    /\ devices' = [devices EXCEPT ![answer.did] = Updated(@, answer)]
    /\ age' = Seen(answer)
    /\ IF Changed(devices[answer.did], answer)
         THEN /\ devicesMutex' = "disc"
              /\ subject' = [subject EXCEPT !["disc"] = answer.did]
              /\ Goto("disc", "notify")
         ELSE /\ Goto("disc", "poll")
              /\ UNCHANGED <<devicesMutex, subject>>
    /\ answer' = NoAnswer
    /\ UNCHANGED <<control, network, scanInterval, sinceProbe, registered,
                   socketsMutex, callbacksMutex, timer, todo, due>>

\* The scan interval is over: break, which unlocks.
DBreak ==
    /\ pc["disc"] = "poll"
    /\ todo = {}
    /\ sinceProbe >= scanInterval
    /\ socketsMutex' = "free"
    /\ Goto("disc", "outer")
    /\ UNCHANGED <<control, network, table, scanInterval, sinceProbe, registered,
                   devicesMutex, callbacksMutex, timer, subject, discLocals, due>>

\* The 1000 ms sleep, with sockets_mutex_ held.
DSleep ==
    /\ pc["disc"] = "poll"
    /\ todo = {}
    /\ sinceProbe < scanInterval
    /\ Sleep("disc", 1)
    /\ Goto("disc", "sleep")
    /\ UNCHANGED <<control, network, table, scanInterval, sinceProbe, registered,
                   mutexes, subject, discLocals, due>>

DWake ==
    /\ pc["disc"] = "sleep"
    /\ timer["disc"] = 0
    /\ socketsMutex' = "free"
    /\ Goto("disc", "inner")
    /\ UNCHANGED <<control, network, table, scanInterval, sinceProbe, registered,
                   devicesMutex, callbacksMutex, timer, subject, discLocals, due>>

Discovery ==
    \/ DDelayOver \/ DTest \/ DProbe \/ DLock
    \/ \E i \in Iface : DReceive(i)
    \/ DUpdate \/ DBreak \/ DSleep \/ DWake
    \/ Notification("disc")

--------------------------------------------------------------------------------
(* The checker thread: timeout_checker_loop, check_device_timeouts.         *)

TTest ==
    /\ pc["tmo"] = "test"
    /\ Goto("tmo", IF running THEN "check" ELSE "exit")
    /\ UNCHANGED <<control, network, table, scanInterval, sinceProbe, registered,
                   mutexes, timer, subject, discLocals, due>>

\* now is read once, with the table locked.
ExpiredMut(d) == devices[d].status = "online" /\ age[d] >= 1000 * Timeout
Expired(d) == devices[d].status = "online" /\ age[d] >= Timeout

TCheck ==
    /\ pc["tmo"] = "check"
    /\ TableFree
    /\ devicesMutex' = "tmo"
    /\ due' = {d \in Did : Expired(d)}
    /\ Goto("tmo", "scan")
    /\ UNCHANGED <<control, network, table, scanInterval, sinceProbe, registered,
                   socketsMutex, callbacksMutex, timer, subject, discLocals>>

TExpire(d) ==
    /\ pc["tmo"] = "scan"
    /\ d \in due
    /\ due' = due \ {d}
    /\ devices' = [devices EXCEPT ![d].status = "offline", ![d].change = "OFFLINE"]
    /\ subject' = [subject EXCEPT !["tmo"] = d]
    /\ Goto("tmo", "notify")
    /\ UNCHANGED <<control, network, age, scanInterval, sinceProbe, registered,
                   mutexes, timer, discLocals>>

TDone ==
    /\ pc["tmo"] = "scan"
    /\ due = {}
    /\ devicesMutex' = "free"
    /\ Sleep("tmo", CheckPeriod)
    /\ Goto("tmo", "sleep")
    /\ UNCHANGED <<control, network, table, scanInterval, sinceProbe, registered,
                   socketsMutex, callbacksMutex, subject, discLocals, due>>

TWake ==
    /\ pc["tmo"] = "sleep"
    /\ timer["tmo"] = 0
    /\ Goto("tmo", "test")
    /\ UNCHANGED <<control, network, table, scanInterval, sinceProbe, registered,
                   mutexes, timer, subject, discLocals, due>>

Checker ==
    \/ TTest \/ TCheck \/ TDone \/ TWake
    \/ \E d \in Did : TExpire(d)
    \/ Notification("tmo")

--------------------------------------------------------------------------------
(* The network and the clock.                                               *)

\* A datagram reaches a socket; one that finds the buffer full is lost.
Arrive(i, m) ==
    /\ i \in sockets
    /\ Len(inbox[i]) < InboxCap
    /\ inbox' = [inbox EXCEPT ![i] = Append(@, m)]
    /\ UNCHANGED <<control, sockets, table, scanInterval, sinceProbe, registered,
                   mutexes, pc, timer, subject, discLocals, due>>

Tick ==
    /\ age' = [d \in Did |-> IF devices[d].status = "absent" THEN 0
                             ELSE Min2(age[d] + 1, AgeMax)]
    /\ sinceProbe' = Min2(sinceProbe + 1, MaxScan)
    /\ timer' = [t \in Thread |-> IF timer[t] > 0 THEN timer[t] - 1 ELSE 0]
    /\ UNCHANGED <<control, network, devices, scanInterval, registered, mutexes,
                   pc, subject, discLocals, due>>

Main ==
    \/ \E S \in SUBSET Iface, n \in 0..StartDelay : Start(S, n)
    \/ Stop \/ Joined \/ RegisterCallback \/ UnregisterCallback

Next ==
    \/ Main
    \/ Discovery
    \/ Checker
    \/ \E i \in Iface, m \in Datagram : Arrive(i, m)
    \/ Tick

Spec == Init /\ [][Next]_vars

(***************************************************************************)
(* The operating system runs a thread that can run, and time passes.  A    *)
(* thread that waits for devices_mutex_ gets it in the end, because the    *)
(* other one sleeps a second or more between two acquisitions.             *)
(***************************************************************************)
Fairness ==
    /\ WF_vars(Discovery) /\ WF_vars(Checker)
    /\ SF_vars(DUpdate) /\ SF_vars(TCheck)
    /\ WF_vars(Joined)
    /\ WF_vars(Tick)

FairSpec == Spec /\ Fairness

--------------------------------------------------------------------------------
(* Properties.                                                              *)

\* The thread whose notification is in progress.
Notifying(t) == pc[t] \in {"notify", "callback"}
Calling(t) == pc[t] = "callback"

\* Each mutex is held by exactly the thread that stands where the code holds it:
\* the poll loop owns the sockets from the first recvfrom to the end of the
\* sleep, the table and the listener included when it notifies; the checker owns
\* the table for a whole pass.
LockDiscipline ==
    /\ socketsMutex # "tmo"
    /\ socketsMutex = "disc" <=>
            pc["disc"] \in {"poll", "update", "notify", "callback", "sleep"}
    /\ devicesMutex = "disc" <=> pc["disc"] \in {"notify", "callback"}
    /\ devicesMutex = "tmo" <=> pc["tmo"] \in {"scan", "notify", "callback"}
    /\ \A t \in Thread : callbacksMutex = t <=> Calling(t)

\* Once unregister_callback has returned, the listener is not running and is
\* not called again: it may be destroyed.  (notify_callbacks, unregister_callback)
NoCallbackAfterUnregister == (\E t \in Thread : Calling(t)) => registered

\* The DeviceInfo the listener is handed by reference does not change under it,
\* nor does any other entry, whichever thread called it: update_device and
\* check_device_timeouts notify with devices_mutex_ held.
TableFrozenDuringCallback ==
    [][(\E t \in Thread : Calling(t)) => devices' = devices]_vars

\* The table as StatusFeed sees it, and the event a notification announces.
feedStatus == [d \in Did |-> devices[d].status]
feedEvent ==
    IF Notifying("disc") THEN <<subject["disc"], devices[subject["disc"]].change>>
    ELSE IF Notifying("tmo") THEN <<subject["tmo"], devices[subject["tmo"]].change>>
    ELSE <<"none", "none">>

Feed == INSTANCE StatusFeed WITH status <- feedStatus, event <- feedEvent

\* The listener is told what happened, when it happened, in order, once:
\* discovery_loop and check_device_timeouts together implement StatusFeed.
ImplementsFeed == Feed!Spec

\* stop() returns: neither thread is stuck on a mutex or in a loop when
\* running_ has been cleared, so both joins end.
StopReturns == stopping ~> ~stopping

\* A device that stays silent past the timeout is reported OFFLINE to the
\* listener, unless it answers first, discovery is stopped or nobody listens.
SilentReported ==
    \A d \in Did :
        (running /\ devices[d].status = "online" /\ age[d] >= Timeout)
            ~> \/ Calling("tmo") /\ subject["tmo"] = d /\ devices[d].change = "OFFLINE"
               \/ age[d] = 0 \/ ~running \/ ~registered
================================================================================
