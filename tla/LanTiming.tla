------------------------------- MODULE LanTiming -------------------------------
(***************************************************************************)
(* LanDiscovery on a machine that keeps up, with the devices it listens    *)
(* to: a thread that can run does so before the next second, every device  *)
(* answers each broadcast within a second from one place, except those     *)
(* that may fall silent.  Discovery is never stopped: main() ends in an    *)
(* endless sleep.  This is where the numbers of the code (scan interval,   *)
(* device timeout, checker period, length of a listener call) meet.        *)
(***************************************************************************)
EXTENDS LanDiscovery, FiniteSets

CONSTANTS
    Responsive,     \* devices that answer every broadcast
    HomeIp,         \* where each device answers from
    HomeIface

ASSUME HomeAssumption ==
    /\ Responsive \subseteq Did
    /\ HomeIp \in [Did -> Ip]
    /\ HomeIface \in [Did -> Iface]
ASSUME FiniteAssumption == IsFiniteSet(Did)

\* The listener's one wait is a request to the cloud, which ends after 30 s.
ASSUME CallbackAssumption == MaxCallback < Timeout

VARIABLE owed       \* devices that have still to answer the last broadcast

timedVars == <<vars, owed>>

\* A thread that can take a step, as opposed to one that sleeps, that is in the
\* listener, or that waits for a mutex.
CanRun(t) ==
    \/ pc[t] \in {"outer", "inner", "poll", "test", "scan", "notify"}
    \/ pc[t] \in {"delay", "sleep", "callback"} /\ timer[t] = 0
    \/ pc[t] \in {"probe", "lock"} /\ socketsMutex = "free"
    \/ pc[t] \in {"update", "check"} /\ TableFree

TimedInit == Init /\ owed = {}

Broadcast == DProbe /\ owed' = Did

AnswerProbe(d) ==
    /\ d \in owed
    /\ owed' = owed \ {d}
    /\ \/ Arrive(HomeIface[d], [did |-> d, ip |-> HomeIp[d]])
       \/ Len(inbox[HomeIface[d]]) = InboxCap /\ UNCHANGED vars

FallSilent(d) ==
    /\ d \in owed \ Responsive
    /\ owed' = owed \ {d}
    /\ UNCHANGED vars

Second ==
    /\ \A t \in Thread : ~CanRun(t)
    /\ owed \cap Responsive = {}
    /\ owed' = {}
    /\ Tick

Other ==
    /\ \/ \E n \in 0..StartDelay : Start(Iface, n)
       \/ RegisterCallback
       \/ Discovery /\ pc["disc"] # "probe"
       \/ Checker
    /\ UNCHANGED owed

TimedNext ==
    \/ Broadcast
    \/ \E d \in Did : AnswerProbe(d) \/ FallSilent(d)
    \/ Second
    \/ Other

TimedSpec == TimedInit /\ [][TimedNext]_timedVars

\* A device that answers every broadcast is never declared offline, nor found due
\* to be, whatever the other threads and devices do: the refresh of last_seen, the
\* scan interval that doubles up to its ceiling and the one-datagram-a-second poll
\* loop keep ahead of device_timeout_.
ResponsiveStaysOnline ==
    \A d \in Responsive : devices[d].status # "offline" /\ d \notin due

\* How long the listener may take for one event of each device of S.
CallsAbout(S) == MaxCallback * Cardinality(S)

\* How stale the entry of d may be beyond the timeout: a checker period, and the
\* listener calls about the other devices.  Each may have gone offline in the pass
\* that came a moment too early for d, have come back while the checker waited for
\* the table, and go offline in the pass that finds d; one that always answers can
\* only appear.
Slack(d) ==
    CheckPeriod + CallsAbout(Did \ {d}) + 2 * CallsAbout((Did \ Responsive) \ {d})

\* The table is not older than it says: an entry is not shown online once its
\* device has been silent for the timeout and the slack of the checker.
OnlineIsFresh ==
    \A d \in Did : devices[d].status = "online" => age[d] < Timeout + Slack(d)
================================================================================
