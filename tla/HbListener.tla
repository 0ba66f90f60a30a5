----------------------------- MODULE HbListener -----------------------------
(***************************************************************************)
(* The heartbeat listeners of a nanoprobe (clientlib/hblistener.c): one    *)
(* per peer it was told to expect heartbeats from.  Each entry point is an *)
(* operator from the listeners to the listeners it leaves; the callbacks   *)
(* it makes are told by operators of their own, so that the nanoprobe that *)
(* owns the listeners can act on them in the same step.                    *)
(***************************************************************************)
EXTENDS Naturals, FiniteSets

CONSTANTS
    Peers,      \* addresses heartbeats may come from
    Deadtimes,  \* deadtimes the CMA may ask for, in ticks
    Warntimes   \* warntimes the CMA may ask for, in ticks

ASSUME HbTimesAssumption ==
    /\ Deadtimes \subseteq Nat \ {0}
    /\ Warntimes \subseteq Nat \ {0}
    /\ Deadtimes # {} /\ Warntimes # {}
    /\ IsFiniteSet(Deadtimes) /\ IsFiniteSet(Warntimes)

VARIABLES
    listeners,  \* the list _hb_listeners, by listenaddr: there is at most one for each
    hbTimers,   \* timer sources that run _hblistener_gsourcefunc
    proxy       \* an HbListener is in the dispatch table of the transport

NotListening == [status |-> "none", silent |-> 0, dead |-> 0, warn |-> 0]

\* One tick more than the largest time: later than that makes no difference.
LongSilent == CHOOSE m \in {t + 1 : t \in Deadtimes \cup Warntimes} :
                 \A t \in Deadtimes \cup Warntimes : t < m

\* "silent" is the time since nexttime and warntime were last set, so that
\* now > nexttime is silent > dead.
Listener ==
    [status : {"HbPacketsBeingReceived", "HbPacketsTimedOut"},
     silent : 0 .. LongSilent, dead : Deadtimes, warn : Warntimes]

HbTypeOK ==
    /\ listeners \in [Peers -> Listener \cup {NotListening}]
    /\ hbTimers \in Nat
    /\ proxy \in BOOLEAN

HbInit ==
    /\ listeners = [a \in Peers |-> NotListening]
    /\ hbTimers = 0
    /\ proxy = FALSE

FindByAddress(ls, a) == ls[a].status # "none"
Addresses(ls) == {a \in Peers : FindByAddress(ls, a)}

\* hblistener_set_deadtime and hblistener_set_warntime
SetTimes(listener, dead, warn) ==
    [listener EXCEPT !.silent = 0, !.dead = dead, !.warn = warn]

\* A new listener displaces the one with the same address, whatever its status.
Listen(ls, a, dead, warn) ==
    [ls EXCEPT ![a] = SetTimes([@ EXCEPT !.status = "HbPacketsBeingReceived"], dead, warn)]

\* The timer is started when the list was empty.  The one of an earlier time
\* may still be there if it has not run since the list became empty.
AddListTimers(ls, timers) == IF Addresses(ls) = {} THEN timers + 1 ELSE timers

Unlisten(ls, a) == [ls EXCEPT ![a] = NotListening]

\* Those whose deadtime callback _hblistener_checktimeouts makes.
Dying(ls) ==
    {a \in Addresses(ls) :
        /\ ls[a].silent > ls[a].dead
        /\ ls[a].status = "HbPacketsBeingReceived"}

\* Mutant: the status is left as it was.
CheckTimeoutsForgets(ls) == ls

CheckTimeouts(ls) ==
    [a \in Peers |->
        IF a \in Dying(ls) THEN [ls[a] EXCEPT !.status = "HbPacketsTimedOut"] ELSE ls[a]]

\* Mutant: it stops when there is no peer left to time out.
TimersAfterRunAllDead(ls, timers) ==
    IF \A a \in Peers : ls[a].status # "HbPacketsBeingReceived" THEN timers - 1 ELSE timers

\* _hblistener_gsourcefunc goes on as long as there is a listener.
TimersAfterRun(ls, timers) == IF Addresses(ls) = {} THEN timers - 1 ELSE timers

\* The callback that _hblistener_got_frameset makes for a heartbeat from a.
Callback(ls, a) ==
    IF ~FindByAddress(ls, a) THEN "martian"
    ELSE IF ls[a].status = "HbPacketsTimedOut" THEN "comealive"
    ELSE IF ls[a].silent > ls[a].warn THEN "warntime"
    ELSE "heartbeat"

GotFrameSet(ls, a) ==
    IF FindByAddress(ls, a)
    THEN [ls EXCEPT ![a].status = "HbPacketsBeingReceived", ![a].silent = 0]
    ELSE ls

\* hblistener_shutdown: the list is emptied and the newest timer removed.
ShutdownListeners == [a \in Peers |-> NotListening]

\* A tick of the clock.
Silence(ls) ==
    [a \in Peers |->
        IF FindByAddress(ls, a) /\ ls[a].silent < LongSilent
        THEN [ls[a] EXCEPT !.silent = @ + 1]
        ELSE ls[a]]
=============================================================================
