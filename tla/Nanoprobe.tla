------------------------------ MODULE Nanoprobe ------------------------------
(***************************************************************************)
(* A nanoprobe (clientlib/nanoprobe.c, nanoprobe/nanomain.c): it discovers *)
(* its network configuration, asks the CMA for its own configuration until *)
(* it has it, obeys the CMA, reports on its peers, and shuts down when it  *)
(* gets a signal.  Everything runs from one main loop, so that each        *)
(* callback, timer and command is one step.                                *)
(***************************************************************************)
EXTENDS HbListener, HbSender, Discovery

CONSTANTS
    InitDiscover,   \* the instance that nano_startupidle discovers
    OsInstance,     \* the instance that _nano_initial_discovery discovers
    CmdInstances,   \* instances the CMA may start or stop
    MaxCommands,    \* bound on the commands of the CMA after the configuration
    MaxHbTimers,    \* bound on the timers of the listeners
    MaxSenders,     \* bound on the list of senders
    MartianEvery,   \* a complaint per so many martians (10 in the code)
    SpawnMayFail    \* whether a child process may fail to start

ASSUME NanoAssumption ==
    /\ {InitDiscover, OsInstance} \cup CmdInstances \subseteq Instances
    /\ InitDiscover # OsInstance
    /\ MaxCommands \in Nat /\ MaxHbTimers \in Nat /\ MaxSenders \in Nat
    /\ MartianEvery \in Nat /\ MartianEvery > 1
    /\ SpawnMayFail \in BOOLEAN

VARIABLES
    state,          \* state of nano_startupidle
    reqTimer,       \* the timer that runs nano_reqconfig
    answer,         \* what is under way of the CMA's answer to a STARTUP
    cmaKnown,       \* nanofailreportaddr and the CMA addresses of the configuration
    connected,      \* nano_connected
    configComplete, \* nano_config_complete
    sigterm,        \* sigterm or sigint
    shuttingDown,   \* nano_shutting_down
    outdone,        \* activeconncount is zero, after closeall
    ended,          \* the main loop was left and nano_shutdown is done
    martians,       \* recent_martian_count, modulo MartianEvery
    commands,       \* commands obeyed so far
    deaths          \* history: HBDEAD for a peer since it was last heard or expected

hbVars == <<listeners, hbTimers, proxy, senders, martians, deaths>>
discVars == <<d, told>>
startVars == <<state, reqTimer, answer, cmaKnown, connected, configComplete>>
endVars == <<sigterm, shuttingDown, outdone, ended>>
vars == <<hbVars, discVars, startVars, endVars, commands>>

\* The framesets that answer a STARTUP.  Others of the answer are commands (Obey).
WholeAnswer == {"SETCONFIG", "ACKSTARTUP"}

NanoTypeOK ==
    /\ HbTypeOK /\ SenderTypeOK /\ DiscoveryTypeOK
    /\ state \in {"INIT", "WAIT", "DONE"}
    /\ answer \subseteq WholeAnswer
    /\ {reqTimer, cmaKnown, connected, configComplete, sigterm,
        shuttingDown, outdone, ended} \subseteq BOOLEAN
    /\ martians \in 0 .. MartianEvery - 1
    /\ commands \in 0 .. MaxCommands
    /\ deaths \in [Peers -> Nat]

Init ==
    /\ HbInit /\ SenderInit /\ DiscoveryInit
    /\ state = "INIT"
    /\ reqTimer = FALSE /\ answer = {}
    /\ cmaKnown = FALSE /\ connected = FALSE /\ configComplete = FALSE
    /\ sigterm = FALSE /\ shuttingDown = FALSE /\ outdone = FALSE /\ ended = FALSE
    /\ martians = 0 /\ commands = 0
    /\ deaths = [a \in Peers |-> 0]

Spawned == IF SpawnMayFail THEN BOOLEAN ELSE {TRUE}
FreeObjects == Objects \ InUse(d)

-----------------------------------------------------------------------------
\* Startup

\* _nano_initconfig_OK together with nano_config_complete
Configured == cmaKnown /\ configComplete

\* nano_startupidle in state INIT: the repeating discovery of the network
StartDiscovery ==
    /\ state = "INIT" /\ ~shuttingDown
    /\ \E o \in FreeObjects, s \in Spawned :
          d' = Schedule(d, o, InitDiscover, TRUE, s)
    /\ state' = "WAIT"
    /\ UNCHANGED <<hbVars, told, reqTimer, answer, cmaKnown, connected,
                   configComplete, endVars, commands>>

\* What the nanoprobe has not had yet of the answer
Awaited == {f \in WholeAnswer : IF f = "SETCONFIG" THEN ~connected ELSE ~configComplete}

\* What may be under way when a STARTUP was sent.  It may be lost, and so may either part of
\* its answer: the CMA may crash between them, it gives up the connection on which they
\* wait, and it sends no ACKSTARTUP while this connection is active.
AnswerTo == {answer \cup parts : parts \in SUBSET Awaited}

\* nano_startupidle once there is an output: asks for the first time, and
\* starts the timer that asks again.
StartAsking ==
    /\ state = "WAIT" /\ ~shuttingDown
    /\ d.value[InitDiscover] # NoOutput
    /\ state' = "DONE"
    /\ reqTimer' = TRUE
    /\ answer' \in AnswerTo
    /\ UNCHANGED <<hbVars, discVars, cmaKnown, connected, configComplete,
                   endVars, commands>>

\* nano_reqconfig from its timer, which ends when it need not ask any more
AskUnless(enough) ==
    /\ reqTimer /\ ~ended
    /\ IF shuttingDown \/ enough
       THEN reqTimer' = FALSE /\ UNCHANGED answer
       ELSE answer' \in AnswerTo /\ UNCHANGED reqTimer
    /\ UNCHANGED <<hbVars, discVars, state, cmaKnown, connected, configComplete,
                   endVars, commands>>

\* Mutant: the addresses of the configuration are enough.
ReqConfigUntilKnown == AskUnless(cmaKnown)

ReqConfig == AskUnless(Configured)

\* A part of the answer arrives.
Answered(f) ==
    /\ f \in answer
    /\ answer' = answer \ {f}

\* nanoobey_setconfig.  Only the first one starts the discovery of the system.  Another
\* one, as the CMA sends it for each STARTUP, may come at any time.
SetConfig ==
    /\ ~ended
    /\ IF connected THEN UNCHANGED <<d, answer>>
       ELSE /\ Answered("SETCONFIG")
            /\ \E o \in FreeObjects, s \in Spawned :
                  d' = Schedule(d, o, OsInstance, FALSE, s)
    /\ cmaKnown' = TRUE /\ connected' = TRUE
    /\ UNCHANGED <<hbVars, told, state, reqTimer, configComplete, endVars, commands>>

\* nanoobey_ackstartup
AckStartup ==
    /\ Answered("ACKSTARTUP") /\ ~ended
    /\ configComplete' = TRUE
    /\ UNCHANGED <<hbVars, discVars, state, reqTimer, cmaKnown, connected,
                   endVars, commands>>

-----------------------------------------------------------------------------
\* Commands of the CMA.  Those that start something are ignored in shutdown.

\* A command of an authorised CMA reaches its nanoobey function.  A command of
\* anyone else is acknowledged and dropped (authlistener.c), which changes nothing here.
Obey ==
    /\ connected /\ ~ended
    /\ commands < MaxCommands
    /\ commands' = commands + 1
    /\ UNCHANGED <<told, startVars, endVars>>

\* Mutant: goes on in shutdown.
ObeyStartAlways == Obey

ObeyStart == Obey /\ ~shuttingDown

SendHb(a) ==
    /\ ObeyStart
    /\ Len(senders) < MaxSenders
    /\ senders' = StartSend(senders, a)
    /\ UNCHANGED <<listeners, hbTimers, proxy, martians, deaths, d>>

\* nanoobey_expecthb: hblistener_new, the times of the command, and the new
\* listener takes the heartbeats of the transport.
Expect(a, dead, warn) ==
    /\ AddListTimers(listeners, hbTimers) <= MaxHbTimers
    /\ hbTimers' = AddListTimers(listeners, hbTimers)
    /\ listeners' = Listen(listeners, a, dead, warn)
    /\ proxy' = TRUE
    /\ deaths' = [deaths EXCEPT ![a] = 0]

ExpectHb(a, dead, warn) ==
    /\ ObeyStart
    /\ Expect(a, dead, warn)
    /\ UNCHANGED <<senders, martians, d>>

SendExpectHb(a, dead, warn) ==
    /\ ObeyStart
    /\ Len(senders) < MaxSenders
    /\ senders' = StartSend(senders, a)
    /\ Expect(a, dead, warn)
    /\ UNCHANGED <<martians, d>>

StopSendHb(a) ==
    /\ Obey
    /\ senders' = StopSend(senders, a)
    /\ UNCHANGED <<listeners, hbTimers, proxy, martians, deaths, d>>

\* The connection to the peer is closed too, which is no state of this module.
StopExpectHb(a) ==
    /\ Obey
    /\ listeners' = Unlisten(listeners, a)
    /\ deaths' = [deaths EXCEPT ![a] = 0]
    /\ UNCHANGED <<hbTimers, proxy, senders, martians, d>>

StopSendExpectHb(a) ==
    /\ Obey
    /\ listeners' = Unlisten(listeners, a)
    /\ deaths' = [deaths EXCEPT ![a] = 0]
    /\ senders' = StopSend(senders, a)
    /\ UNCHANGED <<hbTimers, proxy, martians, d>>

StartDiscover(i, repeats) ==
    /\ ObeyStart
    /\ \E o \in FreeObjects, s \in Spawned : d' = Schedule(d, o, i, repeats, s)
    /\ UNCHANGED hbVars

\* nanoobey_stopdiscover returns before it calls discovery_unregister: its
\* g_return_if_fail wants the name of the discovery to be NULL.
StopDiscover ==
    /\ Obey
    /\ UNCHANGED <<hbVars, d>>

Command ==
    \/ \E a \in SendTo : SendHb(a) \/ StopSendHb(a)
    \/ \E a \in Peers, dead \in Deadtimes, warn \in Warntimes : ExpectHb(a, dead, warn)
    \/ \E a \in Peers : StopExpectHb(a)
    \/ \E a \in Peers \cap SendTo : StopSendExpectHb(a)
    \/ \E a \in Peers \cap SendTo, dead \in Deadtimes, warn \in Warntimes :
          SendExpectHb(a, dead, warn)
    \/ \E i \in CmdInstances, repeats \in BOOLEAN : StartDiscover(i, repeats)
    \/ StopDiscover

-----------------------------------------------------------------------------
\* Heartbeats, timers and children

\* nanoprobe_report_upstream sends
Reporting == cmaKnown /\ ~shuttingDown

\* _real_martian_agent, which complains about the second of a series and then now
\* and again.  A quiet MARTIAN_TIMEOUT ends the series.
MartianAgent == martians' \in {1, (martians + 1) % MartianEvery}

\* _real_comealive_agent
ComealiveAgent(a) == deaths' = [deaths EXCEPT ![a] = 0]

\* _real_deadtime_agent for each of the peers
DeadtimeAgent(dead) ==
    deaths' = [a \in Peers |-> IF a \in dead /\ Reporting THEN deaths[a] + 1 ELSE deaths[a]]

\* A heartbeat of a.  One that is late, or in time, is only reported.
Heartbeat(a) ==
    /\ proxy /\ ~ended
    /\ listeners' = GotFrameSet(listeners, a)
    /\ IF Callback(listeners, a) = "martian" THEN MartianAgent ELSE UNCHANGED martians
    /\ IF Callback(listeners, a) = "comealive" THEN ComealiveAgent(a) ELSE UNCHANGED deaths
    /\ UNCHANGED <<hbTimers, proxy, senders, discVars, startVars, endVars, commands>>

\* _hblistener_gsourcefunc
ListenerTimer ==
    /\ hbTimers > 0 /\ ~ended
    /\ listeners' = CheckTimeouts(listeners)
    /\ hbTimers' = TimersAfterRun(listeners, hbTimers)
    /\ DeadtimeAgent(Dying(listeners))
    /\ UNCHANGED <<proxy, senders, martians, discVars, startVars, endVars, commands>>

Tick ==
    /\ ~ended
    /\ listeners' = Silence(listeners)
    /\ UNCHANGED <<hbTimers, proxy, senders, martians, deaths, discVars, startVars,
                   endVars, commands>>

\* _discovery_rediscover
DiscoveryTimer(o) ==
    /\ o \in Ticking(d) /\ ~ended
    /\ \E s \in Spawned : d' = Rediscover(d, o, s)
    /\ UNCHANGED <<hbVars, told, startVars, endVars, commands>>

\* The child of a discovery exits, with an output or with none to use.
ChildExit(o, out) ==
    /\ o \in Running(d) /\ ~ended
    /\ d' = ChildWatch(d, o, out, cmaKnown)
    /\ told' = IF out # NoOutput /\ IsNews(d, o, out) /\ cmaKnown
               THEN [told EXCEPT ![d.obj[o].name] = out] ELSE told
    /\ UNCHANGED <<hbVars, startVars, endVars, commands>>

-----------------------------------------------------------------------------
\* Shutdown

\* catch_a_signal
Signal ==
    /\ ~sigterm /\ ~ended
    /\ sigterm' = TRUE
    /\ UNCHANGED <<hbVars, discVars, startVars, shuttingDown, outdone, ended, commands>>

\* nano_shutdown, which main calls when the main loop is left
NanoShutdown ==
    /\ ended' = TRUE
    /\ senders' = StopAllSenders
    /\ listeners' = ShutdownListeners

\* nano_initiate_shutdown.  Without a CMA the main loop ends at once.
InitiateShutdown ==
    /\ shuttingDown' = TRUE
    /\ IF connected
       THEN d' = UnregisterAll(d) /\ UNCHANGED <<senders, listeners, ended>>
       ELSE NanoShutdown /\ UNCHANGED d

\* check_for_signals
CheckForSignals ==
    /\ sigterm /\ ~shuttingDown /\ ~ended
    /\ InitiateShutdown
    /\ UNCHANGED <<hbTimers, proxy, martians, deaths, told, startVars, sigterm, outdone,
                   commands>>

\* The connections that closeall shuts down are down: FsProtocol shows that they get there.
OutputAcked ==
    /\ shuttingDown /\ ~outdone /\ ~ended
    /\ outdone' = TRUE
    /\ UNCHANGED <<hbVars, discVars, startVars, sigterm, shuttingDown, ended, commands>>

\* Mutant: waits for the heartbeats to stop, too.
ShutdownPollWaitsForSenders ==
    /\ outdone /\ ~ended /\ senders = StopAllSenders
    /\ ended' = TRUE
    /\ listeners' = ShutdownListeners
    /\ UNCHANGED <<senders, hbTimers, proxy, martians, deaths, discVars, startVars, sigterm,
                   shuttingDown, outdone, commands>>

\* shutdown_when_outdone leaves the main loop.
ShutdownPoll ==
    /\ outdone /\ ~ended
    /\ NanoShutdown
    /\ UNCHANGED <<hbTimers, proxy, martians, deaths, discVars, startVars, sigterm,
                   shuttingDown, outdone, commands>>

-----------------------------------------------------------------------------
Next ==
    \/ StartDiscovery \/ StartAsking \/ ReqConfig
    \/ SetConfig \/ AckStartup
    \/ Command
    \/ \E a \in Peers : Heartbeat(a)
    \/ ListenerTimer \/ Tick
    \/ \E o \in Objects : DiscoveryTimer(o)
    \/ \E o \in Objects, out \in Outputs \cup {NoOutput} : ChildExit(o, out)
    \/ Signal \/ CheckForSignals \/ OutputAcked \/ ShutdownPoll

Spec == Init /\ [][Next]_vars

\* The main loop runs what is due; children exit, though perhaps with no output;
\* connections close.  A STARTUP is promised nothing: of infinitely many, some are
\* answered by a part that was awaited and that arrives.
Fairness ==
    /\ WF_vars(StartDiscovery \/ StartAsking)
    /\ WF_vars(SetConfig \/ AckStartup)
    /\ WF_vars(ListenerTimer) /\ WF_vars(Tick)
    /\ WF_vars(CheckForSignals \/ OutputAcked \/ ShutdownPoll)
    /\ \A o \in Objects :
         WF_vars(DiscoveryTimer(o)) /\ SF_vars(\E out \in Outputs : ChildExit(o, out))
    /\ SF_vars(ReqConfig /\ answer' # answer)

FairSpec == Spec /\ Fairness

-----------------------------------------------------------------------------
\* Properties

\* The CMA was told of a death exactly once when a peer has timed out, and not
\* at all when it has not, unless the nanoprobe was shutting down by then.
DeathToldOnce ==
    ~shuttingDown =>
        \A a \in Peers :
            deaths[a] = IF listeners[a].status = "HbPacketsTimedOut" THEN 1 ELSE 0

\* While it shuts down, a nanoprobe starts no sender, listener or discovery,
\* whatever the CMA asks for and whichever timers are left.
NothingStartsInShutdown ==
    [][shuttingDown =>
          /\ Len(senders') <= Len(senders)
          /\ Addresses(listeners') \subseteq Addresses(listeners)
          /\ Running(d') \subseteq Running(d)]_vars

\* A discovery is held by what can still call it, the table and a running child,
\* and by nothing else: none is lost while it is registered, none stays behind when
\* it is not, whichever objects displaced each other under one name meanwhile.
ReferencesAreHeld ==
    \A o \in Objects :
        /\ d.obj[o].refs = Cardinality({i \in Instances : d.table[i] = o})
                           + (IF d.obj[o].child THEN 1 ELSE 0)
        /\ d.obj[o].timer => d.obj[o].refs > 0

\* An output that counts as sent is the one the CMA has, though it may have come
\* before the CMA was known or from an object that was displaced (_discovery_sendjson).
ChangeIsReported ==
    \A o \in InUse(d) :
        d.obj[o].sentyet => told[d.obj[o].name] = d.value[d.obj[o].name]

\* A nanoprobe becomes configured or is told to end, though STARTUPs are lost, the CMA
\* loses either part of any answer, and the first discovery may give nothing: it
\* asks (nano_reqconfig) until it has both parts, whichever comes first.
GetsConfigured == <>(Configured \/ shuttingDown)

\* A peer that stays silent for longer than its deadtime is found to be dead.
SilenceIsNoticed ==
    \A a \in Peers :
        a \in Dying(listeners) ~> (a \notin Dying(listeners) \/ ended)

\* A nanoprobe that gets a signal ends.
SignalEnds == sigterm ~> ended
=============================================================================
