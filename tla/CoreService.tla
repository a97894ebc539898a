------------------------------ MODULE CoreService ------------------------------
(***************************************************************************)
(* What brings the Core up and down: the calls of core/config.go,          *)
(* core/lifecycle.go, core/exit.go and the entry points of core/lib.go,    *)
(* each on a goroutine of its own.  Their sections run under configMu, but *)
(* isInit and isRunning are also read and written without it.              *)
(*                                                                         *)
(* A goroutine's step ends where another may see what it did: taking or    *)
(* giving back configMu, an atomic flag, the route epoch, the listeners.   *)
(* mihomo's tunnel, listeners and resolver are external: the model keeps   *)
(* which settings they run with.  The TUN handle is AndroidBridge's.       *)
(***************************************************************************)
EXTENDS FiniteSets

CONSTANTS
    Threads,      \* goroutines that may run calls at once
    Main,         \* the goroutine of the clean-up at exit
    Ports,        \* settings the listeners are opened with
    DefaultPort,  \* the one a config is loaded with
    Nothing

ASSUME ServiceAssumption ==
    /\ Main \notin Threads /\ DefaultPort \in Ports
    /\ Nothing \notin Threads \cup {Main} \cup Ports \cup [port : Ports, access : BOOLEAN]

VARIABLES
    android,      \* the build, fixed at the start
    pc,           \* where each goroutine is
    quick,        \* goroutines that run QuickSetup
    configMu,     \* its holder
    isInit, isRunning,
    config,       \* currentConfig: Nothing, or its settings
    live,         \* the settings mihomo runs with; port Nothing: not listening
    probe,        \* the probe that is out: sent over what there is now (current), before a
                  \* reset (old) or before an apply or an update brought listeners up
                  \* (passed); dropped: the epoch has moved since
    process       \* the process: serving, ending, over

flags == <<isInit, isRunning>>
core  == <<configMu, flags, config, live, probe>>
serviceVars == <<android, pc, quick, core, process>>

\* What a load gives, the fallback of a failed one among them; the host's own
\* settings come with the updates.
Settings == [port : Ports, access : BOOLEAN]
Loaded   == {s \in Settings : s.port = DefaultPort}
ServiceCalls ==
    IF android
    THEN {"init", "setup", "update", "start", "stop", "startTun", "stopTun",
          "ifStopped", "ifRunning", "quickInit"}
    ELSE {"init", "setup", "update", "start", "stop"}

ServiceInit ==
    /\ android \in BOOLEAN
    /\ pc = [t \in Threads \cup {Main} |-> "idle"] /\ quick = {}
    /\ configMu = Nothing /\ isInit = FALSE /\ isRunning = FALSE
    /\ config = Nothing
    /\ live = [port |-> Nothing, access |-> FALSE]
    /\ probe = "none" /\ process = "serving"

---------------------------------------------------------------------------
(* Steps of a goroutine *)

Moves(t, from, to) == pc[t] = from /\ pc' = [pc EXCEPT ![t] = to]
Lock(t)   == configMu = Nothing /\ configMu' = t
Unlock(t) == configMu = t /\ configMu' = Nothing
Keep(t)   == configMu = t /\ UNCHANGED configMu

\* dispatchMethodCall and the exported functions: a call takes a free goroutine.
Call(t, c) ==
    /\ t \in Threads /\ process = "serving"
    /\ Moves(t, "idle", c)
    /\ quick' = IF c = "quickInit" THEN quick \cup {t} ELSE quick
    /\ UNCHANGED <<android, core, process>>

\* Where a call ends: QuickSetup answers, the clean-up lets the process end.
EndsQuick(t) == quick' = quick \ {t}
Inner   == UNCHANGED <<android, quick, process>>
Outer   == UNCHANGED <<android, process>>

\* bumpRouteEpoch: a probe that is out carries an older epoch from here on.
Bump == probe' = IF probe = "none" THEN "none" ELSE "dropped"

\* What a probe left over is no longer what there is, and the epoch is to say so.
Outdate == probe' = IF probe \in {"current", "passed"} THEN "old" ELSE probe

\* The listeners come up, or others, in a call that resets nothing for it.
Passes == probe' = IF probe = "current" /\ live'.port # live.port THEN "passed" ELSE probe

\* updateListeners: nothing while there is no config or no run.
ListensAlways(c) == IF c = Nothing THEN live.port ELSE c.port        \* faulty variant
Listens(c)       == IF c = Nothing \/ ~isRunning' THEN live.port ELSE c.port

---------------------------------------------------------------------------
(* handleInitClash, handleStartListener, handleStopListener *)

InitClash(t) ==
    /\ configMu = Nothing /\ isInit' = TRUE
    /\ UNCHANGED <<android, configMu, isRunning, config, live, probe, process>>
    /\ \/ Moves(t, "init", "idle") /\ EndsQuick(t)
       \/ Moves(t, "quickInit", "quickRun") /\ UNCHANGED quick

StartListener(t) ==
    /\ Moves(t, "start", "startBump") /\ Lock(t)
    /\ isRunning' = TRUE
    /\ live' = [live EXCEPT !.port = Listens(config)]
    /\ Outdate
    /\ Inner /\ UNCHANGED <<isInit, config>>

BumpNothing == UNCHANGED probe                                    \* faulty variant
StartBump   == Bump

StartListenerBump(t) ==
    /\ Moves(t, "startBump", "idle") /\ Unlock(t)
    /\ StartBump /\ EndsQuick(t)
    /\ Outer /\ UNCHANGED <<flags, config, live>>

StopKeepsRunning == UNCHANGED isRunning                           \* faulty variant
StopRunning      == isRunning' = FALSE

StopListener(t) ==
    /\ Moves(t, "stop", "stopClose") /\ Lock(t)
    /\ StopRunning
    /\ Inner /\ UNCHANGED <<isInit, config, live, probe>>

StopListenerClose(t) ==
    /\ Moves(t, "stopClose", "idle") /\ Unlock(t)
    /\ live' = [live EXCEPT !.port = Nothing]
    /\ EndsQuick(t)
    /\ Outer /\ UNCHANGED <<flags, config, probe>>

---------------------------------------------------------------------------
(* handleSetupConfig and applyConfig *)

Setup(t) ==
    /\ pc[t] = "setup"
    /\ IF isInit THEN Moves(t, "setup", "apply") /\ UNCHANGED quick
                 ELSE Moves(t, "setup", "idle") /\ EndsQuick(t)
    /\ Outer /\ UNCHANGED core

\* hub.ApplyConfig replaces the users and the controller whatever is listening.
Apply(t, loaded) ==
    /\ Moves(t, "apply", "applyBump") /\ Lock(t)
    /\ config' = loaded
    /\ live' = [loaded EXCEPT !.port = live.port]
    /\ Outdate
    /\ Inner /\ UNCHANGED flags

ApplyBump(t) ==
    /\ Moves(t, "applyBump", "applyListen") /\ Keep(t)
    /\ Bump
    /\ Inner /\ UNCHANGED <<flags, config, live>>

\* The epoch has moved before the listeners come up.
ApplyListen(t) ==
    /\ Moves(t, "applyListen", "idle") /\ Unlock(t)
    /\ UNCHANGED <<flags, config>>
    /\ live' = [live EXCEPT !.port = Listens(config)]
    /\ Passes
    /\ EndsQuick(t) /\ Outer

(* updateConfig *)

\* The settings given are patched into the config; the controller's secret and the
\* users, `access`, take effect at once (patchController, applyAuthentication), the
\* ports with the listeners.
ForgetsAccess(s) == [s EXCEPT !.access = live.access]             \* faulty variant
Patched(s)       == s

\* errConfigNotApplied
RefusedLocked(t) == Lock(t)                                       \* faulty variant
Refused(t)       == configMu = Nothing /\ UNCHANGED configMu

Update(t, s, ipv6) ==
    /\ IF config = Nothing
       THEN /\ Refused(t) /\ UNCHANGED <<flags, config, live, probe>>
            /\ Moves(t, "update", "idle") /\ EndsQuick(t)
       ELSE /\ Moves(t, "update", IF ipv6 THEN "switchListen" ELSE "updateListen") /\ Lock(t)
            /\ config' = s
            /\ live' = [Patched(s) EXCEPT !.port = live.port]
            /\ IF ipv6 THEN Outdate ELSE UNCHANGED probe
            /\ UNCHANGED <<flags, quick>>
    /\ Outer

\* Only an IPv6 switch is a reset (a switch of mode is a move: RoutedProbe); another
\* update brings listeners up under the epoch there is.
UpdateListen(t) ==
    /\ \/ Moves(t, "updateListen", "idle") /\ Unlock(t) /\ EndsQuick(t)
       \/ Moves(t, "switchListen", "switchBump") /\ Keep(t) /\ UNCHANGED quick
    /\ UNCHANGED <<flags, config>>
    /\ live' = [live EXCEPT !.port = Listens(config)]
    /\ Passes
    /\ Outer

UpdateBump(t) ==
    /\ Moves(t, "switchBump", "idle") /\ Unlock(t)
    /\ Bump
    /\ EndsQuick(t) /\ Outer /\ UNCHANGED <<flags, config, live>>

---------------------------------------------------------------------------
(* The entry points of lib.go *)

\* QuickSetup, between its handleInitClash and its handleSetupConfig.
QuickRun(t) ==
    /\ Moves(t, "quickRun", "setup")
    /\ isRunning' = TRUE
    /\ Inner /\ UNCHANGED <<configMu, isInit, config, live, probe>>

\* StartListener and StopListener look at isRunning before they take configMu.
IfStopped(t) ==
    /\ pc[t] = "ifStopped"
    /\ Moves(t, "ifStopped", IF isRunning THEN "idle" ELSE "start")
    /\ Inner /\ UNCHANGED core

IfRunning(t) ==
    /\ pc[t] = "ifRunning"
    /\ Moves(t, "ifRunning", IF isRunning THEN "stop" ELSE "idle")
    /\ Inner /\ UNCHANGED core

\* handleStartTun, under configMu while it opens the TUN: it fails, or the
\* device's connections go through it from here on.
StartTun(t, opened) ==
    /\ Moves(t, "startTun", IF opened THEN "tunUp" ELSE "idle")
    /\ configMu = Nothing
    /\ IF opened THEN Outdate ELSE UNCHANGED probe
    /\ Inner /\ UNCHANGED <<configMu, flags, config, live>>

\* The rest of StartTun: the listeners come up, or the epoch moves.
TunUp(t) ==
    /\ pc[t] = "tunUp"
    /\ IF isRunning THEN Moves(t, "tunUp", "idle") /\ Bump
                    ELSE Moves(t, "tunUp", "start") /\ UNCHANGED probe
    /\ Inner /\ UNCHANGED <<configMu, flags, config, live>>

StopTun(t) ==
    /\ Moves(t, "stopTun", "ifRunning")
    /\ Inner /\ UNCHANGED core

---------------------------------------------------------------------------
(* The clean-up at exit: handleShutdown under releaseOnExit *)

\* serve read the end of the stream, or a signal came.  Android's process has none.
End ==
    /\ ~android /\ process = "serving"
    /\ IF isInit THEN process' = "ending" /\ Moves(Main, "idle", "shutdown")
                 ELSE process' = "over" /\ UNCHANGED pc
    /\ UNCHANGED <<android, quick, core>>

Shutdown ==
    /\ Moves(Main, "shutdown", "shutdownClose") /\ Lock(Main)
    /\ isRunning' = FALSE
    /\ Inner /\ UNCHANGED <<isInit, config, live, probe>>

ShutdownClose ==
    /\ Moves(Main, "shutdownClose", "freeMemory") /\ Unlock(Main)
    /\ isInit' = FALSE /\ config' = Nothing
    /\ live' = [live EXCEPT !.port = Nothing]
    /\ Inner /\ UNCHANGED <<isRunning, probe>>

\* handleForceGC, and the process is over: the other goroutines with it.
ProcessOver ==
    /\ Moves(Main, "freeMemory", "idle")
    /\ process' = "over"
    /\ UNCHANGED <<android, quick, core>>

\* exitCleanupTimeout
OverLate ==
    /\ process = "ending" /\ process' = "late"
    /\ UNCHANGED <<android, pc, quick, core>>

---------------------------------------------------------------------------

\* A probe leaves with the epoch and over the network of this moment.
SendProbe ==
    /\ probe \in {"none", "passed", "dropped"} /\ probe' = "current"
    /\ UNCHANGED <<android, pc, quick, configMu, flags, config, live, process>>

Steps(t) ==
    \/ InitClash(t) \/ StartListener(t) \/ StartListenerBump(t)
    \/ StopListener(t) \/ StopListenerClose(t)
    \/ Setup(t) \/ \E s \in Loaded : Apply(t, s)
    \/ ApplyBump(t) \/ ApplyListen(t)
    \/ \E s \in Settings, ipv6 \in BOOLEAN : Update(t, s, ipv6)
    \/ UpdateListen(t) \/ UpdateBump(t)
    \/ QuickRun(t) \/ IfStopped(t) \/ IfRunning(t)
    \/ \E opened \in BOOLEAN : StartTun(t, opened)
    \/ TunUp(t) \/ StopTun(t)

Cleanup == Shutdown \/ ShutdownClose \/ ProcessOver
Alive   == process \in {"serving", "ending"}

ServiceNext ==
    /\ Alive
    /\ \/ \E t \in Threads : Steps(t) \/ \E c \in ServiceCalls : Call(t, c)
       \/ End \/ Cleanup \/ OverLate
       \/ SendProbe

\* A goroutine that can go on does; sync.Mutex starves nobody.
ServiceFairness ==
    /\ \A t \in Threads : SF_serviceVars(Alive /\ Steps(t))
    /\ SF_serviceVars(Alive /\ Cleanup)

ServiceSpec == ServiceInit /\ [][ServiceNext]_serviceVars
ServiceFairSpec == ServiceSpec /\ ServiceFairness

---------------------------------------------------------------------------

\* What mihomo runs with is the config that was applied last, and it listens
\* exactly when a run is on, whenever no call is changing either: QuickSetup
\* announces its run before its config (lib.go:302).
QuickPending == \E t \in quick : pc[t] \in {"setup", "apply"}

LiveFollowsConfig ==
    configMu = Nothing /\ ~QuickPending =>
        /\ live.port = IF isRunning /\ config # Nothing THEN config.port ELSE Nothing
        /\ config # Nothing => live.access = config.access

\* No answer outlives a reset, a start that brings listeners and the TUN up, a config
\* that is applied or IPv6 switched: the epoch moves after it, or a call that is under
\* way still owes it (lifecycle.go:49, config.go:179, config.go:228, lib.go:278).
Owed == \E t \in Threads :
    pc[t] \in {"start", "startBump", "tunUp", "applyBump", "switchListen", "switchBump"}

ResetsDropProbes == probe = "old" => Owed

\* The same of everything that brings listeners or the TUN up.
ListenersDropProbes == probe \in {"old", "passed"} => Owed

\* Every call returns: no path keeps configMu, and none waits for another (config.go:153).
CallsReturn ==
    \A t \in Threads : pc[t] # "idle" ~> pc[t] = "idle" \/ ~Alive

\* A process that ended after its clean-up left no listener, the TUN with its
\* policy routes among them (exit.go:13).
CleanExit == process = "over" => live.port = Nothing
================================================================================
