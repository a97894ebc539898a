---------------------------- MODULE DesktopLifecycle ----------------------------
(***************************************************************************)
(* DesktopCoreLifecycle (lib/core/desktop/lifecycle.dart): the reconciler  *)
(* that turns the latest of the start, restart, stop and close commands    *)
(* into one Core process and one IPC session, together with the transport  *)
(* it binds (lib/core/desktop/transport.dart), the accept loop behind it   *)
(* (plugins/rust_api/rust/src/ipc/server.rs) and the Core processes        *)
(* themselves, which only appear through the launcher and lease contract.  *)
(*                                                                         *)
(* A Dart isolate is single-threaded.  The worker (_runWorker) is a        *)
(* sequence of segments between awaits; pc names the await or the          *)
(* continuation it is at.  An await of a process, a socket or a timer is   *)
(* ended by an event of the event loop, and no such event is taken while a *)
(* continuation is due: microtasks run first (see Parked).  A caller of    *)
(* Submit may be a microtask too, so Submit only waits for the labels that *)
(* the code reaches without leaving the segment (Synchronous).             *)
(***************************************************************************)
EXTENDS Naturals, Sequences, FiniteSets

CONSTANTS
    MaxRevision,  \* bound: commands submitted in a behaviour
    Lease,        \* Core processes a behaviour may spawn, by their lease
    VerifyPid,    \* verifyPeerPid: TRUE on Windows only
    Microtasks,   \* whether commands may also come between two microtasks
    None          \* null

ASSUME BoundsAssumption == /\ MaxRevision \in Nat
                           /\ VerifyPid \in BOOLEAN
                           /\ Microtasks \in BOOLEAN
                           /\ None \notin Lease

VARIABLES
    asked,        \* targets of the commands submitted, by revision
    outcome,      \* what became of each command; "pending" while in _pending
    pc,           \* where the worker is
    intent,       \* revision the worker is reconciling
    achieved,     \* the achievement _reconcile returned
    allow,        \* allowUnconfirmedExit of the stop in progress
    waiter,       \* _TransportConnectionWaiter: whether and how it settled
    heard,        \* the connection it settled with
    lease,        \* process of the start in progress, until it is released
    phase,        \* _state
    session,      \* _session
    disconnected, \* whether _sessionDisconnect completed
    unconfirmed,  \* _unconfirmedLease
    recovery,     \* lease _unexpectedDisconnectOperation is stopping
    wire,         \* the bound transport: its state
    conn,         \* its _connection, with the process at the other end
    generation,   \* its _connectionGeneration
    backlog,      \* processes connected to the socket and not accepted yet
    proc,         \* Core processes, by lease
    exited        \* leases whose stop returned exitConfirmed

intents   == <<asked, outcome>>
worker    == <<pc, intent, achieved, allow, waiter, heard, lease>>
core      == <<phase, session, disconnected, unconfirmed, recovery>>
transport == <<wire, conn, generation, backlog>>
processes == <<proc, exited>>
vars      == <<intents, worker, core, transport, processes>>

Targets  == {"running", "restarted", "stopped", "closed"}
Outcomes == {"pending", "applied", "coalesced", "superseded", "failed"}
Phases   == {"idle", "starting", "running", "stopping", "failed", "closed"}
Wires    == {"idle", "starting", "ready", "connected", "failed", "closed"}

revision == Len(asked)
desired  == IF asked = <<>> THEN "stopped" ELSE asked[Len(asked)]
pending  == {r \in DOMAIN outcome : outcome[r] = "pending"}
terminalRequested == desired = "closed"
wantsRunning      == desired \in {"running", "restarted"}
target   == IF intent = 0 THEN "stopped" ELSE asked[intent]
spawned  == {l \in Lease : proc[l] # "none"}

Awaits == {"recovering", "cleanup", "stop", "grace", "replaceStop",
           "replaceStart", "open", "resolve", "launch", "spawned", "connection",
           "releaseQuiet", "releaseFailed", "closing"}
Synchronous == {"top", "dispatch", "start"}
Resumptions == {"stopped", "abandoned", "settle", "error"}

\* The worker waits for an event, so the event loop may deliver one.
Parked ==
    \/ pc = "off"
    \/ pc = "recovering" /\ recovery # None
    \/ pc = "open" /\ wantsRunning /\ wire = "starting"
    \/ pc = "connection" /\ wantsRunning /\ waiter = "waiting"
    \/ pc = "grace" /\ ~disconnected
    \/ pc \in Awaits \ {"recovering", "open", "connection", "grace"}

Init ==
    /\ asked = <<>> /\ outcome = <<>>
    /\ pc = "off" /\ intent = 0 /\ achieved = "none" /\ allow = FALSE
    /\ waiter = "none" /\ heard = None /\ lease = None
    /\ phase = "idle" /\ session = None /\ disconnected = FALSE
    /\ unconfirmed = None /\ recovery = None
    /\ wire = "idle" /\ conn = None /\ generation = 0 /\ backlog = <<>>
    /\ proc = [l \in Lease |-> "none"] /\ exited = {}

---------------------------------------------------------------------------
(* Commands *)

\* start(), restart(), stop() and close(); after a close every command is
\* refused with lifecycle_closed, and close() itself is memoized.
Submit(t) ==
    /\ ~terminalRequested
    /\ revision < MaxRevision
    /\ pc \notin Synchronous
    /\ pc \in Resumptions => Microtasks
    /\ asked' = Append(asked, t)
    /\ outcome' = Append(outcome, "pending")
    /\ pc' = IF pc = "off" THEN "top" ELSE pc
    /\ UNCHANGED <<intent, achieved, allow, waiter, heard, lease, core, transport, processes>>

Goto(label) == /\ pc' = label
               /\ UNCHANGED <<intent, achieved, allow, waiter, heard, lease>>

Return(result) == /\ pc' = "settle"
                  /\ achieved' = result
                  /\ UNCHANGED <<intent, allow, waiter, heard, lease>>

Clear == session' = None /\ disconnected' = FALSE

\* A lease.stop that ends with exitConfirmed: the process is gone.
ConfirmExit(l) == /\ proc' = [proc EXCEPT ![l] = "dead"]
                  /\ exited' = exited \cup {l}

\* Closing a transport: its peer and everything queued on its socket lose it.
CloseWire == wire' = "closed" /\ conn' = None /\ backlog' = <<>> /\ UNCHANGED generation

---------------------------------------------------------------------------
(* _runWorker and _reconcile *)

\* Faulty variants of Take: an intent nobody asked for; no second look at an
\* unconfirmed lease.
TakeNext == /\ intent' = revision + 1
            /\ pc' = IF unconfirmed # None THEN "cleanup" ELSE "dispatch"
            /\ UNCHANGED <<achieved, allow, waiter, heard, lease>>
TakeUnchecked == /\ intent' = revision
                 /\ pc' = "dispatch"
                 /\ UNCHANGED <<achieved, allow, waiter, heard, lease>>

\* The intent is read when the worker turns to it, not when it was submitted.
Take == /\ intent' = revision
        /\ pc' = IF unconfirmed # None THEN "cleanup" ELSE "dispatch"
        /\ UNCHANGED <<achieved, allow, waiter, heard, lease>>

\* The background stop of a lost session is awaited before the next intent.
RecoveryIgnored == FALSE       \* faulty variant
RecoveryDue     == recovery # None

LoopTop ==
    /\ pc = "top"
    /\ \/ pending = {} /\ Goto("off")
       \/ pending # {} /\ RecoveryDue /\ Goto("recovering")
       \/ pending # {} /\ ~RecoveryDue /\ Take
    /\ UNCHANGED <<intents, core, transport, processes>>

Recovered ==
    /\ pc = "recovering" /\ recovery = None
    /\ Take
    /\ UNCHANGED <<intents, core, transport, processes>>

\* _stopUnconfirmedLease: only a close goes on without the confirmation.
Cleanup ==
    /\ pc = "cleanup"
    /\ \/ /\ ConfirmExit(unconfirmed)
          /\ unconfirmed' = None
          /\ Goto("dispatch")
       \/ /\ IF target = "closed"
             THEN unconfirmed' = None /\ Goto("dispatch")
             ELSE UNCHANGED unconfirmed /\ Goto("error")
          /\ UNCHANGED processes
    /\ UNCHANGED <<intents, phase, session, disconnected, recovery, transport>>

BeginStop(allowed) ==
    /\ phase' = "stopping"
    /\ allow' = allowed
    /\ pc' = "stop"
    /\ UNCHANGED <<intent, achieved, waiter, heard, lease, session, disconnected,
                   unconfirmed, recovery>>

\* What _reconcile does once no session is left.
AfterStop ==
    \/ /\ target \in {"running", "restarted"}
       /\ Goto(IF wantsRunning THEN "start" ELSE "abandoned")
       /\ UNCHANGED <<core, transport>>
    \/ /\ target = "stopped"
       /\ phase' = IF desired = "stopped" THEN "idle" ELSE phase
       /\ Return("idle")
       /\ UNCHANGED <<session, disconnected, unconfirmed, recovery, transport>>
    \/ /\ target = "closed"
       /\ CloseWire
       /\ Goto("closing")
       /\ UNCHANGED core

\* A running session satisfies start(); any other session is stopped first.
\* Without one, a start goes on unconditionally and a restart asks again.
Dispatch ==
    /\ pc = "dispatch"
    /\ \/ /\ target = "running" /\ session # None /\ phase = "running"
          /\ Return("runningExisting")
          /\ UNCHANGED <<core, transport>>
       \/ /\ session # None
          /\ ~(target = "running" /\ phase = "running")
          /\ BeginStop(CASE target = "closed"  -> TRUE
                         [] target = "stopped" -> FALSE
                         [] OTHER              -> terminalRequested)
          /\ UNCHANGED transport
       \/ /\ session = None /\ target = "running"
          /\ Goto("start")
          /\ UNCHANGED <<core, transport>>
       \/ session = None /\ target # "running" /\ AfterStop
    /\ UNCHANGED <<intents, processes>>

Stopped ==
    /\ pc = "stopped"
    /\ AfterStop
    /\ UNCHANGED <<intents, processes>>

Closing ==
    /\ pc = "closing"
    /\ phase' = "closed"
    /\ Return("closed")
    /\ UNCHANGED <<intents, session, disconnected, unconfirmed, recovery,
                   transport, processes>>

Abandoned ==
    /\ pc = "abandoned"
    /\ phase' = IF desired = "stopped" THEN "idle" ELSE phase
    /\ Return("idle")
    /\ UNCHANGED <<intents, session, disconnected, unconfirmed, recovery,
                   transport, processes>>

---------------------------------------------------------------------------
(* _stopSession *)

StopReturns ==
    /\ pc = "stop"
    /\ \/ /\ ConfirmExit(session.lease)
          /\ IF disconnected THEN Clear /\ Goto("stopped")
                             ELSE Goto("grace") /\ UNCHANGED <<session, disconnected>>
       \/ /\ IF allow THEN Clear /\ Goto("stopped")
                      ELSE Goto("error") /\ UNCHANGED <<session, disconnected>>
          /\ UNCHANGED processes
    /\ UNCHANGED <<intents, phase, unconfirmed, recovery, transport>>

\* The disconnect had one turn of the event loop to arrive; without it the
\* transport cannot be trusted and is replaced, unless the app is closing.
GraceEnds ==
    /\ pc = "grace"
    /\ Clear
    /\ IF disconnected \/ terminalRequested
       THEN Goto("stopped") /\ UNCHANGED transport
       ELSE Goto("replaceStop") /\ CloseWire
    /\ UNCHANGED <<intents, phase, unconfirmed, recovery, processes>>

\* DesktopCoreTransportBinding.replace: the next transport starts its own
\* generation count.
FreshWire(state) == wire' = state /\ conn' = None /\ generation' = 0 /\ backlog' = <<>>

ReplacedAfterStop ==
    /\ pc = "replaceStop"
    /\ FreshWire("idle")
    /\ Goto("stopped")
    /\ UNCHANGED <<intents, core, processes>>

---------------------------------------------------------------------------
(* _startSession *)

BeginStart ==
    /\ pc = "start"
    /\ phase' = "starting"
    /\ \/ /\ wire \in {"failed", "closed", "connected"}
          /\ CloseWire
          /\ Goto("replaceStart")
       \/ /\ wire = "ready"
          /\ Goto("resolve")
          /\ UNCHANGED transport
       \/ /\ wire \in {"idle", "starting"}
          /\ wire' = "starting"
          /\ Goto("open")
          /\ UNCHANGED <<conn, generation, backlog>>
    /\ UNCHANGED <<intents, session, disconnected, unconfirmed, recovery, processes>>

ReplacedBeforeStart ==
    /\ pc = "replaceStart"
    /\ FreshWire("starting")
    /\ Goto("open")
    /\ UNCHANGED <<intents, core, processes>>

\* _ensureTransportReady: open() raced against intentChanged and its timeout.
OpenReturns ==
    /\ pc = "open"
    /\ \/ wire = "ready" /\ Goto("resolve")
       \/ wire \in {"starting", "failed"} /\ Goto("error")
       \/ ~wantsRunning /\ Goto("abandoned")
    /\ UNCHANGED <<intents, core, transport, processes>>

\* launcherResolver.resolve; the waiter listens from before the launch on.
Resolved ==
    /\ pc = "resolve"
    /\ \/ Goto("error")
       \/ ~wantsRunning /\ Goto("abandoned")
       \/ /\ wantsRunning
          /\ waiter' = "waiting"
          /\ pc' = "launch"
          /\ UNCHANGED <<intent, achieved, allow, heard, lease>>
    /\ UNCHANGED <<intents, core, transport, processes>>

CancelWaiter == waiter' = "none" /\ heard' = None

LaunchFails ==
    /\ pc = "launch"
    /\ pc' = "error"
    /\ CancelWaiter
    /\ UNCHANGED <<intents, intent, achieved, allow, lease, core, transport, processes>>

\* The process runs before launcher.start has returned its lease.
Spawn ==
    /\ pc = "launch"
    /\ \E l \in Lease \ spawned : /\ proc' = [proc EXCEPT ![l] = "alive"]
                                 /\ lease' = l
    /\ pc' = "spawned"
    /\ UNCHANGED <<intents, intent, achieved, allow, waiter, heard, core, transport, exited>>

Launched ==
    /\ pc = "spawned"
    /\ \/ wantsRunning /\ Goto("connection")
       \/ ~wantsRunning /\ Goto("releaseQuiet")
       \/ Goto("releaseFailed")                         \* session_mismatch
    /\ UNCHANGED <<intents, core, transport, processes>>

\* The timer of the waiter; it runs from before the launch.
WaiterTimeout ==
    /\ waiter = "waiting" /\ Parked
    /\ waiter' = "failed"
    /\ UNCHANGED <<intents, pc, intent, achieved, allow, heard, lease, core, transport, processes>>

AnyPeer      == TRUE           \* faulty variant
PeerVerified == VerifyPid => heard.peer = lease

\* A connection in hand and still wanted: the session runs.
Connected ==
    /\ pc = "connection" /\ waiter = "settled" /\ wantsRunning
    /\ PeerVerified
    /\ session' = [lease |-> lease, generation |-> heard.generation, peer |-> heard.peer]
    /\ disconnected' = FALSE
    /\ phase' = "running"
    /\ pc' = "settle" /\ achieved' = "runningFresh"
    /\ CancelWaiter /\ lease' = None
    /\ UNCHANGED <<intents, intent, allow, unconfirmed, recovery, transport, processes>>

\* No longer wanted, timed out, failed, or the wrong peer: release the lease.
NotConnected ==
    /\ pc = "connection"
    /\ \/ ~wantsRunning /\ Goto("releaseQuiet")
       \/ waiter = "failed" /\ Goto("releaseFailed")
       \/ waiter = "settled" /\ wantsRunning /\ ~PeerVerified /\ Goto("releaseFailed")
    /\ UNCHANGED <<intents, core, transport, processes>>

\* releaseLease and _cleanObsoleteLease.
Released ==
    /\ pc \in {"releaseQuiet", "releaseFailed"}
    /\ \/ /\ ConfirmExit(lease)
          /\ pc' = IF pc = "releaseQuiet" THEN "abandoned" ELSE "error"
          /\ UNCHANGED unconfirmed
       \/ /\ unconfirmed' = lease
          /\ pc' = "error"
          /\ UNCHANGED processes
    /\ CancelWaiter /\ lease' = None
    /\ UNCHANGED <<intents, intent, achieved, allow, phase, session, disconnected,
                   recovery, transport>>

---------------------------------------------------------------------------
(* The end of a round of _runWorker *)

\* Faulty variant: any end of a start is taken for a running Core.
SatisfiesLoosely(result, t) ==
    \/ t = "running" /\ result # "closed"
    \/ t = "restarted" /\ result = "runningFresh"
    \/ t = "stopped" /\ result = "idle"
    \/ t = "closed" /\ result = "closed"

Satisfies(result, t) ==
    \/ t = "running" /\ result \in {"runningExisting", "runningFresh"}
    \/ t = "restarted" /\ result = "runningFresh"
    \/ t = "stopped" /\ result = "idle"
    \/ t = "closed" /\ result = "closed"

SameTarget(first, last) == first = last     \* faulty variant

Coalesce(first, last) ==
    first = last \/ {first, last} \subseteq {"running", "restarted"}

\* Faulty variant: only the latest command is answered.
CompleteLatest == outcome' = [outcome EXCEPT ![revision] = "applied"]

\* _completeCommands(settled), where settled is the latest command.
CompleteCommands ==
    outcome' = [r \in DOMAIN outcome |->
        IF r \notin pending THEN outcome[r]
        ELSE IF r = revision THEN "applied"
        ELSE IF Coalesce(asked[r], desired) THEN "coalesced" ELSE "superseded"]

\* Faulty variant: the command that failed is not answered itself.
FailEarlier(last) ==
    outcome' = [r \in DOMAIN outcome |->
        IF r \in pending /\ r < last THEN "failed" ELSE outcome[r]]

FailCommands(last) ==
    outcome' = [r \in DOMAIN outcome |->
        IF r \in pending /\ r <= last THEN "failed" ELSE outcome[r]]

\* The achievement is held against the command that is the latest by now.
Settle ==
    /\ pc = "settle"
    /\ IF Satisfies(achieved, desired) THEN CompleteCommands ELSE UNCHANGED outcome
    /\ Goto("top")
    /\ UNCHANGED <<asked, core, transport, processes>>

Error ==
    /\ pc = "error"
    /\ IF revision = intent \/ desired # "closed"
       THEN FailCommands(intent) ELSE UNCHANGED outcome
    /\ phase' = IF revision = intent THEN "failed" ELSE phase
    /\ Goto("top")
    /\ UNCHANGED <<asked, session, disconnected, unconfirmed, recovery, transport, processes>>

---------------------------------------------------------------------------
(* The transport, the accept loop and the processes *)

Opened ==
    /\ wire = "starting" /\ Parked
    /\ wire' \in {"ready", "failed"}
    /\ UNCHANGED <<intents, worker, core, conn, generation, backlog, processes>>

\* Core dials the address it was started with, once.
Dial(l) ==
    /\ proc[l] = "alive"
    /\ wire \in {"ready", "connected"}
    /\ proc' = [proc EXCEPT ![l] = "dialed"]
    /\ backlog' = Append(backlog, l)
    /\ UNCHANGED <<intents, worker, core, wire, conn, generation, exited>>

\* Core crashes, or exits because it lost or never got its connection.
Exit(l) ==
    /\ proc[l] \in {"alive", "dialed"}
    /\ proc' = [proc EXCEPT ![l] = "dead"]
    /\ UNCHANGED <<intents, worker, core, transport, exited>>

\* accept_peers serves one peer at a time, in the order they connected, dead
\* or alive; _connect counts it and the waiter takes the first it hears of.
Accept ==
    /\ Parked
    /\ wire = "ready" /\ backlog # <<>>
    /\ wire' = "connected"
    /\ generation' = generation + 1
    /\ conn' = [generation |-> generation + 1, peer |-> Head(backlog)]
    /\ backlog' = Tail(backlog)
    /\ IF waiter = "waiting" THEN waiter' = "settled" /\ heard' = conn'
                             ELSE UNCHANGED <<waiter, heard>>
    /\ UNCHANGED <<intents, pc, intent, achieved, allow, lease, core, processes>>

\* Faulty variants: the process is left alone; the loss is not published.
LoseUnowned == Clear /\ phase' = "failed" /\ UNCHANGED recovery
LoseQuietly == recovery' = session.lease /\ UNCHANGED <<phase, session, disconnected>>

\* _handleUnexpectedDisconnect: nothing else is stopping a running session, so
\* the handler itself stops its process, in the background.
LoseRunning ==
    IF recovery # None \/ session = None
    THEN UNCHANGED <<phase, session, disconnected, recovery>>
    ELSE /\ Clear
         /\ phase' = "failed"
         /\ recovery' = session.lease

\* The peer is gone: _disconnect, then _handleTransportEvent.
Disconnect ==
    /\ Parked
    /\ conn # None /\ proc[conn.peer] = "dead"
    /\ wire' = "ready" /\ conn' = None
    /\ LET mine == session # None /\ session.generation = conn.generation
       IN  IF phase = "running" /\ mine
           THEN LoseRunning
           ELSE /\ disconnected' = (disconnected \/ mine)
                /\ UNCHANGED <<phase, session, recovery>>
    /\ UNCHANGED <<intents, worker, unconfirmed, generation, backlog, processes>>

\* An accept error or the end of the server: _fail.
WireFails ==
    /\ Parked
    /\ wire \in {"ready", "connected"}
    /\ wire' = "failed" /\ conn' = None /\ backlog' = <<>>
    /\ waiter' = IF waiter = "waiting" THEN "failed" ELSE waiter
    /\ IF phase = "running" THEN LoseRunning
                            ELSE UNCHANGED <<phase, session, disconnected, recovery>>
    /\ UNCHANGED <<intents, pc, intent, achieved, allow, heard, lease, unconfirmed,
                   generation, processes>>

\* The background stop of _handleUnexpectedDisconnect ends.
RecoveryEnds ==
    /\ recovery # None /\ Parked
    /\ recovery' = None
    /\ \/ ConfirmExit(recovery) /\ UNCHANGED unconfirmed
       \/ unconfirmed' = recovery /\ UNCHANGED processes
    /\ UNCHANGED <<intents, worker, phase, session, disconnected, transport>>

---------------------------------------------------------------------------
WorkerStep ==
    \/ LoopTop \/ Recovered \/ Cleanup \/ Dispatch \/ Stopped \/ Closing \/ Abandoned
    \/ StopReturns \/ GraceEnds \/ ReplacedAfterStop
    \/ BeginStart \/ ReplacedBeforeStart \/ OpenReturns \/ Resolved
    \/ LaunchFails \/ Spawn \/ Launched \/ Connected \/ NotConnected \/ Released
    \/ Settle \/ Error

Environment ==
    \/ Opened \/ Accept \/ Disconnect \/ WireFails
    \/ \E l \in Lease : Dial(l) \/ Exit(l)

Next ==
    \/ \E t \in Targets : Submit(t)
    \/ WorkerStep
    \/ WaiterTimeout
    \/ RecoveryEnds
    \/ Environment

\* Every await of the worker is bounded: the bind, the waiter, the process
\* stop and the helper's HTTP calls have timeouts, the rest is local.
Fairness == /\ WF_vars(WorkerStep)
            /\ WF_vars(WaiterTimeout)
            /\ WF_vars(RecoveryEnds)

Spec     == Init /\ [][Next]_vars
FairSpec == Spec /\ Fairness

---------------------------------------------------------------------------
Connection == [generation : Nat, peer : Lease]
Session    == [lease : Lease, generation : Nat, peer : Lease]

\* null is none of them.
ASSUME NullAssumption == None \notin Session

\* The fields have the values their declarations allow.
TypeOK ==
    /\ asked \in Seq(Targets)
    /\ outcome \in Seq(Outcomes) /\ Len(outcome) = Len(asked)
    /\ pc \in {"off"} \cup Awaits \cup Synchronous \cup Resumptions
    /\ intent \in 0..revision
    /\ achieved \in {"none", "runningExisting", "runningFresh", "idle", "closed"}
    /\ allow \in BOOLEAN /\ disconnected \in BOOLEAN
    /\ waiter \in {"none", "waiting", "failed", "settled"}
    /\ heard \in {None} \cup Connection
    /\ lease \in Lease \cup {None}
    /\ unconfirmed \in Lease \cup {None}
    /\ recovery \in Lease \cup {None}
    /\ phase \in Phases
    /\ session \in {None} \cup Session
    /\ wire \in Wires
    /\ conn \in {None} \cup Connection
    /\ generation \in Nat
    /\ backlog \in Seq(Lease)
    /\ proc \in [Lease -> {"none", "alive", "dialed", "dead"}]
    /\ exited \subseteq Lease

\* Processes some part of the lifecycle still answers for.
Held == {lease, unconfirmed, recovery} \cup {IF session = None THEN None ELSE session.lease}

\* Two Core processes are never out at once: one is only spawned when every
\* earlier one is confirmed to have exited (_unconfirmedLease, _reconcile).
OneCore == Cardinality(spawned \ exited) <= 1

\* A process that was spawned and not confirmed to have exited stays owned,
\* whatever path the worker left it on, until the application is closing.
NoOrphan == ~terminalRequested => spawned \ exited \subseteq Held

\* A running session is backed by a lease nobody has stopped or is stopping
\* (_handleUnexpectedDisconnect against _stopSession).
RunningIsOwned ==
    phase = "running" =>
        /\ session # None
        /\ session.lease \notin exited \cup {unconfirmed, recovery, lease}

\* The session that runs talks to the process its lease controls: startup
\* "waits for the matching connection" (.agents/architecture.md:262).
MatchingConnection == phase = "running" => session.peer = session.lease

\* A running session is connected: a disconnect is converted to a failure
\* (.agents/architecture.md:270).
RunningIsConnected ==
    phase = "running" /\ Parked => conn # None /\ conn.generation = session.generation

\* No command is left behind by the answer of a later one (_completeCommands
\* and _failCommands answer every earlier command too).
AnsweredInOrder == \A r, s \in DOMAIN outcome : r < s /\ r \in pending => s \in pending

\* Once closed is published nothing is held any more and nobody waits: the
\* recovery, the unconfirmed lease and the session were dealt with first.
ClosedIsFinal ==
    phase = "closed" => Held = {None} /\ (pc = "off" => pending = {})

\* What "applied" tells the caller of a command about the published state.
Applied(t) ==
    CASE t = "stopped" -> phase = "idle" /\ session = None
      [] t = "closed"  -> phase = "closed"
      [] OTHER         -> phase = "running" /\ session # None

AppliedTruly(targets) ==
    \A r \in DOMAIN outcome :
        outcome[r] = "pending" /\ outcome'[r] = "applied" /\ asked[r] \in targets
        => Applied(asked[r])

\* "applied" is only reported when it is so (_runWorker, _completeCommands).
AppliedIsTrue == [][AppliedTruly(Targets)]_vars

\* For every command but a stop it always is.
AppliedExceptStops == [][AppliedTruly(Targets \ {"stopped"})]_vars

\* When the commands end, the state comes to rest where the last one wanted
\* it, or failed: no phase such as starting or stopping is left published.
Converged ==
    /\ pc = "off"
    /\ CASE desired = "stopped" -> phase \in {"idle", "failed"}
         [] desired = "closed"  -> phase \in {"closed", "failed"}
         [] OTHER               -> phase \in {"running", "failed"}
Converges == <>[]Converged

\* The lifecycle implements what it promises; under fairness every command is
\* answered, whatever fails and whatever is asked meanwhile.
Promise == INSTANCE LatestIntent WITH cores <- spawned \ exited
KeepsPromise     == Promise!Spec
FairKeepsPromise == Promise!FairSpec
=============================================================================
