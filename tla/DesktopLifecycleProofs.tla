------------------------- MODULE DesktopLifecycleProofs -------------------------
(***************************************************************************)
(* Proofs about DesktopCoreLifecycle, for every number of commands and     *)
(* Core processes: the types, the answering of commands in order, and who  *)
(* owns a Core process (OneCore, NoOrphan, RunningIsOwned).                *)
(***************************************************************************)
EXTENDS DesktopLifecycle, FiniteSetTheorems, TLAPS

Labels == {"off"} \cup Awaits \cup Synchronous \cup Resumptions
Owning == {"spawned", "connection", "releaseQuiet", "releaseFailed"}

(***************************************************************************)
(* TypeOK, strengthened by what must not be null where the code uses it.   *)
(***************************************************************************)
Present ==
    /\ pc \in {"stop", "grace"} => session # None /\ phase = "stopping"
    /\ pc = "cleanup" => unconfirmed # None
    /\ pc \in Owning => lease # None
    /\ waiter = "settled" => heard \in Connection

TypeInv == TypeOK /\ Present

(***************************************************************************)
(* The parts of TypeOK, so that a step only has to show what it touches.   *)
(***************************************************************************)
IntentsOK == /\ asked \in Seq(Targets) /\ outcome \in Seq(Outcomes)
             /\ Len(outcome) = Len(asked)
WorkerOK == /\ pc \in Labels /\ intent \in 0..revision
            /\ achieved \in {"none", "runningExisting", "runningFresh", "idle", "closed"}
            /\ allow \in BOOLEAN
            /\ waiter \in {"none", "waiting", "failed", "settled"}
            /\ heard \in {None} \cup Connection
            /\ lease \in Lease \cup {None}
CoreOK == /\ phase \in Phases /\ session \in {None} \cup Session
          /\ disconnected \in BOOLEAN
          /\ unconfirmed \in Lease \cup {None} /\ recovery \in Lease \cup {None}
TransportOK == /\ wire \in Wires /\ conn \in {None} \cup Connection
               /\ generation \in Nat /\ backlog \in Seq(Lease)
ProcessesOK == /\ proc \in [Lease -> {"none", "alive", "dialed", "dead"}]
               /\ exited \subseteq Lease

LEMMA TypeParts ==
    TypeOK <=> IntentsOK /\ WorkerOK /\ CoreOK /\ TransportOK /\ ProcessesOK
BY DEF TypeOK, IntentsOK, WorkerOK, CoreOK, TransportOK, ProcessesOK, Labels

LEMMA TypeInit == Init => TypeInv
<1> SUFFICES ASSUME Init PROVE TypeInv
    OBVIOUS
<1>1. IntentsOK /\ revision = 0 BY DEF Init, IntentsOK, revision
<1>2. WorkerOK
  <2>1. 0 \in 0..revision /\ "off" \in Labels /\ FALSE \in BOOLEAN
    BY <1>1 DEF Labels
  <2> QED BY <2>1 DEF Init, WorkerOK
<1>3. CoreOK BY DEF Init, CoreOK, Phases
<1>4. TransportOK BY DEF Init, TransportOK, Wires
<1>5. ProcessesOK BY DEF Init, ProcessesOK
<1>6. Present BY DEF Init, Present, Owning
<1> QED BY <1>1, <1>2, <1>3, <1>4, <1>5, <1>6, TypeParts DEF TypeInv

LEMMA ExitType ==
    ASSUME ProcessesOK, NEW l \in Lease, ConfirmExit(l)
    PROVE  ProcessesOK'
BY DEF ProcessesOK, ConfirmExit

LEMMA TypeNext == TypeInv /\ [Next]_vars => TypeInv'
<1> SUFFICES ASSUME TypeInv, [Next]_vars PROVE TypeInv'
    OBVIOUS
<1>t. IntentsOK /\ WorkerOK /\ CoreOK /\ TransportOK /\ ProcessesOK /\ Present
  BY TypeParts DEF TypeInv
<1>q. IntentsOK' /\ WorkerOK' /\ CoreOK' /\ TransportOK' /\ ProcessesOK' /\ Present'
      => TypeInv'
  BY TypeParts, PTL DEF TypeInv
<1>u. /\ UNCHANGED intents => IntentsOK' /\ revision' = revision
      /\ UNCHANGED core => CoreOK'
      /\ UNCHANGED transport => TransportOK'
      /\ UNCHANGED processes => ProcessesOK'
  BY <1>t DEF intents, core, transport, processes, IntentsOK, CoreOK, TransportOK,
              ProcessesOK, revision
<1> USE DEF Labels, Awaits, Synchronous, Resumptions, Owning
<1>1. ASSUME NEW t \in Targets, Submit(t) PROVE TypeInv'
  <2>1. IntentsOK' /\ revision' = revision + 1 /\ revision \in Nat
    BY <1>1, <1>t DEF Submit, IntentsOK, Outcomes, revision
  <2>2. WorkerOK' BY <1>1, <1>t, <2>1 DEF Submit, WorkerOK
  <2>3. Present' BY <1>1, <1>t DEF Submit, Present, core
  <2> QED BY <1>1, <1>q, <1>u, <2>1, <2>2, <2>3 DEF Submit
<1>c. ASSUME CloseWire PROVE TransportOK'
  BY <1>c, <1>t DEF CloseWire, TransportOK, Wires
<1>f. ASSUME NEW state \in Wires, FreshWire(state) PROVE TransportOK'
  BY <1>f, <1>t DEF FreshWire, TransportOK
<1>2. CASE WorkerStep
  <2>1. CASE LoopTop
    <3>1. WorkerOK' /\ Present'
      BY <2>1, <1>t, <1>u DEF LoopTop, Goto, Take, WorkerOK, Present, core, revision, IntentsOK
    <3> QED BY <2>1, <3>1, <1>q, <1>u DEF LoopTop
  <2>2. CASE Recovered
    <3>1. WorkerOK' /\ Present'
      BY <2>2, <1>t, <1>u DEF Recovered, Take, WorkerOK, Present, core, revision, IntentsOK
    <3> QED BY <2>2, <3>1, <1>q, <1>u DEF Recovered
  <2>3. CASE Cleanup
    <3>1. unconfirmed \in Lease BY <2>3, <1>t DEF Cleanup, CoreOK, Present
    <3>2. ProcessesOK' BY <2>3, <1>t, <1>u, <3>1, ExitType DEF Cleanup
    <3>3. CoreOK' BY <2>3, <1>t DEF Cleanup, CoreOK
    <3>4. WorkerOK' /\ Present' BY <2>3, <1>t, <1>u DEF Cleanup, Goto, WorkerOK, Present
    <3> QED BY <2>3, <3>2, <3>3, <3>4, <1>q, <1>u DEF Cleanup
  <2>a. ASSUME AfterStop, UNCHANGED <<intents, processes>> PROVE TypeInv'
    <3>1. WorkerOK' /\ Present'
      BY <2>a, <1>t, <1>u DEF AfterStop, Goto, Return, WorkerOK, Present, core
    <3>2. CoreOK' BY <2>a, <1>t, <1>u DEF AfterStop, CoreOK, Phases
    <3>3. TransportOK' BY <2>a, <1>u, <1>c DEF AfterStop
    <3> QED BY <2>a, <3>1, <3>2, <3>3, <1>q, <1>u
  <2>4. CASE Dispatch
    <3>1. CASE AfterStop BY <2>4, <3>1, <2>a DEF Dispatch
    <3>2. ASSUME NEW allowed \in BOOLEAN, session # None, BeginStop(allowed),
                 UNCHANGED <<intents, transport, processes>>
          PROVE  TypeInv'
      <4>1. WorkerOK' /\ Present'
        BY <3>2, <1>t, <1>u DEF BeginStop, WorkerOK, Present
      <4>2. CoreOK' BY <3>2, <1>t DEF BeginStop, CoreOK, Phases
      <4> QED BY <3>2, <4>1, <4>2, <1>q, <1>u
    <3>3. CASE (Return("runningExisting") \/ Goto("start")) /\ UNCHANGED <<core, transport>>
      <4>1. WorkerOK' /\ Present'
        BY <2>4, <3>3, <1>t, <1>u DEF Dispatch, Return, Goto, WorkerOK, Present, core
      <4> QED BY <2>4, <3>3, <4>1, <1>q, <1>u DEF Dispatch
    <3>4. (CASE target = "closed"  -> TRUE
             [] target = "stopped" -> FALSE
             [] OTHER              -> terminalRequested) \in BOOLEAN
      BY DEF terminalRequested
    <3> QED BY <2>4, <3>1, <3>2, <3>3, <3>4 DEF Dispatch
  <2>5. CASE Stopped BY <2>5, <2>a DEF Stopped
  <2>6. CASE Closing
    <3>1. WorkerOK' /\ Present' BY <2>6, <1>t, <1>u DEF Closing, Return, WorkerOK, Present
    <3>2. CoreOK' BY <2>6, <1>t DEF Closing, CoreOK, Phases
    <3> QED BY <2>6, <3>1, <3>2, <1>q, <1>u DEF Closing
  <2>7. CASE Abandoned
    <3>1. WorkerOK' /\ Present' BY <2>7, <1>t, <1>u DEF Abandoned, Return, WorkerOK, Present
    <3>2. CoreOK' BY <2>7, <1>t DEF Abandoned, CoreOK, Phases
    <3> QED BY <2>7, <3>1, <3>2, <1>q, <1>u DEF Abandoned
  <2>8. CASE StopReturns
    <3>1. session.lease \in Lease BY <2>8, <1>t DEF StopReturns, Present, CoreOK, Session
    <3>2. ProcessesOK' BY <2>8, <1>t, <1>u, <3>1, ExitType DEF StopReturns
    <3>3. CoreOK' BY <2>8, <1>t DEF StopReturns, Clear, CoreOK
    <3>4. WorkerOK' /\ Present'
      BY <2>8, <1>t, <1>u DEF StopReturns, Goto, WorkerOK, Present
    <3> QED BY <2>8, <3>2, <3>3, <3>4, <1>q, <1>u DEF StopReturns
  <2>9. CASE GraceEnds
    <3>1. CoreOK' BY <2>9, <1>t DEF GraceEnds, Clear, CoreOK
    <3>2. WorkerOK' /\ Present' BY <2>9, <1>t, <1>u DEF GraceEnds, Goto, WorkerOK, Present
    <3>3. TransportOK' BY <2>9, <1>u, <1>c DEF GraceEnds
    <3> QED BY <2>9, <3>1, <3>2, <3>3, <1>q, <1>u DEF GraceEnds
  <2>10. CASE ReplacedAfterStop
    <3>1. WorkerOK' /\ Present'
      BY <2>10, <1>t, <1>u DEF ReplacedAfterStop, Goto, WorkerOK, Present, core
    <3>2. TransportOK' BY <2>10, <1>f DEF ReplacedAfterStop, Wires
    <3> QED BY <2>10, <3>1, <3>2, <1>q, <1>u DEF ReplacedAfterStop
  <2>11. CASE BeginStart
    <3>1. WorkerOK' /\ Present' BY <2>11, <1>t, <1>u DEF BeginStart, Goto, WorkerOK, Present
    <3>2. CoreOK' BY <2>11, <1>t DEF BeginStart, CoreOK, Phases
    <3>3. TransportOK' BY <2>11, <1>t, <1>u, <1>c DEF BeginStart, TransportOK, Wires
    <3> QED BY <2>11, <3>1, <3>2, <3>3, <1>q, <1>u DEF BeginStart
  <2>12. CASE ReplacedBeforeStart
    <3>1. WorkerOK' /\ Present'
      BY <2>12, <1>t, <1>u DEF ReplacedBeforeStart, Goto, WorkerOK, Present, core
    <3>2. TransportOK' BY <2>12, <1>f DEF ReplacedBeforeStart, Wires
    <3> QED BY <2>12, <3>1, <3>2, <1>q, <1>u DEF ReplacedBeforeStart
  <2>13. CASE OpenReturns
    <3>1. WorkerOK' /\ Present'
      BY <2>13, <1>t, <1>u DEF OpenReturns, Goto, WorkerOK, Present, core
    <3> QED BY <2>13, <3>1, <1>q, <1>u DEF OpenReturns
  <2>14. CASE Resolved
    <3>1. WorkerOK' /\ Present'
      BY <2>14, <1>t, <1>u DEF Resolved, Goto, WorkerOK, Present, core
    <3> QED BY <2>14, <3>1, <1>q, <1>u DEF Resolved
  <2>15. CASE LaunchFails
    <3>1. WorkerOK' /\ Present'
      BY <2>15, <1>t, <1>u DEF LaunchFails, CancelWaiter, WorkerOK, Present, core
    <3> QED BY <2>15, <3>1, <1>q, <1>u DEF LaunchFails
  <2>16. CASE Spawn
    <3>1. PICK l \in Lease : proc' = [proc EXCEPT ![l] = "alive"] /\ lease' = l
      BY <2>16 DEF Spawn, spawned
    <3>2. ProcessesOK' BY <2>16, <3>1, <1>t DEF Spawn, ProcessesOK
    <3>3. WorkerOK' /\ Present'
      BY <2>16, <3>1, <1>t, <1>u, BoundsAssumption DEF Spawn, WorkerOK, Present, core
    <3> QED BY <2>16, <3>2, <3>3, <1>q, <1>u DEF Spawn
  <2>17. CASE Launched
    <3>1. WorkerOK' /\ Present'
      BY <2>17, <1>t, <1>u DEF Launched, Goto, WorkerOK, Present, core
    <3> QED BY <2>17, <3>1, <1>q, <1>u DEF Launched
  <2>18. CASE Connected
    <3>1. heard \in Connection /\ lease \in Lease
      BY <2>18, <1>t DEF Connected, Present, WorkerOK
    <3>2. session' \in Session
      BY <2>18, <3>1 DEF Connected, Session, Connection
    <3>3. CoreOK' BY <2>18, <3>2, <1>t DEF Connected, CoreOK, Phases
    <3>4. WorkerOK' /\ Present'
      BY <2>18, <1>t, <1>u DEF Connected, CancelWaiter, WorkerOK, Present
    <3> QED BY <2>18, <3>3, <3>4, <1>q, <1>u DEF Connected
  <2>19. CASE NotConnected
    <3>1. WorkerOK' /\ Present'
      BY <2>19, <1>t, <1>u DEF NotConnected, Goto, WorkerOK, Present, core
    <3> QED BY <2>19, <3>1, <1>q, <1>u DEF NotConnected
  <2>20. CASE Released
    <3>1. lease \in Lease BY <2>20, <1>t DEF Released, Present, WorkerOK
    <3>2. ProcessesOK' BY <2>20, <1>t, <1>u, <3>1, ExitType DEF Released
    <3>3. CoreOK' BY <2>20, <3>1, <1>t DEF Released, CoreOK
    <3>4. WorkerOK' /\ Present'
      BY <2>20, <1>t, <1>u DEF Released, CancelWaiter, WorkerOK, Present
    <3> QED BY <2>20, <3>2, <3>3, <3>4, <1>q, <1>u DEF Released
  <2>21. CASE Settle
    <3>1. IntentsOK' /\ revision' = revision
      BY <2>21, <1>t DEF Settle, CompleteCommands, IntentsOK, Outcomes, revision
    <3>2. WorkerOK' /\ Present'
      BY <2>21, <3>1, <1>t DEF Settle, Goto, WorkerOK, Present, core
    <3> QED BY <2>21, <3>1, <3>2, <1>q, <1>u DEF Settle
  <2>22. CASE Error
    <3>1. IntentsOK' /\ revision' = revision
      BY <2>22, <1>t DEF Error, FailCommands, IntentsOK, Outcomes, revision
    <3>2. WorkerOK' /\ Present'
      BY <2>22, <3>1, <1>t DEF Error, Goto, WorkerOK, Present
    <3>3. CoreOK' BY <2>22, <1>t DEF Error, CoreOK, Phases
    <3> QED BY <2>22, <3>1, <3>2, <3>3, <1>q, <1>u DEF Error
  <2> QED BY <1>2, <2>1, <2>2, <2>3, <2>4, <2>5, <2>6, <2>7, <2>8, <2>9, <2>10, <2>11,
             <2>12, <2>13, <2>14, <2>15, <2>16, <2>17, <2>18, <2>19, <2>20, <2>21, <2>22
          DEF WorkerStep
<1>3. CASE WaiterTimeout
  <2>1. WorkerOK' /\ Present'
    BY <1>3, <1>t, <1>u DEF WaiterTimeout, WorkerOK, Present, core
  <2> QED BY <1>3, <1>q, <1>u, <2>1 DEF WaiterTimeout
<1>4. CASE RecoveryEnds
  <2>1. recovery \in Lease BY <1>4, <1>t DEF RecoveryEnds, CoreOK
  <2>2. ProcessesOK' BY <1>4, <1>t, <1>u, <2>1, ExitType DEF RecoveryEnds
  <2>3. CoreOK' BY <1>4, <1>t, <2>1 DEF RecoveryEnds, CoreOK
  <2>4. Present' /\ WorkerOK'
    BY <1>4, <1>t, <1>u, <2>1, BoundsAssumption DEF RecoveryEnds, Present, WorkerOK, worker
  <2> QED BY <1>4, <1>q, <1>u, <2>2, <2>3, <2>4 DEF RecoveryEnds
<1>5. CASE Environment
  <2>l. ASSUME LoseRunning, phase = "running", UNCHANGED <<unconfirmed, pc>>
        PROVE  CoreOK' /\ (UNCHANGED <<waiter, heard, lease>> => Present')
    <3>1. CASE UNCHANGED <<phase, session, disconnected, recovery>>
      BY <2>l, <3>1, <1>t DEF CoreOK, Present
    <3>2. CASE session # None /\ Clear /\ phase' = "failed" /\ recovery' = session.lease
      <4>1. session.lease \in Lease BY <3>2, <1>t DEF CoreOK, Session
      <4> QED BY <2>l, <3>2, <4>1, <1>t DEF CoreOK, Present, Clear, Phases
    <3> QED BY <2>l, <3>1, <3>2 DEF LoseRunning
  <2>1. CASE Opened
    <3>1. TransportOK' BY <2>1, <1>t DEF Opened, TransportOK, Wires
    <3> QED BY <2>1, <3>1, <1>t, <1>q, <1>u DEF Opened, worker, WorkerOK, Present, core
  <2>2. CASE Accept
    <3>1. Head(backlog) \in Lease /\ Tail(backlog) \in Seq(Lease)
      BY <2>2, <1>t DEF Accept, TransportOK
    <3>2. conn' \in Connection BY <2>2, <3>1, <1>t DEF Accept, Connection, TransportOK
    <3>3. TransportOK' BY <2>2, <3>1, <3>2, <1>t DEF Accept, TransportOK, Wires
    <3>4. WorkerOK' /\ Present'
      <4>1. CASE waiter' = "settled" /\ heard' = conn'
        BY <2>2, <3>2, <4>1, <1>t, <1>u DEF Accept, WorkerOK, Present, core
      <4>2. CASE UNCHANGED <<waiter, heard>>
        BY <2>2, <4>2, <1>t, <1>u DEF Accept, WorkerOK, Present, core
      <4> QED BY <2>2, <4>1, <4>2 DEF Accept
    <3> QED BY <2>2, <3>3, <3>4, <1>q, <1>u DEF Accept
  <2>3. CASE Disconnect
    <3>1. TransportOK' BY <2>3, <1>t DEF Disconnect, TransportOK, Wires
    <3>2. CoreOK' /\ Present'
      BY <2>3, <2>l, <1>t DEF Disconnect, CoreOK, Present, worker
    <3> QED BY <2>3, <3>1, <3>2, <1>t, <1>q, <1>u DEF Disconnect, worker, WorkerOK
  <2>4. CASE WireFails
    <3>1. TransportOK' BY <2>4, <1>t DEF WireFails, TransportOK, Wires
    <3>2. WorkerOK' BY <2>4, <1>t, <1>u DEF WireFails, WorkerOK
    <3>3. CASE phase = "running" /\ LoseRunning
      <4>1. UNCHANGED <<unconfirmed, pc, heard, lease>> BY <2>4 DEF WireFails
      <4>2. CoreOK' BY <3>3, <4>1, <2>l
      <4>3. waiter' = "settled" => waiter = "settled" BY <2>4 DEF WireFails
      <4>4. Present'
        BY <3>3, <4>1, <4>3, <1>t DEF Present, LoseRunning, Clear
      <4> QED BY <2>4, <3>1, <3>2, <4>2, <4>4, <1>q, <1>u DEF WireFails
    <3>4. CASE UNCHANGED <<phase, session, disconnected, recovery>>
      <4>1. CoreOK' /\ Present'
        BY <2>4, <3>4, <1>t DEF WireFails, CoreOK, Present
      <4> QED BY <2>4, <3>1, <3>2, <4>1, <1>q, <1>u DEF WireFails
    <3> QED BY <2>4, <3>3, <3>4 DEF WireFails
  <2>5. ASSUME NEW l \in Lease, Dial(l) PROVE TypeInv'
    <3>1. Append(backlog, l) \in Seq(Lease) BY <1>t DEF TransportOK
    <3>2. TransportOK' /\ ProcessesOK'
      BY <2>5, <3>1, <1>t DEF Dial, TransportOK, ProcessesOK
    <3> QED BY <2>5, <3>2, <1>t, <1>q, <1>u DEF Dial, worker, WorkerOK, Present, core
  <2>6. ASSUME NEW l \in Lease, Exit(l) PROVE TypeInv'
    <3>1. ProcessesOK' BY <2>6, <1>t DEF Exit, ProcessesOK
    <3> QED BY <2>6, <3>1, <1>t, <1>q, <1>u DEF Exit, worker, WorkerOK, Present, core
  <2> QED BY <1>5, <2>1, <2>2, <2>3, <2>4, <2>5, <2>6 DEF Environment
<1>6. CASE UNCHANGED vars
  BY <1>6, <1>t, <1>u, <1>q DEF vars, WorkerOK, Present, worker, core
<1> QED BY <1>1, <1>2, <1>3, <1>4, <1>5, <1>6 DEF Next

\* Every field of the lifecycle keeps the values its declaration allows.
THEOREM TypeCorrect == Spec => []TypeOK
<1>1. TypeInv => TypeOK BY DEF TypeInv
<1> QED BY <1>1, TypeInit, TypeNext, PTL DEF Spec

(***************************************************************************)
(* Ownership.  A process that may be alive has one owner: the start in     *)
(* progress (lease), the session, the background stop (recovery) or the    *)
(* slot of unconfirmed leases, and the label of the worker says which of   *)
(* them can be in use.  Only a close gives a process up (Surrendered), and *)
(* no start comes after it.                                                *)
(***************************************************************************)
out == spawned \ exited

Launching == {"start", "replaceStart", "open", "resolve", "launch"}
Stopping  == {"stop", "grace", "replaceStop", "stopped"}

Surrendered ==
    /\ terminalRequested
    /\ target = "closed" \/ pc \in {"stopped", "abandoned", "settle", "top", "off", "recovering"}

\* Who can own what, by the label of the worker.
OneOwner ==
    /\ lease # None => pc \in Owning
    /\ pc \in Launching \cup Owning => session = None /\ unconfirmed = None /\ recovery = None
    /\ pc \in {"dispatch"} \cup Stopping => unconfirmed = None /\ recovery = None
    /\ pc \in {"replaceStop", "stopped", "abandoned"} => session = None
    /\ recovery # None =>
          pc \in {"off", "top", "recovering"} /\ session = None /\ unconfirmed = None
    /\ unconfirmed # None =>
          pc \in {"off", "top", "recovering", "cleanup", "error"} /\ session = None

\* A running session has an owner who has not begun to stop it.
OwnedRunning ==
    phase = "running" =>
        /\ session # None /\ unconfirmed = None /\ recovery = None
        /\ pc \in {"off", "top", "dispatch", "settle"}

\* An owner lets go of a process with its confirmation.
NotExited ==
    /\ exited \subseteq spawned
    /\ lease \notin exited
    /\ session # None /\ pc # "grace" => session.lease \notin exited
    /\ pc = "grace" => session.lease \in exited

OwnInv ==
    /\ OneOwner /\ OwnedRunning /\ NotExited
    /\ target = "closed" => terminalRequested
    /\ out \subseteq Held \/ Surrendered
    /\ pc = "stop" /\ allow => terminalRequested
    /\ pc \in Launching => out = {}
    /\ out = {} \/ \E l \in Lease : out = {l}

LEMMA OwnInit == Init => OwnInv
<1> SUFFICES ASSUME Init PROVE OwnInv
    OBVIOUS
<1>1. /\ spawned = {} /\ exited = {} /\ out = {} /\ pc = "off" /\ phase = "idle"
      /\ lease = None /\ session = None /\ unconfirmed = None /\ recovery = None
      /\ target = "stopped"
  BY DEF Init, spawned, out, target
<1> QED BY <1>1 DEF OwnInv, OneOwner, OwnedRunning, NotExited, Launching, Stopping, Owning

\* What the steps do to the processes that may be alive.
LEMMA OutKept == UNCHANGED processes => out' = out /\ spawned' = spawned /\ exited' = exited
BY DEF processes, out, spawned

LEMMA OutConfirmed ==
    ASSUME ProcessesOK, NEW l \in Lease, ConfirmExit(l)
    PROVE  /\ out' = out \ {l} /\ exited' = exited \cup {l}
           /\ spawned' = spawned \cup {l}
BY DEF ProcessesOK, ConfirmExit, out, spawned

LEMMA TargetKept ==
    ASSUME TypeInv, UNCHANGED <<asked, intent>>
    PROVE  target' = target /\ terminalRequested' = terminalRequested
BY DEF target, terminalRequested, desired

LEMMA OwnNext == TypeInv /\ OwnInv /\ [Next]_vars => OwnInv'
<1> SUFFICES ASSUME TypeInv, OwnInv, [Next]_vars PROVE OwnInv'
    OBVIOUS
<1>t. IntentsOK /\ WorkerOK /\ CoreOK /\ TransportOK /\ ProcessesOK /\ Present
  BY TypeParts DEF TypeInv
<1>n. None \notin Lease BY BoundsAssumption
<1>o. /\ OneOwner /\ OwnedRunning /\ NotExited
      /\ target = "closed" => terminalRequested
      /\ out \subseteq Held \/ Surrendered
      /\ pc = "stop" /\ allow => terminalRequested
      /\ pc \in Launching => out = {}
      /\ out = {} \/ \E l \in Lease : out = {l}
      /\ exited \subseteq Lease
  BY <1>t DEF OwnInv, ProcessesOK
<1>q. /\ OneOwner' /\ OwnedRunning' /\ NotExited'
      /\ (target' = "closed" => terminalRequested')
      /\ (out' \subseteq Held' \/ Surrendered')
      /\ (pc' = "stop" /\ allow' => terminalRequested')
      /\ (pc' \in Launching => out' = {})
      /\ (out' = {} \/ \E l \in Lease : out' = {l})
      => OwnInv'
  BY DEF OwnInv
<1> USE DEF intents, core, processes, Launching, Stopping, Owning

\* A step of the worker that only moves on.
<1>m. ASSUME UNCHANGED <<intents, intent, lease, session, unconfirmed, recovery, processes>>,
             phase' # "running" \/ (phase' = phase /\ pc' \in {"off", "top", "dispatch", "settle"}),
             lease # None => pc' \in Owning,
             pc' \in Launching \cup Owning =>
                 session = None /\ unconfirmed = None /\ recovery = None,
             pc' \in {"dispatch"} \cup Stopping => unconfirmed = None /\ recovery = None,
             pc' \in {"replaceStop", "stopped", "abandoned"} => session = None,
             recovery # None => pc' \in {"off", "top", "recovering"},
             unconfirmed # None => pc' \in {"off", "top", "recovering", "cleanup", "error"},
             pc # "grace" /\ pc' # "grace",
             Surrendered => target = "closed" \/
                 pc' \in {"stopped", "abandoned", "settle", "top", "off", "recovering"},
             pc' = "stop" /\ allow' => terminalRequested,
             pc' \in Launching => out = {}
      PROVE  OwnInv'
  <2>1. target' = target /\ terminalRequested' = terminalRequested
    BY <1>m, TargetKept
  <2>2. out' = out /\ spawned' = spawned /\ exited' = exited BY <1>m, OutKept
  <2>3. OneOwner' BY <1>m, <1>o DEF OneOwner
  <2>4. OwnedRunning' BY <1>m, <1>o DEF OwnedRunning
  <2>5. NotExited' BY <1>m, <1>o, <2>2 DEF NotExited
  <2>6. out' \subseteq Held' \/ Surrendered'
    BY <1>m, <1>o, <2>1, <2>2 DEF Held, Surrendered
  <2> QED BY <1>m, <1>o, <1>q, <2>1, <2>2, <2>3, <2>4, <2>5, <2>6
<1>z. ASSUME session = None, unconfirmed = None, recovery = None, lease = None, ~Surrendered
      PROVE  out = {}
  <2>1. Held = {None} BY <1>z DEF Held
  <2>2. out \subseteq Lease BY DEF out, spawned
  <2> QED BY <1>z, <1>o, <1>n, <2>1, <2>2

<1>1. ASSUME NEW t \in Targets, Submit(t) PROVE OwnInv'
  <2>1. /\ ~terminalRequested
        /\ UNCHANGED <<intent, allow, lease, core, processes>>
        /\ pc' = (IF pc = "off" THEN "top" ELSE pc)
    BY <1>1 DEF Submit
  <2>2. out' = out /\ spawned' = spawned /\ exited' = exited BY <2>1, OutKept
  <2>3. target' = target
    BY <1>1, <1>t DEF Submit, target, IntentsOK, WorkerOK, revision
  <2>4. OneOwner' BY <2>1, <1>o DEF OneOwner
  <2>5. OwnedRunning' BY <2>1, <1>o DEF OwnedRunning
  <2>6. NotExited' BY <2>1, <2>2, <1>o DEF NotExited
  <2>7. out' \subseteq Held' BY <2>1, <2>2, <1>o DEF Held, Surrendered
  <2> QED BY <2>1, <2>2, <2>3, <2>4, <2>5, <2>6, <2>7, <1>o, <1>q
<1>3. CASE WaiterTimeout
  <2>1. target' = target /\ terminalRequested' = terminalRequested
    BY <1>3, TargetKept DEF WaiterTimeout
  <2>2. out' = out /\ spawned' = spawned /\ exited' = exited
    BY <1>3, OutKept DEF WaiterTimeout
  <2> QED BY <1>3, <1>o, <1>q, <2>1, <2>2
          DEF WaiterTimeout, OneOwner, OwnedRunning, NotExited, Held, Surrendered
<1>4. CASE RecoveryEnds
  <2>1. recovery \in Lease BY <1>4, <1>t DEF RecoveryEnds, CoreOK
  <2>2. /\ UNCHANGED <<intents, pc, intent, allow, lease, phase, session>> /\ recovery' = None
        /\ pc \in {"off", "top", "recovering"} /\ session = None /\ unconfirmed = None
        /\ lease = None
    BY <1>4, <1>o, <2>1, <1>n DEF RecoveryEnds, worker, OneOwner
  <2>3. target' = target /\ terminalRequested' = terminalRequested
    BY <2>2, TargetKept
  <2>4. CASE ConfirmExit(recovery) /\ UNCHANGED unconfirmed
    <3>1. out' = out \ {recovery} /\ exited' = exited \cup {recovery}
          /\ spawned' = spawned \cup {recovery}
      BY <2>1, <2>4, <1>t, OutConfirmed
    <3>2. out' \subseteq Held' \/ Surrendered'
      BY <2>2, <2>3, <2>4, <3>1, <1>o DEF Held, Surrendered
    <3> QED BY <2>1, <2>2, <2>3, <2>4, <3>1, <3>2, <1>o, <1>n, <1>q
            DEF OneOwner, OwnedRunning, NotExited
  <2>5. CASE unconfirmed' = recovery /\ UNCHANGED processes
    <3>1. out' = out /\ spawned' = spawned /\ exited' = exited BY <2>5, OutKept
    <3>2. out' \subseteq Held' \/ Surrendered'
      BY <2>2, <2>3, <2>5, <3>1, <1>o DEF Held, Surrendered
    <3>3. phase # "running" BY <2>1, <1>n, <1>o DEF OwnedRunning
    <3> QED BY <2>1, <2>2, <2>3, <2>5, <3>1, <3>2, <3>3, <1>o, <1>n, <1>q
            DEF OneOwner, OwnedRunning, NotExited
  <2> QED BY <1>4, <2>4, <2>5 DEF RecoveryEnds
<1>5. CASE Environment
  <2> DEFINE Calm == /\ target' = target /\ terminalRequested' = terminalRequested
                     /\ UNCHANGED <<pc, lease, allow>>
                     /\ out' = out /\ spawned' = spawned /\ exited' = exited
  <2>c. ASSUME Calm, UNCHANGED core PROVE OwnInv'
    BY <2>c, <1>o, <1>q DEF OneOwner, OwnedRunning, NotExited, Held, Surrendered
  <2>l. ASSUME Calm, Parked, phase = "running", LoseRunning, UNCHANGED unconfirmed
        PROVE  OwnInv'
    <3>1. CASE UNCHANGED <<phase, session, disconnected, recovery>>
      BY <2>c, <2>l, <3>1
    <3>2. CASE session # None /\ Clear /\ phase' = "failed" /\ recovery' = session.lease
      <4>1. pc = "off" /\ unconfirmed = None /\ recovery = None /\ lease = None
        BY <2>l, <1>o DEF OwnedRunning, OneOwner, Parked, Awaits
      <4>2. session.lease \in Lease BY <3>2, <1>t DEF CoreOK, Session
      <4>3. out' \subseteq Held' \/ Surrendered'
        BY <2>l, <3>2, <4>1, <1>o DEF Held, Surrendered, Clear
      <4> QED BY <2>l, <3>2, <4>1, <4>2, <4>3, <1>o, <1>n, <1>q
              DEF OneOwner, OwnedRunning, NotExited, Clear
    <3> QED BY <2>l, <3>1, <3>2 DEF LoseRunning
  <2>k. UNCHANGED <<asked, intent>> => target' = target /\ terminalRequested' = terminalRequested
    BY TargetKept
  <2>1. CASE Opened BY <2>1, <2>c, <2>k, OutKept DEF Opened, worker
  <2>2. CASE Accept BY <2>2, <2>c, <2>k, OutKept DEF Accept
  <2>3. CASE Disconnect
    <3>1. Calm /\ Parked /\ UNCHANGED unconfirmed
      BY <2>3, <2>k, OutKept DEF Disconnect, worker
    <3>2. CASE phase = "running" /\ LoseRunning BY <2>l, <3>1, <3>2
    <3>3. CASE UNCHANGED <<phase, session, recovery>>
      BY <3>1, <3>3, <1>o, <1>q DEF OneOwner, OwnedRunning, NotExited, Held, Surrendered
    <3> QED BY <2>3, <3>2, <3>3 DEF Disconnect
  <2>4. CASE WireFails
    <3>1. Calm /\ Parked /\ UNCHANGED unconfirmed
      BY <2>4, <2>k, OutKept DEF WireFails
    <3>2. CASE phase = "running" /\ LoseRunning BY <2>l, <3>1, <3>2
    <3>3. CASE UNCHANGED <<phase, session, disconnected, recovery>>
      BY <2>c, <3>1, <3>3
    <3> QED BY <2>4, <3>2, <3>3 DEF WireFails
  <2>5. ASSUME NEW l \in Lease, Dial(l) \/ Exit(l) PROVE OwnInv'
    <3>1. spawned' = spawned /\ exited' = exited
      BY <2>5, <1>t DEF Dial, Exit, spawned, ProcessesOK
    <3>2. Calm /\ UNCHANGED core
      BY <2>5, <2>k, <3>1 DEF Dial, Exit, worker, out
    <3> QED BY <2>c, <3>2
  <2> QED BY <1>5, <2>1, <2>2, <2>3, <2>4, <2>5 DEF Environment
<1>6. CASE UNCHANGED vars
  <2>1. target' = target /\ terminalRequested' = terminalRequested
    BY <1>6, TargetKept DEF vars, worker
  <2>2. out' = out /\ spawned' = spawned /\ exited' = exited BY <1>6, OutKept DEF vars
  <2> QED BY <1>6, <1>o, <1>q, <2>1, <2>2
          DEF vars, worker, OneOwner, OwnedRunning, NotExited, Held, Surrendered
<1>2. CASE WorkerStep
  <2>tk. ASSUME Take, pc \in {"top", "recovering"}, recovery = None,
                UNCHANGED <<intents, core, processes>>
         PROVE  OwnInv'
    <3>1. target' = (IF asked = <<>> THEN "stopped" ELSE desired)
          /\ (target' = "closed" => terminalRequested')
          /\ terminalRequested' = terminalRequested
      BY <2>tk, <1>t DEF Take, target, desired, terminalRequested, revision, IntentsOK
    <3>2. out' = out /\ spawned' = spawned /\ exited' = exited BY <2>tk, OutKept
    <3>3. terminalRequested => target' = "closed"
      BY <2>tk, <3>1 DEF terminalRequested, desired
    <3>4. pc' = (IF unconfirmed # None THEN "cleanup" ELSE "dispatch")
          /\ UNCHANGED <<allow, lease>>
      BY <2>tk DEF Take
    <3>5. out' \subseteq Held' \/ Surrendered'
      BY <2>tk, <3>1, <3>2, <3>3, <3>4, <1>o DEF Held, Surrendered
    <3>6. OneOwner' /\ OwnedRunning' /\ NotExited'
      BY <2>tk, <3>2, <3>4, <1>o DEF OneOwner, OwnedRunning, NotExited
    <3> QED BY <2>tk, <3>1, <3>2, <3>4, <3>5, <3>6, <1>o, <1>q
  <2>1. CASE LoopTop
    <3>1. CASE RecoveryDue /\ Goto("recovering")
      BY <2>1, <3>1, <1>m, <1>o DEF LoopTop, Goto, RecoveryDue, OneOwner, OwnedRunning, Surrendered
    <3>2. CASE Goto("off")
      BY <2>1, <3>2, <1>m, <1>o DEF LoopTop, Goto, OneOwner, OwnedRunning, Surrendered
    <3>3. CASE ~RecoveryDue /\ Take
      BY <2>1, <3>3, <2>tk DEF LoopTop, RecoveryDue
    <3> QED BY <2>1, <3>1, <3>2, <3>3 DEF LoopTop
  <2>2. CASE Recovered BY <2>2, <2>tk DEF Recovered
  <2>as. ASSUME AfterStop, UNCHANGED <<intents, processes>>, pc \in {"dispatch", "stopped"},
                session = None
         PROVE  OwnInv'
    <3>1. /\ lease = None /\ unconfirmed = None /\ recovery = None /\ phase # "running"
          /\ UNCHANGED <<intent, allow, lease, session, unconfirmed, recovery>>
      BY <2>as, <1>o DEF AfterStop, OneOwner, OwnedRunning, Goto, Return
    <3>2. CASE target \in {"running", "restarted"} /\ Goto("start") /\ wantsRunning
               /\ UNCHANGED <<core, transport>>
      <4>1. ~terminalRequested BY <3>2 DEF wantsRunning, terminalRequested
      <4>2. out = {} BY <4>1, <3>1, <2>as, <1>z DEF Surrendered
      <4> QED BY <2>as, <3>1, <3>2, <4>1, <4>2, <1>m DEF Goto, Surrendered
    <3>3. CASE target \in {"running", "restarted"} /\ Goto("abandoned")
               /\ UNCHANGED <<core, transport>>
      BY <2>as, <3>1, <3>3, <1>m DEF Goto, Surrendered
    <3>4. CASE Return("idle") /\ phase' = (IF desired = "stopped" THEN "idle" ELSE phase)
      BY <2>as, <3>1, <3>4, <1>m DEF Return, Surrendered
    <3>5. CASE target = "closed" /\ Goto("closing") /\ UNCHANGED core
      BY <2>as, <3>1, <3>5, <1>m DEF Goto, Surrendered
    <3> QED BY <2>as, <3>2, <3>3, <3>4, <3>5 DEF AfterStop
  <2>4. CASE Dispatch
    <3>1. /\ unconfirmed = None /\ recovery = None /\ lease = None
          /\ pc = "dispatch" /\ UNCHANGED <<intents, processes>>
      BY <2>4, <1>o DEF Dispatch, OneOwner
    <3>2. CASE target = "running" /\ session # None /\ phase = "running"
               /\ Return("runningExisting") /\ UNCHANGED <<core, transport>>
      BY <3>1, <3>2, <1>m DEF Return, Surrendered
    <3>3. ASSUME NEW allowed \in BOOLEAN, session # None, BeginStop(allowed),
                 allowed => terminalRequested
          PROVE  OwnInv'
      BY <3>1, <3>3, <1>m DEF BeginStop, Surrendered
    <3>4. CASE session = None /\ target = "running" /\ Goto("start") /\ UNCHANGED <<core, transport>>
      <4>1. ~Surrendered BY <3>1, <3>4 DEF Surrendered
      <4>2. out = {} /\ phase # "running" BY <3>1, <3>4, <4>1, <1>z, <1>o DEF OwnedRunning
      <4> QED BY <3>1, <3>4, <4>1, <4>2, <1>m DEF Goto
    <3>5. CASE session = None /\ AfterStop BY <3>1, <3>5, <2>as
    <3>6. ASSUME NEW allowed, allowed = (CASE target = "closed"  -> TRUE
                                           [] target = "stopped" -> FALSE
                                           [] OTHER              -> terminalRequested)
          PROVE  allowed \in BOOLEAN /\ (allowed => terminalRequested)
      BY <3>6, <1>o DEF terminalRequested
    <3> QED BY <2>4, <3>2, <3>3, <3>4, <3>5, <3>6 DEF Dispatch
  <2>5. CASE Stopped BY <2>5, <2>as, <1>o DEF Stopped, OneOwner
  <2>3. CASE Cleanup
    <3>1. /\ unconfirmed \in Lease /\ pc = "cleanup" /\ session = None /\ recovery = None
          /\ lease = None /\ phase # "running"
          /\ UNCHANGED <<intents, intent, allow, lease, phase, session, recovery>>
      BY <2>3, <1>t, <1>o DEF Cleanup, CoreOK, Present, OneOwner, OwnedRunning, Goto
    <3>2. target' = target /\ terminalRequested' = terminalRequested
      BY <3>1, TargetKept
    <3>3. CASE ConfirmExit(unconfirmed) /\ unconfirmed' = None /\ Goto("dispatch")
      <4>1. /\ out' = out \ {unconfirmed} /\ exited' = exited \cup {unconfirmed}
            /\ spawned' = spawned \cup {unconfirmed}
        BY <3>1, <3>3, <1>t, OutConfirmed
      <4>2. out' \subseteq Held' \/ Surrendered'
        BY <3>1, <3>2, <3>3, <4>1, <1>o DEF Held, Surrendered, Goto
      <4> QED BY <3>1, <3>2, <3>3, <4>1, <4>2, <1>o, <1>n, <1>q
              DEF OneOwner, OwnedRunning, NotExited, Goto
    <3>4. CASE target = "closed" /\ unconfirmed' = None /\ Goto("dispatch") /\ UNCHANGED processes
      <4>1. out' = out /\ spawned' = spawned /\ exited' = exited BY <3>4, OutKept
      <4>2. Surrendered' BY <3>2, <3>4, <1>o DEF Surrendered
      <4> QED BY <3>1, <3>2, <3>4, <4>1, <4>2, <1>o, <1>q
              DEF OneOwner, OwnedRunning, NotExited, Goto
    <3>5. CASE UNCHANGED unconfirmed /\ Goto("error") /\ UNCHANGED processes
      BY <3>1, <3>5, <1>m DEF Goto, Surrendered
    <3> QED BY <2>3, <3>3, <3>4, <3>5 DEF Cleanup
  <2>6. CASE Closing
    BY <2>6, <1>m, <1>o DEF Closing, Return, OneOwner, Surrendered
  <2>7. CASE Abandoned
    <3>1. phase' # "running" BY <2>7, <1>o DEF Abandoned, OwnedRunning
    <3> QED BY <2>7, <3>1, <1>m, <1>o DEF Abandoned, Return, OneOwner, Surrendered
  <2>8. CASE StopReturns
    <3>1. /\ session.lease \in Lease /\ session # None /\ pc = "stop" /\ phase = "stopping"
          /\ unconfirmed = None /\ recovery = None /\ lease = None
          /\ UNCHANGED <<intents, intent, allow, lease, phase, unconfirmed, recovery>>
      BY <2>8, <1>t, <1>o DEF StopReturns, CoreOK, Present, Session, OneOwner, Goto
    <3>2. target' = target /\ terminalRequested' = terminalRequested
      BY <3>1, TargetKept
    <3>3. CASE ConfirmExit(session.lease) /\ Clear /\ Goto("stopped")
      <4>1. /\ out' = out \ {session.lease} /\ exited' = exited \cup {session.lease}
            /\ spawned' = spawned \cup {session.lease}
        BY <3>1, <3>3, <1>t, OutConfirmed
      <4>2. out' \subseteq Held' \/ Surrendered'
        BY <3>1, <3>2, <3>3, <4>1, <1>o DEF Held, Surrendered, Clear, Goto
      <4> QED BY <3>1, <3>2, <3>3, <4>1, <4>2, <1>o, <1>n, <1>q
              DEF OneOwner, OwnedRunning, NotExited, Clear, Goto
    <3>6. CASE ConfirmExit(session.lease) /\ Goto("grace") /\ UNCHANGED <<session, disconnected>>
      <4>1. /\ out' = out \ {session.lease} /\ exited' = exited \cup {session.lease}
            /\ spawned' = spawned \cup {session.lease}
        BY <3>1, <3>6, <1>t, OutConfirmed
      <4>2. out' \subseteq Held' \/ Surrendered'
        BY <3>1, <3>2, <3>6, <4>1, <1>o DEF Held, Surrendered, Goto
      <4> QED BY <3>1, <3>2, <3>6, <4>1, <4>2, <1>o, <1>n, <1>q
              DEF OneOwner, OwnedRunning, NotExited, Goto
    <3>4. CASE allow /\ Clear /\ Goto("stopped") /\ UNCHANGED processes
      <4>1. out' = out /\ spawned' = spawned /\ exited' = exited BY <3>4, OutKept
      <4>2. Surrendered' BY <3>1, <3>2, <3>4, <1>o DEF Surrendered, Goto
      <4> QED BY <3>1, <3>2, <3>4, <4>1, <4>2, <1>o, <1>q
              DEF OneOwner, OwnedRunning, NotExited, Goto, Clear
    <3>5. CASE Goto("error") /\ UNCHANGED <<session, disconnected>> /\ UNCHANGED processes
      BY <3>1, <3>5, <1>m DEF Goto, Surrendered
    <3> QED BY <2>8, <3>3, <3>4, <3>5, <3>6 DEF StopReturns
  <2>9. CASE GraceEnds
    <3>1. /\ pc = "grace" /\ phase = "stopping" /\ session # None
          /\ unconfirmed = None /\ recovery = None /\ lease = None
          /\ session' = None /\ pc' \in {"stopped", "replaceStop"}
          /\ UNCHANGED <<intents, intent, allow, lease, phase, unconfirmed, recovery, processes>>
      BY <2>9, <1>t, <1>o DEF GraceEnds, Clear, Goto, Present, OneOwner
    <3>2. target' = target /\ terminalRequested' = terminalRequested BY <3>1, TargetKept
    <3>3. out' = out /\ spawned' = spawned /\ exited' = exited BY <3>1, OutKept
    <3>4. out \subseteq Lease \ exited /\ session.lease \in exited
      BY <3>1, <1>o DEF NotExited, out, spawned
    <3>5. out' \subseteq Held' \/ Surrendered'
      BY <3>1, <3>2, <3>3, <3>4, <1>o DEF Held, Surrendered
    <3> QED BY <3>1, <3>2, <3>3, <3>5, <1>o, <1>q DEF OneOwner, OwnedRunning, NotExited
  <2>10. CASE ReplacedAfterStop
    BY <2>10, <1>m, <1>o DEF ReplacedAfterStop, Goto, OneOwner, OwnedRunning, Surrendered
  <2>11. CASE BeginStart
    BY <2>11, <1>m, <1>o DEF BeginStart, Goto, OneOwner, Surrendered
  <2>12. CASE ReplacedBeforeStart
    BY <2>12, <1>m, <1>o DEF ReplacedBeforeStart, Goto, OneOwner, OwnedRunning, Surrendered
  <2>13. CASE OpenReturns
    BY <2>13, <1>m, <1>o DEF OpenReturns, Goto, OneOwner, OwnedRunning, Surrendered
  <2>14. CASE Resolved
    <3>1. /\ pc = "resolve" /\ pc' \in {"error", "abandoned", "launch"}
          /\ UNCHANGED <<intents, intent, allow, lease, core, processes>>
      BY <2>14 DEF Resolved, Goto
    <3> QED BY <3>1, <1>m, <1>o DEF OneOwner, OwnedRunning, Surrendered
  <2>15. CASE LaunchFails
    BY <2>15, <1>m, <1>o DEF LaunchFails, OneOwner, OwnedRunning, Surrendered
  <2>16. CASE Spawn
    <3>1. PICK l \in Lease \ spawned : proc' = [proc EXCEPT ![l] = "alive"] /\ lease' = l
      BY <2>16 DEF Spawn
    <3>2. /\ pc = "launch" /\ pc' = "spawned" /\ UNCHANGED <<intents, intent, allow, core, exited>>
      BY <2>16 DEF Spawn
    <3>3. target' = target /\ terminalRequested' = terminalRequested BY <3>2, TargetKept
    <3>4. spawned' = spawned \cup {l} BY <3>1, <1>t DEF spawned, ProcessesOK
    <3>5. out' = {l} /\ l \notin exited
      BY <3>1, <3>2, <3>4, <1>o DEF out, NotExited
    <3> QED BY <3>1, <3>2, <3>3, <3>4, <3>5, <1>o, <1>n, <1>q
            DEF OneOwner, OwnedRunning, NotExited, Held
  <2>17. CASE Launched
    BY <2>17, <1>m, <1>o DEF Launched, Goto, OneOwner, OwnedRunning, Surrendered
  <2>18. CASE Connected
    <3>1. /\ pc = "connection" /\ pc' = "settle" /\ lease \in Lease /\ lease' = None
          /\ session' = [lease |-> lease, generation |-> heard.generation, peer |-> heard.peer]
          /\ UNCHANGED <<intents, intent, allow, unconfirmed, recovery, processes>>
      BY <2>18, <1>t DEF Connected, Present, WorkerOK
    <3>2. session' # None
      <4>1. heard \in Connection BY <2>18, <1>t DEF Connected, Present
      <4>2. session' \in Session BY <3>1, <4>1 DEF Session, Connection
      <4> QED BY <4>2, NullAssumption
    <3>3. session'.lease = lease BY <3>1
    <3>4. target' = target /\ terminalRequested' = terminalRequested BY <3>1, TargetKept
    <3>5. out' = out /\ spawned' = spawned /\ exited' = exited BY <3>1, OutKept
    <3>6. out' \subseteq Held' \/ Surrendered'
      BY <3>1, <3>2, <3>3, <3>4, <3>5, <1>o DEF Held, Surrendered, OneOwner
    <3> QED BY <3>1, <3>2, <3>3, <3>4, <3>5, <3>6, <1>o, <1>n, <1>q
            DEF OneOwner, OwnedRunning, NotExited
  <2>19. CASE NotConnected
    BY <2>19, <1>m, <1>o DEF NotConnected, Goto, OneOwner, OwnedRunning, Surrendered
  <2>20. CASE Released
    <3>1. /\ lease \in Lease /\ lease' = None /\ pc \in {"releaseQuiet", "releaseFailed"}
          /\ session = None /\ unconfirmed = None /\ recovery = None /\ phase # "running"
          /\ UNCHANGED <<intents, intent, allow, phase, session, recovery>>
      BY <2>20, <1>t, <1>o DEF Released, CancelWaiter, Present, WorkerOK, OneOwner, OwnedRunning
    <3>2. target' = target /\ terminalRequested' = terminalRequested BY <3>1, TargetKept
    <3>3. CASE ConfirmExit(lease) /\ pc' \in {"abandoned", "error"} /\ UNCHANGED unconfirmed
      <4>1. out' = out \ {lease} /\ exited' = exited \cup {lease} /\ spawned' = spawned \cup {lease}
        BY <3>1, <3>3, <1>t, OutConfirmed
      <4>2. out' \subseteq Held' \/ Surrendered'
        BY <3>1, <3>2, <3>3, <4>1, <1>o DEF Held, Surrendered
      <4> QED BY <3>1, <3>2, <3>3, <4>1, <4>2, <1>o, <1>n, <1>q
              DEF OneOwner, OwnedRunning, NotExited
    <3>4. CASE unconfirmed' = lease /\ pc' = "error" /\ UNCHANGED processes
      <4>1. out' = out /\ spawned' = spawned /\ exited' = exited BY <3>4, OutKept
      <4>2. out' \subseteq Held' \/ Surrendered'
        BY <3>1, <3>2, <3>4, <4>1, <1>o DEF Held, Surrendered
      <4> QED BY <3>1, <3>2, <3>4, <4>1, <4>2, <1>o, <1>n, <1>q
              DEF OneOwner, OwnedRunning, NotExited
    <3> QED BY <2>20, <3>3, <3>4 DEF Released
  <2>21. CASE Settle
    <3>1. pc = "settle" /\ pc' = "top"
          /\ UNCHANGED <<asked, intent, allow, lease, core, processes>>
      BY <2>21 DEF Settle, Goto
    <3>2. target' = target /\ terminalRequested' = terminalRequested BY <3>1, TargetKept
    <3>3. out' = out /\ spawned' = spawned /\ exited' = exited BY <3>1, OutKept
    <3>4. out' \subseteq Held' \/ Surrendered'
      BY <3>1, <3>2, <3>3, <1>o DEF Held, Surrendered
    <3> QED BY <3>1, <3>2, <3>3, <3>4, <1>o, <1>q DEF OneOwner, OwnedRunning, NotExited
  <2>22. CASE Error
    <3>1. pc = "error" /\ pc' = "top" /\ phase' # "running"
          /\ UNCHANGED <<asked, intent, allow, lease, session, unconfirmed, recovery, processes>>
      BY <2>22, <1>o DEF Error, Goto, OwnedRunning
    <3>2. target' = target /\ terminalRequested' = terminalRequested BY <3>1, TargetKept
    <3>3. out' = out /\ spawned' = spawned /\ exited' = exited BY <3>1, OutKept
    <3>4. out' \subseteq Held' \/ Surrendered'
      BY <3>1, <3>2, <3>3, <1>o DEF Held, Surrendered
    <3> QED BY <3>1, <3>2, <3>3, <3>4, <1>o, <1>q DEF OneOwner, OwnedRunning, NotExited
  <2> QED BY <1>2, <2>1, <2>2, <2>3, <2>4, <2>5, <2>6, <2>7, <2>8, <2>9, <2>10, <2>11,
             <2>12, <2>13, <2>14, <2>15, <2>16, <2>17, <2>18, <2>19, <2>20, <2>21, <2>22
          DEF WorkerStep
<1> QED BY <1>1, <1>2, <1>3, <1>4, <1>5, <1>6 DEF Next

LEMMA Invariants == Spec => [](TypeInv /\ OwnInv)
<1>1. Init => TypeInv /\ OwnInv BY TypeInit, OwnInit
<1>2. TypeInv /\ OwnInv /\ [Next]_vars => (TypeInv /\ OwnInv)'
  BY TypeNext, OwnNext
<1> QED BY <1>1, <1>2, PTL DEF Spec

\* _startSession spawns a Core process only when every earlier one is confirmed
\* to have exited, so two are never out at once.
THEOREM OneCoreHolds == Spec => []OneCore
<1>1. OwnInv => OneCore
  <2> SUFFICES ASSUME OwnInv PROVE Cardinality(out) <= 1
      BY DEF OneCore, out
  <2>1. CASE out = {} BY <2>1, FS_EmptySet
  <2>2. ASSUME NEW l \in Lease, out = {l} PROVE Cardinality(out) <= 1
    BY <2>2, FS_Singleton
  <2> QED BY <2>1, <2>2 DEF OwnInv
<1> QED BY <1>1, Invariants, PTL

\* Whatever path the worker leaves a start or a stop on, a Core process that may
\* be alive has an owner until the application closes.
THEOREM NoOrphanHolds == Spec => []NoOrphan
<1>1. OwnInv => NoOrphan BY DEF OwnInv, NoOrphan, Surrendered, out
<1> QED BY <1>1, Invariants, PTL

\* _handleUnexpectedDisconnect and _stopSession never leave a running session
\* whose process they stop.
THEOREM RunningIsOwnedHolds == Spec => []RunningIsOwned
<1>1. TypeInv /\ OwnInv => RunningIsOwned
  <2> SUFFICES ASSUME TypeInv, OwnInv, phase = "running" PROVE RunningIsOwned
      BY DEF RunningIsOwned
  <2>1. /\ session # None /\ unconfirmed = None /\ recovery = None
        /\ session.lease \notin exited /\ pc \notin Owning /\ pc # "grace"
    BY DEF OwnInv, OwnedRunning, NotExited, Owning
  <2>2. lease = None BY <2>1 DEF OwnInv, OneOwner
  <2>3. session.lease \in Lease BY <2>1 DEF TypeInv, TypeOK, Session
  <2> QED BY <2>1, <2>2, <2>3, BoundsAssumption DEF RunningIsOwned
<1> QED BY <1>1, Invariants, PTL

(***************************************************************************)
(* AnsweredInOrder needs only the lengths to agree.                        *)
(***************************************************************************)
LEMMA OrderNext == TypeInv /\ AnsweredInOrder /\ [Next]_vars => AnsweredInOrder'
<1> SUFFICES ASSUME TypeInv, AnsweredInOrder, [Next]_vars PROVE AnsweredInOrder'
    OBVIOUS
<1>t. /\ outcome \in Seq(Outcomes) /\ Len(outcome) = revision /\ revision \in Nat
      /\ DOMAIN outcome = 1..revision
  BY DEF TypeInv, TypeOK, revision
<1>1. CASE UNCHANGED outcome BY <1>1 DEF AnsweredInOrder, pending
<1>2. ASSUME NEW t \in Targets, Submit(t) PROVE AnsweredInOrder'
  <2>1. outcome' = Append(outcome, "pending") BY <1>2 DEF Submit
  <2>2. /\ DOMAIN outcome' = 1..(revision + 1) /\ outcome'[revision + 1] = "pending"
        /\ \A r \in 1..revision : outcome'[r] = outcome[r]
    BY <2>1, <1>t
  <2> QED BY <2>2, <1>t DEF AnsweredInOrder, pending
<1>3. CASE CompleteCommands
  BY <1>3, <1>t DEF CompleteCommands, AnsweredInOrder, pending
<1>4. CASE FailCommands(intent)
  <2>1. intent \in Nat BY <1>t DEF TypeInv, TypeOK
  <2> QED BY <1>4, <1>t, <2>1 DEF FailCommands, AnsweredInOrder, pending
<1>5. ASSUME WorkerStep, outcome' # outcome
      PROVE  CompleteCommands \/ FailCommands(intent)
  BY <1>5 DEF WorkerStep, LoopTop, Recovered, Cleanup, Dispatch, Stopped, Closing, Abandoned,
     StopReturns, GraceEnds, ReplacedAfterStop, BeginStart, ReplacedBeforeStart, OpenReturns,
     Resolved, LaunchFails, Spawn, Launched, Connected, NotConnected, Released, Settle, Error,
     intents
<1>6. CASE WaiterTimeout \/ RecoveryEnds \/ Environment \/ UNCHANGED vars
  BY <1>6, <1>1 DEF WaiterTimeout, RecoveryEnds, Environment, Opened, Accept, Disconnect,
     WireFails, Dial, Exit, vars, intents
<1> QED BY <1>1, <1>2, <1>3, <1>4, <1>5, <1>6 DEF Next

\* _completeCommands and _failCommands never answer a command and leave an
\* earlier one waiting.
THEOREM AnsweredInOrderHolds == Spec => []AnsweredInOrder
<1>1. Init => AnsweredInOrder BY DEF Init, AnsweredInOrder
<1> QED BY <1>1, Invariants, OrderNext, PTL DEF Spec

(***************************************************************************)
(* What an attempt achieved is still so when the worker holds it against   *)
(* the latest command, and what is owned was spawned.                      *)
(***************************************************************************)
Achievement ==
    pc = "settle" =>
        /\ achieved \in {"runningExisting", "runningFresh"} => phase = "running" /\ session # None
        /\ achieved = "idle" => session = None
        /\ achieved = "closed" => phase = "closed"

OwnsSpawned ==
    /\ lease # None => lease \in spawned
    /\ session # None => session.lease \in spawned

\* The commands change only with a command, an attempt that ends, or one that fails.
LEMMA AnswerSteps ==
    [Next]_vars => \/ UNCHANGED intents
                   \/ \E t \in Targets : Submit(t)
                   \/ Settle
                   \/ Error
<1> SUFFICES ASSUME [Next]_vars, ~ \E t \in Targets : Submit(t), ~Settle, ~Error
             PROVE  UNCHANGED intents
    OBVIOUS
<1>1. CASE WorkerStep
  BY <1>1 DEF WorkerStep, LoopTop, Recovered, Cleanup, Dispatch, Stopped, Closing, Abandoned,
     StopReturns, GraceEnds, ReplacedAfterStop, BeginStart, ReplacedBeforeStart, OpenReturns,
     Resolved, LaunchFails, Spawn, Launched, Connected, NotConnected, Released
<1>2. CASE WaiterTimeout \/ RecoveryEnds \/ Environment \/ UNCHANGED vars
  BY <1>2 DEF WaiterTimeout, RecoveryEnds, Environment, Opened, Accept, Disconnect,
     WireFails, Dial, Exit, vars
<1> QED BY <1>1, <1>2 DEF Next

LEMMA AchieveNext ==
    TypeInv /\ OwnInv /\ Achievement /\ [Next]_vars => Achievement'
<1> SUFFICES ASSUME TypeInv, OwnInv, Achievement, [Next]_vars, pc' = "settle" PROVE Achievement'
    BY DEF Achievement
<1>o. OneOwner BY DEF OwnInv
<1> USE DEF core
\* The worker does not wait at settle, so no event comes between.
<1>1. CASE UNCHANGED <<pc, achieved, phase, session>>
  BY <1>1 DEF Achievement
<1>2. ASSUME AfterStop, session = None PROVE Achievement'
  BY <1>2 DEF AfterStop, Goto, Return, Achievement
<1>3. CASE WorkerStep
  <2>1. CASE Dispatch
    BY <1>2, <2>1 DEF Dispatch, BeginStop, Goto, Return, Achievement
  <2>2. CASE Stopped
    BY <1>2, <1>o, <2>2 DEF Stopped, OneOwner, Stopping
  <2>3. CASE Closing
    BY <2>3 DEF Closing, Return, Achievement
  <2>4. CASE Abandoned
    BY <1>o, <2>4 DEF Abandoned, OneOwner, Return, Achievement
  <2>5. CASE Connected
    <3>1. session' # None
      <4>1. heard \in Connection /\ lease \in Lease
        BY <2>5, TypeParts DEF Connected, TypeInv, Present, WorkerOK, Owning
      <4>2. session' \in Session BY <2>5, <4>1 DEF Connected, Session, Connection
      <4> QED BY <4>2, NullAssumption
    <3> QED BY <2>5, <3>1 DEF Connected, Achievement
  <2>6. CASE LoopTop \/ Recovered \/ Cleanup
    BY <2>6 DEF LoopTop, Recovered, Cleanup, Goto, Take
  <2>7. CASE StopReturns \/ GraceEnds \/ ReplacedAfterStop \/ BeginStart \/ ReplacedBeforeStart
    BY <2>7 DEF StopReturns, GraceEnds, ReplacedAfterStop, BeginStart, ReplacedBeforeStart, Goto
  <2>8. CASE OpenReturns \/ Resolved \/ LaunchFails \/ Spawn \/ Launched \/ NotConnected \/ Released
    BY <2>8 DEF OpenReturns, Resolved, LaunchFails, Spawn, Launched, NotConnected, Released, Goto
  <2>9. CASE Settle \/ Error
    BY <2>9 DEF Settle, Error, Goto
  <2> QED BY <1>3, <2>1, <2>2, <2>3, <2>4, <2>5, <2>6, <2>7, <2>8, <2>9 DEF WorkerStep
<1>4. ASSUME NEW t \in Targets, Submit(t) PROVE Achievement'
  BY <1>1, <1>4 DEF Submit
<1>5. CASE WaiterTimeout \/ RecoveryEnds \/ Environment
  <2>1. pc' = pc BY <1>5 DEF WaiterTimeout, RecoveryEnds, Environment, Opened, Accept, Disconnect,
                             WireFails, Dial, Exit, worker
  <2>2. ~Parked BY <2>1 DEF Parked, Awaits
  <2> QED BY <1>1, <1>5, <2>2 DEF WaiterTimeout, RecoveryEnds, Environment, Opened, Accept,
                                  Disconnect, WireFails, Dial, Exit, worker
<1>6. CASE UNCHANGED vars BY <1>1, <1>6 DEF vars, worker
<1> QED BY <1>3, <1>4, <1>5, <1>6 DEF Next

LEMMA SpawnedNext == TypeInv /\ OwnsSpawned /\ [Next]_vars => OwnsSpawned'
<1> SUFFICES ASSUME TypeInv, OwnsSpawned, [Next]_vars PROVE OwnsSpawned'
    OBVIOUS
<1>t. WorkerOK /\ CoreOK /\ ProcessesOK /\ Present
  BY TypeParts DEF TypeInv
<1> USE DEF core, processes, worker
<1>1. ASSUME spawned \subseteq spawned', lease' \in {lease, None}, session' \in {session, None}
      PROVE  OwnsSpawned'
  BY <1>1 DEF OwnsSpawned
<1>2. ASSUME NEW l \in Lease, ConfirmExit(l) PROVE spawned \subseteq spawned'
  BY <1>2, <1>t, OutConfirmed
<1>3. ASSUME UNCHANGED proc PROVE spawned' = spawned
  BY <1>3 DEF spawned
<1>4. CASE WorkerStep
  <2>1. CASE Spawn
    <3>1. PICK l \in Lease : proc' = [proc EXCEPT ![l] = "alive"] /\ lease' = l
      BY <2>1 DEF Spawn, spawned
    <3>2. spawned \subseteq spawned' /\ l \in spawned' BY <1>t, <3>1 DEF spawned, ProcessesOK
    <3> QED BY <2>1, <3>1, <3>2 DEF Spawn, OwnsSpawned
  <2>2. CASE Connected
    <3>1. lease \in spawned /\ session'.lease = lease /\ spawned' = spawned /\ lease' = None
      BY <1>3, <1>t, <2>2, BoundsAssumption DEF Connected, OwnsSpawned, Present, Owning
    <3> QED BY <3>1 DEF OwnsSpawned
  <2>3. CASE Cleanup \/ StopReturns \/ Released
    <3>1. spawned \subseteq spawned'
      <4>1. unconfirmed \in Lease \/ ~Cleanup BY <1>t DEF Cleanup, Present, CoreOK
      <4>2. session.lease \in Lease \/ ~StopReturns
        BY <1>t DEF StopReturns, Present, CoreOK, Session
      <4>3. lease \in Lease \/ ~Released BY <1>t DEF Released, Present, WorkerOK, Owning
      <4> QED BY <1>2, <1>3, <2>3, <4>1, <4>2, <4>3 DEF Cleanup, StopReturns, Released
    <3>2. lease' \in {lease, None} /\ session' \in {session, None}
      BY <2>3 DEF Cleanup, StopReturns, Released, Goto, Clear
    <3> QED BY <1>1, <3>1, <3>2
  <2>4. CASE LoopTop \/ Recovered \/ Dispatch \/ Stopped \/ Closing \/ Abandoned
    BY <1>1, <1>3, <2>4 DEF LoopTop, Recovered, Take, Goto, Return, Dispatch, BeginStop, Stopped,
                            AfterStop, Closing, Abandoned
  <2>5. CASE GraceEnds \/ ReplacedAfterStop \/ BeginStart \/ ReplacedBeforeStart
    BY <1>1, <1>3, <2>5 DEF GraceEnds, ReplacedAfterStop, BeginStart, ReplacedBeforeStart, Goto, Clear
  <2>6. CASE OpenReturns \/ Resolved \/ LaunchFails \/ Launched \/ NotConnected \/ Settle \/ Error
    BY <1>1, <1>3, <2>6 DEF OpenReturns, Resolved, LaunchFails, Launched, NotConnected, Settle,
                            Error, Goto
  <2> QED BY <1>4, <2>1, <2>2, <2>3, <2>4, <2>5, <2>6 DEF WorkerStep
<1>5. ASSUME NEW t \in Targets, Submit(t) PROVE OwnsSpawned'
  BY <1>1, <1>3, <1>5 DEF Submit
<1>6. CASE RecoveryEnds
  <2>1. recovery \in Lease BY <1>6, <1>t DEF RecoveryEnds, CoreOK
  <2> QED BY <1>1, <1>2, <1>3, <1>6, <2>1 DEF RecoveryEnds
<1>7. ASSUME NEW l \in Lease, Dial(l) \/ Exit(l) PROVE OwnsSpawned'
  <2>1. spawned \subseteq spawned' BY <1>7, <1>t DEF Dial, Exit, spawned, ProcessesOK
  <2> QED BY <1>1, <1>7, <2>1 DEF Dial, Exit
<1>8. CASE WaiterTimeout \/ Opened \/ Accept \/ Disconnect \/ WireFails \/ UNCHANGED vars
  BY <1>1, <1>3, <1>8 DEF WaiterTimeout, Opened, Accept, Disconnect, WireFails, LoseRunning, Clear, vars
<1> QED BY <1>4, <1>5, <1>6, <1>7, <1>8 DEF Next, Environment

LEMMA AchieveHolds == Spec => [](TypeInv /\ OwnInv /\ Achievement /\ OwnsSpawned)
<1>1. Init => Achievement /\ OwnsSpawned
  BY DEF Init, Achievement, OwnsSpawned
<1> QED BY <1>1, Invariants, AchieveNext, SpawnedNext, PTL DEF Spec

\* "applied" is only reported to a start, a restart or a close when it is so:
\* the session runs, or the lifecycle is closed (_runWorker, _completeCommands).
THEOREM AppliedExceptStopsHolds == Spec => AppliedExceptStops
<1>1. TypeInv /\ OwnInv /\ Achievement /\ OwnsSpawned /\ [Next]_vars
          => [AppliedTruly(Targets \ {"stopped"})]_vars
  <2> SUFFICES ASSUME TypeInv, Achievement, [Next]_vars, NEW r \in DOMAIN outcome,
                      outcome[r] = "pending", outcome'[r] = "applied", asked[r] # "stopped"
               PROVE  Applied(asked[r])
      BY DEF AppliedTruly
  <2>t. /\ outcome \in Seq(Outcomes) /\ DOMAIN outcome = 1..revision
        /\ asked \in Seq(Targets) /\ asked # <<>> /\ asked[r] \in Targets
    BY DEF TypeInv, TypeOK, revision
  <2>1. CASE Settle
    <3>1. Satisfies(achieved, desired) /\ r = revision /\ pc = "settle"
      BY <2>1, <2>t DEF Settle, CompleteCommands, pending
    <3>2. asked[r] = desired BY <2>t, <3>1 DEF desired, revision
    <3>3. CASE desired = "closed" BY <3>1, <3>2, <3>3 DEF Satisfies, Achievement, Applied
    <3>4. CASE desired \in {"running", "restarted"}
      BY <3>1, <3>2, <3>4 DEF Satisfies, Achievement, Applied
    <3> QED BY <2>t, <3>2, <3>3, <3>4 DEF Targets
  <2>2. CASE Error BY <2>2, <2>t DEF Error, FailCommands
  <2>3. ASSUME NEW t \in Targets, Submit(t) PROVE FALSE
    <3>1. outcome' = Append(outcome, "pending") BY <2>3 DEF Submit
    <3>2. r \in 1..Len(outcome) BY DEF TypeInv, TypeOK
    <3>3. outcome'[r] = outcome[r] BY <2>t, <3>1, <3>2
    <3> QED BY <3>3
  <2>4. CASE UNCHANGED intents BY <2>4 DEF intents
  <2> QED BY <2>1, <2>2, <2>3, <2>4, AnswerSteps
<1> QED BY <1>1, AchieveHolds, PTL DEF Spec, AppliedExceptStops

(***************************************************************************)
(* The refinement: every step is one of LatestIntent, or none.             *)
(***************************************************************************)
LEMMA ProcessSteps ==
    ASSUME TypeInv, OwnInv, [Next]_vars
    PROVE  \/ out' = out
           \/ out' = {} /\ UNCHANGED intents
           \/ out = {} /\ (\E l \in Lease : out' = {l}) /\ UNCHANGED intents
<1>t. WorkerOK /\ CoreOK /\ ProcessesOK /\ Present
  BY TypeParts DEF TypeInv
<1>o. /\ out = {} \/ \E l \in Lease : out = {l}
      /\ exited \subseteq spawned
      /\ pc = "launch" => out = {}
  BY DEF OwnInv, NotExited, Launching
<1>1. CASE UNCHANGED processes BY <1>1, OutKept
<1>2. ASSUME NEW l \in Lease, ConfirmExit(l) PROVE out' \in {out, {}}
  <2>1. out' = out \ {l} BY <1>2, <1>t, OutConfirmed
  <2> QED BY <1>o, <2>1
<1>3. CASE Spawn
  <2>1. PICK l \in Lease \ spawned : proc' = [proc EXCEPT ![l] = "alive"]
    BY <1>3 DEF Spawn
  <2>2. out = {} /\ exited' = exited /\ UNCHANGED intents BY <1>3, <1>o DEF Spawn
  <2>3. spawned' = spawned \cup {l} BY <1>t, <2>1 DEF spawned, ProcessesOK
  <2>4. out' = {l} BY <1>o, <2>1, <2>2, <2>3 DEF out
  <2> QED BY <2>2, <2>4
<1>4. CASE Cleanup \/ StopReturns \/ Released \/ RecoveryEnds
  <2>1. unconfirmed \in Lease \/ ~Cleanup BY <1>t DEF Cleanup, Present, CoreOK
  <2>2. session.lease \in Lease \/ ~StopReturns
    BY <1>t DEF StopReturns, Present, CoreOK, Session
  <2>3. lease \in Lease \/ ~Released BY <1>t DEF Released, Present, WorkerOK, Owning
  <2>4. recovery \in Lease \/ ~RecoveryEnds BY <1>t DEF RecoveryEnds, CoreOK
  <2>5. UNCHANGED intents BY <1>4 DEF Cleanup, StopReturns, Released, RecoveryEnds
  <2>6. UNCHANGED processes \/ \E l \in Lease : ConfirmExit(l)
    BY <1>4, <2>1, <2>2, <2>3, <2>4 DEF Cleanup, StopReturns, Released, RecoveryEnds
  <2> QED BY <1>1, <1>2, <2>5, <2>6
<1>5. ASSUME NEW l \in Lease, Dial(l) \/ Exit(l) PROVE out' = out
  BY <1>5, <1>t DEF Dial, Exit, out, spawned, ProcessesOK
<1>6. CASE /\ WorkerStep
           /\ ~(Spawn \/ Cleanup \/ StopReturns \/ Released)
  BY <1>1, <1>6
     DEF WorkerStep, LoopTop, Recovered, Dispatch, Stopped, Closing, Abandoned, GraceEnds,
         ReplacedAfterStop, BeginStart, ReplacedBeforeStart, OpenReturns, Resolved, LaunchFails,
         Launched, Connected, NotConnected, Settle, Error
<1>7. CASE WaiterTimeout \/ Opened \/ Accept \/ Disconnect \/ WireFails \/ UNCHANGED vars
  BY <1>1, <1>7 DEF WaiterTimeout, Opened, Accept, Disconnect, WireFails, vars
<1>8. ASSUME NEW t \in Targets, Submit(t) PROVE UNCHANGED processes
  BY <1>8 DEF Submit
<1> QED BY <1>1, <1>3, <1>4, <1>5, <1>6, <1>7, <1>8 DEF Next, Environment

\* Who is answered applied is told the truth of the Core processes: none after
\* a stop, one after a start.
LEMMA SettledCores ==
    ASSUME TypeInv, OwnInv, Achievement, OwnsSpawned, pc = "settle", Satisfies(achieved, desired)
    PROVE  /\ desired = "stopped" => out = {}
           /\ desired \in {"running", "restarted"} => \E l \in Lease : out = {l}
<1>o. /\ lease = None /\ unconfirmed = None /\ recovery = None
      /\ out \subseteq Held \/ terminalRequested
      /\ session # None => session.lease \notin exited
      /\ out = {} \/ \E l \in Lease : out = {l}
  BY DEF OwnInv, OneOwner, NotExited, Owning, Surrendered
<1>1. CASE desired = "stopped"
  <2>1. session = None /\ ~terminalRequested
    BY <1>1 DEF Satisfies, Achievement, terminalRequested
  <2>2. Held = {None} BY <1>o, <2>1 DEF Held
  <2>3. None \notin out BY BoundsAssumption DEF out, spawned
  <2> QED BY <1>1, <1>o, <2>1, <2>2, <2>3
<1>2. CASE desired \in {"running", "restarted"}
  <2>1. session # None BY <1>2 DEF Satisfies, Achievement
  <2>2. session.lease \in out BY <1>o, <2>1 DEF OwnsSpawned, out
  <2> QED BY <1>2, <1>o, <2>2
<1> QED BY <1>1, <1>2

LEMMA PromiseStep ==
    TypeInv /\ OwnInv /\ Achievement /\ OwnsSpawned /\ [Next]_vars
        => [Promise!Next]_(Promise!vars)
<1> SUFFICES ASSUME TypeInv, OwnInv, Achievement, OwnsSpawned, [Next]_vars
             PROVE  [Promise!Next]_(Promise!vars)
    OBVIOUS
<1>t. /\ outcome \in Seq(Outcomes) /\ asked \in Seq(Targets) /\ Len(outcome) = Len(asked)
      /\ DOMAIN outcome = 1..Len(asked) /\ DOMAIN asked = 1..Len(asked) /\ Len(asked) \in Nat
      /\ revision = Len(asked) /\ intent \in 0..Len(asked)
  BY DEF TypeInv, TypeOK, revision
<1>p. Promise!vars = <<asked, outcome, out>> /\ Promise!vars' = <<asked', outcome', out'>>
  BY DEF Promise!vars, out
<1>c. Promise!Closing <=> terminalRequested
  BY DEF Promise!Closing, terminalRequested, desired
<1>1. CASE UNCHANGED intents
  <2>1. CASE out' = out BY <1>1, <1>p, <2>1 DEF intents
  <2>2. CASE out' = {} BY <1>1, <2>2 DEF Promise!Next, Promise!Retire, out, intents
  <2>3. CASE out = {} /\ \E l \in Lease : out' = {l}
    BY <1>1, <2>3 DEF Promise!Next, Promise!Launch, out, intents
  <2> QED BY <2>1, <2>2, <2>3, ProcessSteps
<1>2. ASSUME NEW t \in Targets, Submit(t) PROVE [Promise!Next]_(Promise!vars)
  <2>1. out' = out BY <1>2, OutKept DEF Submit
  <2>2. Promise!Ask
    BY <1>2, <1>c, <2>1 DEF Submit, Promise!Ask, Promise!Targets, Targets, out
  <2> QED BY <2>2 DEF Promise!Next
<1>3. CASE Settle
  <2>1. out' = out /\ asked' = asked BY <1>3, OutKept DEF Settle
  <2>2. CASE outcome' = outcome BY <1>p, <2>1, <2>2
  <2>3. CASE outcome' # outcome
    <3>1. /\ Satisfies(achieved, desired) /\ pc = "settle"
          /\ CompleteCommands
      BY <1>3, <2>3 DEF Settle
    <3>2. pending # {}
      <4> SUFFICES ASSUME pending = {} PROVE FALSE
          OBVIOUS
      <4>1. \A r \in DOMAIN outcome : outcome'[r] = outcome[r]
        BY <3>1 DEF CompleteCommands
      <4>2. outcome' = outcome BY <1>t, <3>1, <4>1 DEF CompleteCommands
      <4> QED BY <2>3, <4>2
    <3>3. asked # <<>> BY <1>t, <3>2 DEF pending
    <3>4. desired = asked[Len(asked)] BY <3>3 DEF desired
    <3>5. /\ desired = "stopped" => out = {}
          /\ desired \in {"running", "restarted"} => \E l \in Lease : out = {l}
      BY <3>1, SettledCores
    <3>6. outcome' = [r \in DOMAIN outcome |->
                IF outcome[r] # "pending" THEN outcome[r]
                ELSE IF r = Len(asked) THEN "applied"
                ELSE IF asked[r] = desired \/ (Promise!Runs(asked[r]) /\ Promise!Runs(desired))
                THEN "coalesced" ELSE "superseded"]
      BY <1>t, <3>1 DEF CompleteCommands, pending, Coalesce, Promise!Runs
    <3>7. Promise!Serve
      BY <2>1, <3>2, <3>4, <3>5, <3>6 DEF Promise!Serve, Promise!Pending, Promise!Runs, pending, out
    <3> QED BY <3>7 DEF Promise!Next
  <2> QED BY <2>2, <2>3
<1>4. CASE Error
  <2>1. out' = out /\ asked' = asked BY <1>4, OutKept DEF Error
  <2>2. CASE outcome' = outcome BY <1>p, <2>1, <2>2
  <2>3. CASE outcome' # outcome
    <3>1. (revision = intent \/ desired # "closed") /\ FailCommands(intent)
      BY <1>4, <2>3 DEF Error
    <3>2. intent # 0
      <4> SUFFICES ASSUME intent = 0 PROVE FALSE
          OBVIOUS
      <4>1. \A r \in DOMAIN outcome : outcome'[r] = outcome[r]
        BY <1>t, <3>1 DEF FailCommands
      <4>2. outcome' = outcome BY <1>t, <3>1, <4>1 DEF FailCommands
      <4> QED BY <2>3, <4>2
    <3>3. intent \in DOMAIN asked /\ (Promise!Closing => intent = Len(asked))
      <4>1. intent \in DOMAIN asked BY <1>t, <3>2
      <4>2. Promise!Closing => desired = "closed" BY <1>c DEF terminalRequested
      <4> QED BY <1>t, <3>1, <4>1, <4>2
    <3>4. outcome' = [r \in DOMAIN outcome |->
                IF outcome[r] = "pending" /\ r <= intent THEN "failed" ELSE outcome[r]]
      BY <3>1 DEF FailCommands, pending
    <3>5. Promise!Refuse BY <2>1, <3>3, <3>4 DEF Promise!Refuse, out
    <3> QED BY <3>5 DEF Promise!Next
  <2> QED BY <2>2, <2>3
<1> QED BY <1>1, <1>2, <1>3, <1>4, AnswerSteps

\* DesktopCoreLifecycle implements LatestIntent: whatever is asked and whatever
\* fails meanwhile, the latest command decides what the callers are answered
\* with, and the answer is true of the Core processes.
THEOREM KeepsPromiseHolds == Spec => KeepsPromise
<1>1. Init => Promise!Init
  BY DEF Init, Promise!Init, spawned
<1> QED BY <1>1, AchieveHolds, PromiseStep, PTL DEF Spec, KeepsPromise, Promise!Spec
=============================================================================
