----------------------------- MODULE AndroidBridge -----------------------------
(***************************************************************************)
(* The Android side of the Core: the TUN handle and its socket hooks       *)
(* (core/lib.go, core/tun/tun.go) and the system's DNS servers.            *)
(*                                                                         *)
(* A VPN service hands over a TUN descriptor with callbacks of its own.    *)
(* Each start makes a TunHandler, named here by the number of the start.   *)
(* Sockets opened anywhere in the process reach the active handler, so its *)
(* lock, th.mu, is taken under tunLock and configMu by the calls and under *)
(* neither by the dials.  The dials that configMu's holders make, and the  *)
(* one that the opening of the TUN itself makes, take it as well.          *)
(***************************************************************************)
EXTENDS Naturals, FiniteSets

CONSTANTS
    Callers,    \* goroutines that start and stop the TUN
    Dialers,    \* goroutines that open sockets, an apply under configMu among them
    MaxStarts,  \* bound: starts
    MaxDns,     \* bound: DNS updates
    None

ASSUME BridgeAssumption ==
    /\ MaxStarts \in Nat \ {0} /\ MaxDns \in Nat
    /\ Callers \cap Dialers = {} /\ None \notin Callers \cup Dialers \cup Nat

Starts  == 1..MaxStarts
Threads == Callers \cup Dialers

VARIABLES
    pc,                 \* where each goroutine is
    at,                 \* the handler each works with: th
    tunLock, configMu,  \* their holders
    writer, readers,    \* th.mu: who holds or waits for it to write, who reads
    tunHandler,         \* the global: a handler or None
    active,             \* activeTunHandler
    listening,          \* handlers with a listener
    kept,               \* handlers with their callbacks
    starts,             \* how many starts there were
    open,               \* open descriptors: a start's own, and its duplicate
    stray,              \* a descriptor was closed that was not open
    asked, waiting, updating, applied   \* the DNS updates, by their numbers

locks == <<tunLock, configMu>>
hooks == <<tunHandler, active, listening, kept>>
fds   == <<starts, open, stray>>
dns   == <<asked, waiting, updating, applied>>
vars  == <<pc, at, locks, writer, readers, hooks, fds, dns>>

Own(th) == [start |-> th, dup |-> FALSE]
Dup(th) == [start |-> th, dup |-> TRUE]

Init ==
    /\ pc = [t \in Threads |-> "idle"] /\ at = [t \in Threads |-> None]
    /\ tunLock = None /\ configMu = None
    /\ writer = [th \in Starts |-> None] /\ readers = [th \in Starts |-> {}]
    /\ tunHandler = None /\ active = None /\ listening = {} /\ kept = {}
    /\ starts = 0 /\ open = {} /\ stray = FALSE
    /\ asked = 0 /\ waiting = {} /\ updating = 0 /\ applied = 0

---------------------------------------------------------------------------

Goto(t, from, to) == pc[t] = from /\ pc' = [pc EXCEPT ![t] = to]

\* th.mu, which lets no reader in once a writer waits.
WantWrite(t, th) == writer[th] = None /\ writer' = [writer EXCEPT ![th] = t]
HasWrite(t, th)  == writer[th] = t /\ readers[th] = {}
DropWrite(th)    == writer' = [writer EXCEPT ![th] = None]
MayRead(th)      == writer[th] = None

Close(fdsGiven) ==
    /\ open' = open \ fdsGiven
    /\ stray' = (stray \/ ~(fdsGiven \subseteq open))

\* TunHandler.clear: removeHook takes back the hook only while it is this handler's.
Clear(th) ==
    /\ active' = IF active = th THEN None ELSE active
    /\ listening' = listening \ {th} /\ kept' = kept \ {th}
    /\ tunHandler' = None

---------------------------------------------------------------------------
(* handleStartTun and handleStopTun *)

\* The service established a TUN and hands its descriptor over.
StartTun(t) ==
    /\ starts < MaxStarts /\ starts' = starts + 1
    /\ open' = open \cup {Own(starts')} /\ UNCHANGED stray
    /\ Goto(t, "idle", "start") /\ at' = [at EXCEPT ![t] = starts']
    /\ UNCHANGED <<locks, writer, readers, hooks, dns>>

\* The TUN that is up goes first: stopTunLocked waits for its callbacks to end.
StartLock(t) ==
    /\ pc[t] = "start" /\ tunLock = None /\ tunLock' = t
    /\ IF tunHandler = None
       THEN Goto(t, "start", "hook") /\ UNCHANGED writer
       ELSE Goto(t, "start", "replace") /\ WantWrite(t, tunHandler)
    /\ UNCHANGED <<at, configMu, readers, hooks, fds, dns>>

StopTun(t) ==
    /\ tunLock = None
    /\ IF tunHandler = None
       THEN UNCHANGED <<pc, tunLock, writer>>
       ELSE Goto(t, "idle", "stop") /\ tunLock' = t /\ WantWrite(t, tunHandler)
    /\ pc[t] = "idle"
    /\ UNCHANGED <<at, configMu, readers, hooks, fds, dns>>

ClosesAtOnce(t, th) == writer[th] = t                             \* faulty variant
MayClose(t, th)     == HasWrite(t, th)

\* TunHandler.close
CloseTun(t) ==
    /\ pc[t] \in {"replace", "stop"} /\ MayClose(t, tunHandler)
    /\ Clear(tunHandler) /\ DropWrite(tunHandler)
    /\ Close({Dup(tunHandler)} \cap {Dup(th) : th \in listening})
    /\ IF pc[t] = "replace"
       THEN Goto(t, "replace", "hook") /\ UNCHANGED tunLock
       ELSE Goto(t, "stop", "idle") /\ tunLock' = None
    /\ UNCHANGED <<at, configMu, readers, starts, dns>>

---------------------------------------------------------------------------
(* TunHandler.start *)

KeepsMu(t)  == writer' = [writer EXCEPT ![at[t]] = t]              \* faulty variant
LeavesMu(t) == UNCHANGED writer

\* The hook goes in under th.mu, which nobody else can hold yet, and is given back.
InitHook(t) ==
    /\ Goto(t, "hook", "open") /\ configMu = None /\ configMu' = t
    /\ tunHandler' = at[t] /\ active' = at[t]
    /\ kept' = kept \cup {at[t]} /\ UNCHANGED listening
    /\ LeavesMu(t)
    /\ UNCHANGED <<at, tunLock, readers, fds, dns>>

\* tun.Start opens sockets of its own, on this goroutine: handleProtect returns
\* early, after it took th.mu to read.
OpenDials(t) ==
    /\ Goto(t, "open", "opened")
    /\ active # None => MayRead(active)
    /\ UNCHANGED <<at, locks, writer, readers, hooks, fds, dns>>

\* tun.Start: a bad option, or no duplicate of the descriptor.
OpenRefused(t) ==
    /\ Goto(t, "opened", "failed") /\ Close({Own(at[t])})
    /\ UNCHANGED <<at, locks, writer, readers, hooks, starts, dns>>

\* sing_tun.New owns the duplicate from tunNew on, and closes it when it fails.
ClosesDupToo(th) == {Own(th), Dup(th)}                            \* faulty variant
LeftToStart(th)  == {Own(th)}

OpenFails(t) ==
    /\ Goto(t, "opened", "failed")
    /\ Close(LeftToStart(at[t]))
    /\ UNCHANGED <<at, locks, writer, readers, hooks, starts, dns>>

OpenTun(t) ==
    /\ Goto(t, "opened", "up")
    /\ open' = (open \ {Own(at[t])}) \cup {Dup(at[t])} /\ UNCHANGED stray
    /\ UNCHANGED <<at, locks, writer, readers, hooks, starts, dns>>

StartWrite(t) ==
    /\ pc[t] \in {"up", "failed"}
    /\ WantWrite(t, at[t])
    /\ Goto(t, pc[t], IF pc[t] = "up" THEN "keep" ELSE "drop")
    /\ UNCHANGED <<at, locks, readers, hooks, fds, dns>>

Done(t) == tunLock' = None /\ configMu' = None /\ DropWrite(at[t])

KeepTun(t) ==
    /\ Goto(t, "keep", "idle") /\ HasWrite(t, at[t])
    /\ listening' = listening \cup {at[t]} /\ UNCHANGED <<tunHandler, active, kept>>
    /\ Done(t)
    /\ UNCHANGED <<at, readers, fds, dns>>

LeavesHook(th) ==                                                 \* faulty variant
    tunHandler' = None /\ UNCHANGED <<active, listening, kept>>
Unhook(th)     == Clear(th)

DropTun(t) ==
    /\ Goto(t, "drop", "idle") /\ HasWrite(t, at[t])
    /\ Unhook(at[t])
    /\ Done(t)
    /\ UNCHANGED <<at, readers, fds, dns>>

---------------------------------------------------------------------------
(* The hooks: DefaultSocketHook and DefaultPackageNameResolver *)

\* An apply dials while it holds configMu.
Apply(d) ==
    /\ Goto(d, "idle", "applying") /\ configMu = None /\ configMu' = d
    /\ UNCHANGED <<at, tunLock, writer, readers, hooks, fds, dns>>

Ended(d) == IF configMu = d THEN configMu' = None ELSE UNCHANGED configMu

Dial(d) ==
    /\ pc[d] \in {"idle", "applying"}
    /\ at' = [at EXCEPT ![d] = active]
    /\ IF active = None
       THEN Goto(d, pc[d], "idle") /\ Ended(d)
       ELSE Goto(d, pc[d], "dialing") /\ UNCHANGED configMu
    /\ UNCHANGED <<tunLock, writer, readers, hooks, fds, dns>>

\* handleProtect, handleResolveProcess: the callback runs under th.mu.
ReadsHook(th) == th \in listening /\ th \in kept

Protect(d) ==
    /\ pc[d] = "dialing" /\ MayRead(at[d])
    /\ IF ReadsHook(at[d])
       THEN /\ Goto(d, "dialing", "callback")
            /\ readers' = [readers EXCEPT ![at[d]] = @ \cup {d}]
            /\ UNCHANGED configMu
       ELSE Goto(d, "dialing", "idle") /\ Ended(d) /\ UNCHANGED readers
    /\ UNCHANGED <<at, tunLock, writer, hooks, fds, dns>>

Protected(d) ==
    /\ Goto(d, "callback", "idle") /\ Ended(d)
    /\ readers' = [readers EXCEPT ![at[d]] = @ \ {d}]
    /\ UNCHANGED <<at, tunLock, writer, hooks, fds, dns>>

---------------------------------------------------------------------------
(* handleUpdateDns *)

AskDns ==
    /\ asked < MaxDns /\ asked' = asked + 1
    /\ waiting' = waiting \cup {asked'}
    /\ UNCHANGED <<pc, at, locks, writer, readers, hooks, fds, updating, applied>>

IsAnything(seq) == TRUE                                           \* faulty variant
IsLatest(seq)   == seq = asked

\* The goroutine of one update, under dnsUpdateMu: it looks, and then applies.
TakeDns(seq) ==
    /\ updating = 0 /\ seq \in waiting
    /\ waiting' = waiting \ {seq}
    /\ updating' = IF IsLatest(seq) THEN seq ELSE 0
    /\ UNCHANGED <<pc, at, locks, writer, readers, hooks, fds, asked, applied>>

ApplyDns ==
    /\ updating # 0 /\ applied' = updating /\ updating' = 0
    /\ UNCHANGED <<pc, at, locks, writer, readers, hooks, fds, asked, waiting>>

---------------------------------------------------------------------------

Call(t) == StartTun(t) \/ StopTun(t)
Turn(t) ==
    \/ StartLock(t) \/ CloseTun(t) \/ InitHook(t) \/ OpenDials(t)
    \/ OpenRefused(t) \/ OpenFails(t) \/ OpenTun(t)
    \/ StartWrite(t) \/ KeepTun(t) \/ DropTun(t)
Dialing(d) == Dial(d) \/ Protect(d) \/ Protected(d)
Dns        == ApplyDns \/ \E seq \in 1..MaxDns : TakeDns(seq)

Next ==
    \/ \E t \in Callers : Call(t) \/ Turn(t)
    \/ \E d \in Dialers : Apply(d) \/ Dialing(d)
    \/ AskDns \/ Dns

\* A goroutine that can go on does, Go's locks starve nobody, and a callback into
\* the service returns.
Fairness ==
    /\ \A t \in Callers : SF_vars(Turn(t))
    /\ \A d \in Dialers : SF_vars(pc[d] # "idle" /\ Dialing(d))
    /\ WF_vars(Dns)

Spec == Init /\ [][Next]_vars /\ Fairness

---------------------------------------------------------------------------

Free == tunLock = None

\* No callback of a service runs once its TUN was cleared: the service may go as
\* soon as its stop returns (lib.go:81).
CallbackOwned ==
    \A d \in Dialers : pc[d] = "callback" => at[d] \in kept \cap listening

\* Between calls the sockets go through the handler whose TUN is up, or through
\* none: never through one that failed (lib.go:208).
HookLive ==
    Free => /\ active = tunHandler
            /\ listening = kept
            /\ listening = IF tunHandler = None THEN {} ELSE {tunHandler}

\* The Core closes each descriptor it was handed, and each duplicate, once, and
\* keeps none but the duplicate of the TUN that is up (tun.go:24).
DescriptorsOwned ==
    /\ ~stray
    /\ Free => open = {Dup(th) : th \in listening}
                        \cup {Own(at[t]) : t \in {u \in Callers : pc[u] = "start"}}

\* The last servers asked for are the ones the resolver has (lib.go:231).
LastDnsWins == waiting = {} /\ updating = 0 => applied = asked

\* No order of tunLock, configMu and th.mu ends in a wait for one another, the
\* dial of an opening TUN and the callbacks among it (lib.go:51).
CallsReturn == \A t \in Threads : pc[t] # "idle" ~> pc[t] = "idle"
================================================================================
