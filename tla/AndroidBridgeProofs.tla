-------------------------- MODULE AndroidBridgeProofs --------------------------
(***************************************************************************)
(* Proofs about AndroidBridge: for any number of callers, dialers, starts  *)
(* and DNS updates no callback outlives its TUN, the hook is that of the   *)
(* TUN that is up, descriptors are closed once, and the last servers win.  *)
(***************************************************************************)
EXTENDS AndroidBridge, TLAPS

Opening == {"open", "opened", "up", "failed", "keep", "drop"}
InTun   == {"replace", "stop", "hook"} \cup Opening
HoldsFd == {"start", "replace", "hook", "open", "opened"}

\* The fields the proofs depend on have their types; configMu is not one of
\* them, since tunLock orders all that these properties are about.
TypeInv ==
    /\ pc \in [Threads -> {"idle", "start"} \cup InTun
                             \cup {"applying", "dialing", "callback"}]
    /\ \A t \in Callers : pc[t] \in {"idle", "start"} \cup InTun
    /\ \A d \in Dialers : pc[d] \in {"idle", "applying", "dialing", "callback"}
    /\ at \in [Threads -> Starts \cup {None}]
    /\ tunLock \in Callers \cup {None}
    /\ readers \in [Starts -> SUBSET Dialers]
    /\ tunHandler \in Starts \cup {None} /\ active \in Starts \cup {None}
    /\ starts \in 0..MaxStarts

\* tunLock has the holder whose label is within it, and so one.
LockInv == \A t \in Callers : pc[t] \in InTun <=> tunLock = t

\* The TUN is up, or nothing is left of it.
Up   == /\ tunHandler # None /\ active = tunHandler
        /\ listening = {tunHandler} /\ kept = {tunHandler}
Bare == tunHandler = None /\ active = None /\ listening = {} /\ kept = {}

\* What there is of a handler at each label of who holds tunLock, and between them.
HookAt(t) ==
    /\ pc[t] = "hook" => Bare
    /\ pc[t] \in {"replace", "stop"} => Up
    /\ pc[t] \in Opening => /\ at[t] # None /\ tunHandler = at[t] /\ active = at[t]
                            /\ listening = {} /\ kept = {at[t]}
HookInv == (\A t \in Callers : HookAt(t)) /\ (tunLock = None => Up \/ Bare)

\* A callback reads the handler it was found in, which still has it.
CallbackInv ==
    \A d \in Dialers :
        /\ pc[d] = "dialing" => at[d] # None
        /\ pc[d] = "callback" => /\ at[d] \in kept \cap listening
                                 /\ d \in readers[at[d]]

\* Each start is worked on by the caller it was made for.
StartInv ==
    /\ \A t \in Callers : pc[t] \in HoldsFd \cup Opening => at[t] \in 1..starts
    /\ \A t, u \in Callers :
         t # u /\ pc[t] \in HoldsFd \cup Opening /\ pc[u] \in HoldsFd \cup Opening
             => at[t] # at[u]

\* Every descriptor that is open is the duplicate of the TUN that is up or comes
\* up, or one that a start has not passed on.
Owned ==
    {Dup(th) : th \in listening}
        \cup {Own(at[t]) : t \in {u \in Callers : pc[u] \in HoldsFd}}
        \cup {Dup(at[t]) : t \in {u \in Callers : pc[u] \in {"up", "keep"}}}
FdInv == ~stray /\ open = Owned

HandlerInv == TypeInv /\ LockInv /\ HookInv /\ CallbackInv /\ StartInv /\ FdInv

\* An update that waits is the last one, or the last one is being applied or was.
DnsInv ==
    \/ asked \in waiting
    \/ IF updating = 0 THEN applied = asked ELSE updating = asked

---------------------------------------------------------------------------

LEMMA InitHandlerInv == Init => HandlerInv
<1> SUFFICES ASSUME Init PROVE HandlerInv
  OBVIOUS
<1> USE BridgeAssumption DEF Init
<1>1. TypeInv
  BY DEF TypeInv, InTun, Opening, Threads, Starts
<1>2. LockInv
  BY DEF LockInv, InTun, Opening, Threads
<1>3. HookInv
  BY DEF HookInv, HookAt, Bare, Opening, Threads
<1>4. CallbackInv
  BY DEF CallbackInv, Threads
<1>5. StartInv
  BY DEF StartInv, HoldsFd, Opening, Threads
<1>6. FdInv
  BY DEF FdInv, Owned, HoldsFd, Threads
<1> QED BY <1>1, <1>2, <1>3, <1>4, <1>5, <1>6 DEF HandlerInv

\* What a step of a caller does to the types and the locks.
LEMMA CallerTypes ==
    ASSUME TypeInv, LockInv, NEW t \in Callers, Call(t) \/ Turn(t)
    PROVE  TypeInv' /\ LockInv'
<1> USE BridgeAssumption
    DEF TypeInv, LockInv, InTun, Opening, Threads, Starts, Goto, locks, hooks, fds, dns
<1>1. CASE StartTun(t)
  BY <1>1 DEF StartTun
<1>2. CASE StopTun(t)
  BY <1>2 DEF StopTun
<1>3. CASE StartLock(t)
  BY <1>3 DEF StartLock
<1>4. CASE CloseTun(t)
  BY <1>4 DEF CloseTun, Clear
<1>5. CASE InitHook(t)
  BY <1>5 DEF InitHook
<1>6. CASE OpenDials(t) \/ OpenRefused(t) \/ OpenFails(t) \/ OpenTun(t)
  BY <1>6 DEF OpenDials, OpenRefused, OpenFails, OpenTun
<1>7. CASE StartWrite(t)
  BY <1>7 DEF StartWrite
<1>8. CASE KeepTun(t)
  BY <1>8 DEF KeepTun, Done
<1>9. CASE DropTun(t)
  BY <1>9 DEF DropTun, Unhook, Clear, Done
<1> QED
  BY <1>1, <1>2, <1>3, <1>4, <1>5, <1>6, <1>7, <1>8, <1>9 DEF Call, Turn

LEMMA DialerTypes ==
    ASSUME TypeInv, LockInv, NEW d \in Dialers, Apply(d) \/ Dialing(d)
    PROVE  TypeInv' /\ LockInv'
<1> USE BridgeAssumption
    DEF TypeInv, LockInv, InTun, Opening, Threads, Starts, Goto, locks, hooks, fds, dns
<1>1. CASE Apply(d)
  BY <1>1 DEF Apply
<1>2. CASE Dial(d)
  BY <1>2 DEF Dial
<1>3. CASE Protect(d)
  BY <1>3 DEF Protect
<1>4. CASE Protected(d)
  <2>1. readers' \in [Starts -> SUBSET Dialers]
    BY <1>4 DEF Protected
  <2>2. pc' = [pc EXCEPT ![d] = "idle"] /\ pc[d] = "callback"
    BY <1>4 DEF Protected
  <2>3. UNCHANGED <<at, tunLock, tunHandler, active, starts>>
    BY <1>4 DEF Protected
  <2> QED BY <2>1, <2>2, <2>3
<1> QED BY <1>1, <1>2, <1>3, <1>4 DEF Dialing

\* What a step of a caller does to the hook.
LEMMA CallerHook ==
    ASSUME TypeInv, LockInv, HookInv, StartInv, NEW t \in Callers, Call(t) \/ Turn(t)
    PROVE  HookInv'
<1> USE BridgeAssumption
    DEF TypeInv, LockInv, HookInv, HookAt, Up, Bare, InTun, Opening, Threads, Starts,
        Goto, locks, hooks, fds, dns
<1>1. CASE StartTun(t)
  BY <1>1 DEF StartTun
<1>2. CASE StopTun(t)
  BY <1>2 DEF StopTun
<1>3. CASE StartLock(t)
  BY <1>3 DEF StartLock
<1>4. CASE CloseTun(t)
  BY <1>4 DEF CloseTun, Clear
<1>5. CASE InitHook(t)
  <2>1. at[t] # None
    BY <1>5 DEF InitHook, StartInv, HoldsFd
  <2>2. Bare /\ tunLock = t /\ \A u \in Callers : u # t => pc[u] \notin InTun
    BY <1>5 DEF InitHook
  <2> QED BY <1>5, <2>1, <2>2 DEF InitHook
<1>6. CASE OpenDials(t) \/ OpenRefused(t) \/ OpenFails(t) \/ OpenTun(t)
  BY <1>6 DEF OpenDials, OpenRefused, OpenFails, OpenTun
<1>7. CASE StartWrite(t)
  BY <1>7 DEF StartWrite
<1>8. CASE KeepTun(t)
  BY <1>8 DEF KeepTun, Done
<1>9. CASE DropTun(t)
  BY <1>9 DEF DropTun, Unhook, Clear, Done
<1> QED
  BY <1>1, <1>2, <1>3, <1>4, <1>5, <1>6, <1>7, <1>8, <1>9 DEF Call, Turn

\* A dialer leaves the handlers as they are.
LEMMA DialerHook ==
    ASSUME TypeInv, HookInv, NEW d \in Dialers, Apply(d) \/ Dialing(d)
    PROVE  HookInv'
<1>1. UNCHANGED <<tunLock, tunHandler, active, listening, kept>>
  BY DEF Dialing, Apply, Dial, Protect, Protected, hooks
<1>2. \A t \in Callers : pc'[t] = pc[t] /\ at'[t] = at[t]
  BY BridgeAssumption DEF Dialing, Apply, Dial, Protect, Protected, Goto, TypeInv, Threads
<1> QED BY <1>1, <1>2 DEF HookInv, HookAt, Up, Bare

\* clear waits for the readers, so no callback is in a handler it takes away.
LEMMA CallerCallback ==
    ASSUME TypeInv, LockInv, HookInv, CallbackInv, NEW t \in Callers, Call(t) \/ Turn(t)
    PROVE  CallbackInv'
<1> USE BridgeAssumption DEF TypeInv, Threads, Goto, locks, hooks, fds, dns
<1>1. readers' = readers
  BY DEF Call, Turn, StartTun, StopTun, StartLock, CloseTun, InitHook, OpenDials,
         OpenRefused, OpenFails, OpenTun, StartWrite, KeepTun, DropTun
<1>2. \A d \in Dialers : pc'[d] = pc[d] /\ at'[d] = at[d]
  BY DEF Call, Turn, StartTun, StopTun, StartLock, CloseTun, InitHook, OpenDials,
         OpenRefused, OpenFails, OpenTun, StartWrite, KeepTun, DropTun
<1>3. CASE CloseTun(t)
  <2>1. /\ readers[tunHandler] = {} /\ listening \subseteq {tunHandler}
    BY <1>3 DEF CloseTun, MayClose, HasWrite, HookInv, HookAt, Up
  <2>2. \A d \in Dialers : pc[d] # "callback"
    BY <2>1 DEF CallbackInv
  <2> QED BY <1>2, <2>2 DEF CallbackInv
<1>4. CASE DropTun(t)
  <2>1. listening = {}
    BY <1>4 DEF DropTun, HookInv, HookAt, Opening
  <2> QED BY <1>2, <2>1 DEF CallbackInv
<1>5. CASE ~CloseTun(t) /\ ~DropTun(t)
  <2>1. kept \subseteq kept' /\ listening \subseteq listening'
    BY <1>5 DEF Call, Turn, StartTun, StopTun, StartLock, InitHook, OpenDials,
         OpenRefused, OpenFails, OpenTun, StartWrite, KeepTun
  <2> QED BY <1>1, <1>2, <2>1 DEF CallbackInv
<1> QED BY <1>3, <1>4, <1>5

LEMMA DialerCallback ==
    ASSUME TypeInv, CallbackInv, NEW d \in Dialers, Apply(d) \/ Dialing(d)
    PROVE  CallbackInv'
<1> USE BridgeAssumption DEF TypeInv, Threads, Goto, hooks, CallbackInv
<1>1. CASE Apply(d)
  BY <1>1 DEF Apply
<1>2. CASE Dial(d)
  BY <1>2 DEF Dial
<1>3. CASE Protect(d)
  <2>1. pc[d] = "dialing" /\ UNCHANGED <<at, kept, listening>>
    BY <1>3 DEF Protect
  <2>2. CASE ReadsHook(at[d])
    <3>1. /\ pc' = [pc EXCEPT ![d] = "callback"]
          /\ readers' = [readers EXCEPT ![at[d]] = @ \cup {d}]
      BY <1>3, <2>2 DEF Protect
    <3>2. at[d] \in kept \cap listening /\ at[d] # None
      BY <2>1, <2>2, <3>1 DEF ReadsHook
    <3> QED BY <2>1, <3>1, <3>2
  <2>3. CASE ~ReadsHook(at[d])
    BY <1>3, <2>1, <2>3 DEF Protect
  <2> QED BY <2>2, <2>3
<1>4. CASE Protected(d)
  BY <1>4 DEF Protected
<1> QED BY <1>1, <1>2, <1>3, <1>4 DEF Dialing

\* A new start has a number of its own, and a caller keeps the one it works on.
LEMMA CallerStarts ==
    ASSUME TypeInv, StartInv, NEW t \in Callers, Call(t) \/ Turn(t)
    PROVE  StartInv'
<1> USE BridgeAssumption DEF TypeInv, Threads, Goto, fds, HoldsFd, Opening, StartInv
<1>1. CASE StartTun(t)
  BY <1>1 DEF StartTun
<1>2. CASE ~StartTun(t)
  <2>1. UNCHANGED <<at, starts>>
    BY <1>2 DEF Call, Turn, StopTun, StartLock, CloseTun, InitHook, OpenDials,
         OpenRefused, OpenFails, OpenTun, StartWrite, KeepTun, DropTun
  <2>2. \A u \in Callers :
            pc'[u] \in HoldsFd \cup Opening => pc[u] \in HoldsFd \cup Opening
    BY <1>2 DEF Call, Turn, StopTun, StartLock, CloseTun, InitHook, OpenDials,
         OpenRefused, OpenFails, OpenTun, StartWrite, KeepTun, DropTun
  <2> QED BY <2>1, <2>2
<1> QED BY <1>1, <1>2

\* A descriptor is known by its start and by being the duplicate or not.
LEMMA Descriptors ==
    \A a, b : /\ Own(a) = Own(b) => a = b
              /\ Dup(a) = Dup(b) => a = b
              /\ Own(a) # Dup(b)
<1> QED BY DEF Own, Dup

\* A caller closes what is open, once, and keeps track of the rest.
LEMMA CallerDescriptors ==
    ASSUME TypeInv, LockInv, HookInv, StartInv, FdInv, NEW t \in Callers, Call(t) \/ Turn(t)
    PROVE  FdInv'
<1> USE BridgeAssumption, Descriptors
    DEF TypeInv, LockInv, InTun, Opening, HoldsFd, Threads, Goto, fds, FdInv, Owned
<1>0. \A u \in Callers : u # t /\ pc[u] \in HoldsFd \cup Opening /\ pc[t] \in HoldsFd \cup Opening
          => at[u] # at[t]
  BY DEF StartInv
<1>1. CASE StartTun(t)
  BY <1>1 DEF StartTun, StartInv, hooks
<1>2. CASE StopTun(t)
  BY <1>2 DEF StopTun, hooks
<1>3. CASE StartLock(t)
  BY <1>3 DEF StartLock, hooks
<1>4. CASE CloseTun(t)
  <2>1. listening = {tunHandler} /\ listening' = {}
    BY <1>4 DEF CloseTun, Clear, HookInv, HookAt, Up
  <2>2. \A u \in Callers : pc[u] \notin {"up", "keep"}
    BY <1>4 DEF CloseTun
  <2>3. ~stray' /\ open' = open \ {Dup(tunHandler)}
    <3>1. {Dup(tunHandler)} \cap {Dup(th) : th \in listening} = {Dup(tunHandler)}
      BY <2>1
    <3>2. Close({Dup(tunHandler)})
      BY <1>4, <3>1 DEF CloseTun
    <3>3. Dup(tunHandler) \in open
      BY <2>1
    <3> QED BY <3>2, <3>3 DEF Close
  <2>4. \A u \in Callers : /\ pc'[u] \in HoldsFd <=> pc[u] \in HoldsFd
                           /\ pc'[u] \notin {"up", "keep"}
                           /\ at'[u] = at[u]
    BY <1>4, <2>2 DEF CloseTun
  <2> QED BY <2>1, <2>2, <2>3, <2>4
<1>5. CASE InitHook(t)
  BY <1>5 DEF InitHook
<1>6. CASE OpenDials(t)
  BY <1>6 DEF OpenDials, hooks
<1>7. CASE OpenRefused(t) \/ OpenFails(t)
  <2>1. pc[t] = "opened" /\ pc' = [pc EXCEPT ![t] = "failed"] /\ UNCHANGED <<at, listening>>
    BY <1>7 DEF OpenRefused, OpenFails, hooks
  <2>2. Own(at[t]) \in open
    BY <2>1
  <2>3. ~stray' /\ open' = open \ {Own(at[t])}
    BY <1>7, <2>2 DEF OpenRefused, OpenFails, LeftToStart, Close
  <2> QED BY <1>0, <2>1, <2>3
<1>8. CASE OpenTun(t)
  <2>1. pc[t] = "opened" /\ pc' = [pc EXCEPT ![t] = "up"] /\ UNCHANGED <<at, listening>>
    BY <1>8 DEF OpenTun, hooks
  <2>2. stray' = stray /\ open' = (open \ {Own(at[t])}) \cup {Dup(at[t])}
    BY <1>8 DEF OpenTun
  <2> QED BY <1>0, <2>1, <2>2
<1>9. CASE StartWrite(t)
  BY <1>9 DEF StartWrite, hooks
<1>10. CASE KeepTun(t)
  BY <1>10 DEF KeepTun
<1>11. CASE DropTun(t)
  <2>1. listening' = listening
    BY <1>11 DEF DropTun, Unhook, Clear, HookInv, HookAt
  <2> QED BY <1>11, <2>1 DEF DropTun
<1> QED
  BY <1>1, <1>2, <1>3, <1>4, <1>5, <1>6, <1>7, <1>8, <1>9, <1>10, <1>11 DEF Call, Turn

\* A dialer opens and closes nothing of this.
LEMMA DialerDescriptors ==
    ASSUME TypeInv, StartInv, FdInv, NEW d \in Dialers, Apply(d) \/ Dialing(d)
    PROVE  StartInv' /\ FdInv'
<1>1. UNCHANGED <<starts, open, stray, listening>>
  BY DEF Dialing, Apply, Dial, Protect, Protected, hooks, fds
<1>2. \A t \in Callers : pc'[t] = pc[t] /\ at'[t] = at[t]
  BY BridgeAssumption DEF Dialing, Apply, Dial, Protect, Protected, Goto, TypeInv, Threads
<1> QED BY <1>1, <1>2 DEF StartInv, FdInv, Owned

LEMMA NextHandlerInv == HandlerInv /\ [Next]_vars => HandlerInv'
<1> SUFFICES ASSUME HandlerInv, [Next]_vars PROVE HandlerInv'
  OBVIOUS
<1>1. ASSUME NEW t \in Callers, Call(t) \/ Turn(t) PROVE HandlerInv'
  BY <1>1, CallerTypes, CallerHook, CallerCallback, CallerStarts, CallerDescriptors
  DEF HandlerInv
<1>2. ASSUME NEW d \in Dialers, Apply(d) \/ Dialing(d) PROVE HandlerInv'
  BY <1>2, DialerTypes, DialerHook, DialerCallback, DialerDescriptors DEF HandlerInv
<1>3. CASE AskDns \/ Dns \/ UNCHANGED vars
  <2>1. UNCHANGED <<pc, at, locks, writer, readers, hooks, fds>>
    BY <1>3 DEF AskDns, Dns, ApplyDns, TakeDns, vars
  <2> QED BY <2>1 DEF HandlerInv, TypeInv, LockInv, HookInv, HookAt, Up, Bare, CallbackInv,
                      StartInv, FdInv, Owned, locks, hooks, fds
<1> QED BY <1>1, <1>2, <1>3 DEF Next

LEMMA AlwaysHandlerInv == Spec => []HandlerInv
<1> QED BY InitHandlerInv, NextHandlerInv, PTL DEF Spec

---------------------------------------------------------------------------

\* No callback of a service runs once its TUN was cleared, since clear writes
\* under th.mu, which the callback reads under (lib.go, TunHandler.close).
THEOREM CallbackOwnedHolds == Spec => []CallbackOwned
<1>1. HandlerInv => CallbackOwned
  BY DEF HandlerInv, CallbackInv, CallbackOwned
<1> QED BY <1>1, AlwaysHandlerInv, PTL

\* Between calls the sockets go through the handler of the TUN that is up, or
\* through none (lib.go, handleStartTun and TunHandler.clear).
THEOREM HookLiveHolds == Spec => []HookLive
<1>1. HandlerInv => HookLive
  BY DEF HandlerInv, HookInv, Up, Bare, HookLive, Free
<1> QED BY <1>1, AlwaysHandlerInv, PTL

\* No descriptor is closed twice or left open, whichever way a start ends
\* (tun.go, Start; lib.go, TunHandler.start).
THEOREM DescriptorsOwnedHolds == Spec => []DescriptorsOwned
<1>1. ASSUME HandlerInv, Free
      PROVE  open = {Dup(th) : th \in listening}
                       \cup {Own(at[t]) : t \in {u \in Callers : pc[u] = "start"}}
  <2>1. \A u \in Callers : pc[u] \notin InTun
    BY <1>1, BridgeAssumption DEF HandlerInv, LockInv, Free
  <2>2. \A u \in Callers : /\ pc[u] \in HoldsFd <=> pc[u] = "start"
                           /\ pc[u] \notin {"up", "keep"}
    BY <2>1 DEF InTun, Opening, HoldsFd
  <2> QED BY <1>1, <2>2 DEF HandlerInv, FdInv, Owned
<1>2. HandlerInv => DescriptorsOwned
  BY <1>1 DEF HandlerInv, FdInv, DescriptorsOwned
<1> QED BY <1>2, AlwaysHandlerInv, PTL

\* When no update of the system's servers is under way, the resolver has those
\* that were asked for last, however the goroutines overtook each other
\* (lib.go, handleUpdateDns).
THEOREM LastDnsWinsHolds == Spec => []LastDnsWins
<1>1. Init => DnsInv
  BY DEF Init, DnsInv
<1>2. DnsInv /\ [Next]_vars => DnsInv'
  <2> SUFFICES ASSUME DnsInv, [Next]_vars PROVE DnsInv'
    OBVIOUS
  <2>1. CASE AskDns
    BY <2>1 DEF AskDns, DnsInv
  <2>2. ASSUME NEW seq \in 1..MaxDns, TakeDns(seq) PROVE DnsInv'
    BY <2>2, BridgeAssumption DEF TakeDns, IsLatest, DnsInv
  <2>3. CASE ApplyDns
    BY <2>3 DEF ApplyDns, DnsInv
  <2>4. CASE UNCHANGED dns
    BY <2>4 DEF dns, DnsInv
  <2>5. CASE \E t \in Callers : Call(t) \/ Turn(t)
    BY <2>4, <2>5 DEF Call, Turn, StartTun, StopTun, StartLock, CloseTun, InitHook,
         OpenDials, OpenRefused, OpenFails, OpenTun, StartWrite, KeepTun, DropTun
  <2>6. CASE \E d \in Dialers : Apply(d) \/ Dialing(d)
    BY <2>4, <2>6 DEF Apply, Dialing, Dial, Protect, Protected
  <2> QED BY <2>1, <2>2, <2>3, <2>4, <2>5, <2>6 DEF Next, Dns, vars
<1>3. DnsInv => LastDnsWins
  BY DEF DnsInv, LastDnsWins
<1> QED BY <1>1, <1>2, <1>3, PTL DEF Spec
================================================================================
