------------------------------- MODULE RouteWatch -------------------------------
(***************************************************************************)
(* The Core's route tracker (core/route.go): every place that may have     *)
(* moved the route re-reads it under selectMu, counts resets in the epoch  *)
(* and moves in the version, and publishes the counters while the host     *)
(* watches.  Watch calls are stamped in arrival order (core/method.go) and *)
(* run on goroutines of their own, so they may overtake each other; the    *)
(* stop of stopRouteWatch takes a place in the same order.                 *)
(*                                                                         *)
(* The route itself (picks of the groups, provider versions, rule sets) is *)
(* one value of Routes, which health checks and downloads change at will.  *)
(***************************************************************************)
EXTENDS Naturals, Sequences, FiniteSets

CONSTANTS
    Workers,      \* goroutines of the calls and callbacks
    Poller,       \* the goroutine of pollRoute
    Routes,       \* what readPicks and readRuleSets may find
    MaxSeq,       \* bound: calls and stops that take a place in the order
    MaxBumps,     \* bound: refreshes that count a change whatever they find
    MaxDrift,     \* bound: changes of the route itself
    None

Goroutines == Workers \cup {Poller}

ASSUME RouteAssumption ==
    /\ Routes # {}
    /\ Poller \notin Workers /\ None \notin Goroutines
    /\ MaxSeq \in Nat /\ MaxBumps \in Nat /\ MaxDrift \in Nat

VARIABLES
    route,       \* the route in force
    drift, bumps,   \* bounded counters of what moves it
    known,       \* currentRoute.picks, providerVersions, ruleSets
    epoch, version, watched, watchSeq, polling,   \* currentRoute
    selectMu,    \* holder of selectMu
    methodCallSeq,
    running,     \* isRunning
    listening,   \* hasEventListener
    detaching,   \* SetEventListener(nil) between the listener and the watch
    pc, op, seen, change, seq, state,   \* each goroutine: step, call and locals
    published,   \* history: the states handed to the event queue
    told,        \* history: the newest version the host was given
    heard,       \* history: the watch was granted to the present listener
    latestSeq,   \* history: the last watch call or stop to take its place,
    latest       \* history: and what it asked for

tracker == <<known, epoch, version, watched, watchSeq, polling>>
locals  == <<pc, op, seen, change, seq, state>>
history == <<published, told, heard, latestSeq, latest>>
world   == <<route, drift, bumps>>
host    == <<running, listening, detaching>>
vars    == <<world, tracker, selectMu, methodCallSeq, host, locals, history>>

Changes == {"unchanged", "moved", "reset"}
\* What a goroutine does once the refresh is over: a watch call goes on.
Ops == {"refresh", "watch", "unwatch"}

\* max(change, routeMoved)
AtLeastMoved(c) == IF c = "reset" THEN "reset" ELSE "moved"
Larger(a, b) == IF a >= b THEN a ELSE b

Stamp(e, v) == [epoch |-> e, version |-> v]

Init ==
    /\ route \in Routes /\ drift = 0 /\ bumps = 0 /\ known \in Routes
    /\ epoch = 0 /\ version = 0 /\ watched = FALSE /\ watchSeq = 0 /\ polling = FALSE
    /\ selectMu = None /\ methodCallSeq = 0
    /\ running \in BOOLEAN /\ listening = TRUE /\ detaching = FALSE
    /\ pc = [w \in Goroutines |-> "idle"]
    /\ op = [w \in Goroutines |-> "refresh"]
    /\ seen = [w \in Goroutines |-> None]
    /\ change = [w \in Goroutines |-> "unchanged"]
    /\ seq = [w \in Goroutines |-> 0]
    /\ state = [w \in Goroutines |-> Stamp(0, 0)]
    /\ published = <<>> /\ told = 0 /\ heard = FALSE /\ latestSeq = 0 /\ latest = FALSE

Goto(w, label) == pc' = [pc EXCEPT ![w] = label]

---------------------------------------------------------------------------
(* What starts a refresh *)

\* A health check, a proxy provider, a rule set or patchSelectGroup moved the
\* route; the tracker is not told.
Drift ==
    /\ drift < MaxDrift /\ drift' = drift + 1
    /\ route' \in Routes \ {route}
    /\ UNCHANGED <<bumps, tracker, selectMu, methodCallSeq, host, locals, history>>

Start(w, call, kind) ==
    /\ pc[w] = "idle"
    /\ op' = [op EXCEPT ![w] = call]
    /\ change' = [change EXCEPT ![w] = kind]
    /\ Goto(w, "lock")
    /\ UNCHANGED <<route, drift, tracker, selectMu, running, listening, detaching,
                   seen, state, published, told, heard>>

\* changeRoute: a config apply, a start or an IPv6 switch resets, a mode switch
\* or a geo update moves, a provider update or a pick of handleChangeProxy (see
\* Lock) leaves it to the comparison.
Refresh(w, kind) ==
    /\ \/ kind = "unchanged" /\ UNCHANGED bumps
       \/ kind # "unchanged" /\ bumps < MaxBumps /\ bumps' = bumps + 1
    /\ Start(w, "refresh", kind)
    /\ UNCHANGED <<methodCallSeq, seq, latestSeq, latest>>

\* A tick of pollRoute.
Poll ==
    /\ polling /\ running
    /\ Refresh(Poller, "unchanged")

\* dispatchMethodCall stamps the call before its goroutine runs.
Dispatch(w, watch) ==
    /\ methodCallSeq < MaxSeq
    /\ Start(w, IF watch THEN "watch" ELSE "unwatch", "unchanged")
    /\ methodCallSeq' = methodCallSeq + 1
    /\ seq' = [seq EXCEPT ![w] = methodCallSeq + 1]
    /\ latestSeq' = methodCallSeq + 1 /\ latest' = watch
    /\ UNCHANGED bumps

---------------------------------------------------------------------------
(* refreshRouteLocked *)

\* selectMu; handleChangeProxy also sets the group's pick under it.
Lock(w) ==
    /\ pc[w] = "lock" /\ selectMu = None
    /\ selectMu' = w
    /\ \/ UNCHANGED <<route, drift>>
       \/ /\ op[w] = "refresh" /\ change[w] = "unchanged" /\ w # Poller
          /\ drift < MaxDrift /\ drift' = drift + 1
          /\ route' \in Routes \ {route}
    /\ Goto(w, "read")
    /\ UNCHANGED <<bumps, tracker, methodCallSeq, host, op, seen, change, seq, state,
                   history>>

\* Faulty variant: the picks are lost while the listeners are down.
FoundNothing(w) == IF running THEN route ELSE None
\* readPicks and readRuleSets.
Found(w) == route

Read(w) ==
    /\ pc[w] = "read"
    /\ seen' = [seen EXCEPT ![w] = Found(w)]
    /\ Goto(w, "count")
    /\ UNCHANGED <<world, tracker, selectMu, methodCallSeq, host, op, change, seq, state,
                   history>>

\* After the refresh a watch call has its own part, everything else is done;
\* the locals of the refresh die with it.
Leave(w) == /\ Goto(w, IF op[w] = "refresh" THEN "idle" ELSE "watch")
            /\ seen' = [seen EXCEPT ![w] = None]
            /\ change' = [change EXCEPT ![w] = "unchanged"]
            /\ state' = [state EXCEPT ![w] = Stamp(0, 0)]

\* What becomes of selectMu while the counted state is published.
FreeWhilePublishing == selectMu' = None   \* faulty variant
HeldWhilePublishing == UNCHANGED selectMu

MovesOnly(c) == c = "moved" /\ watched    \* faulty variant: a reset goes unsaid
Announced(c) == c # "unchanged" /\ watched

Observed(w) == IF seen[w] # known THEN AtLeastMoved(change[w]) ELSE change[w]

\* The section under currentRoute.mu.
Count(w) ==
    /\ pc[w] = "count"
    /\ known' = seen[w]
    /\ epoch' = IF Observed(w) = "reset" THEN epoch + 1 ELSE epoch
    /\ version' = IF Observed(w) = "unchanged" THEN version ELSE version + 1
    /\ \/ /\ Announced(Observed(w))
          /\ state' = [state EXCEPT ![w] = Stamp(epoch', version')]
          /\ Goto(w, "publish")
          /\ HeldWhilePublishing
          /\ UNCHANGED <<seen, change>>
       \/ ~Announced(Observed(w)) /\ Leave(w) /\ selectMu' = None
    /\ UNCHANGED <<world, watched, watchSeq, polling, methodCallSeq, host, op, seq, history>>

\* publishRoute, outside mu and still under selectMu; sendMessage drops the
\* state when nobody listens.
Publish(w) ==
    /\ pc[w] = "publish"
    /\ \/ /\ listening
          /\ published' = Append(published, state[w])
          /\ told' = Larger(told, state[w].version)
       \/ ~listening /\ UNCHANGED <<published, told>>
    /\ Leave(w) /\ selectMu' = None
    /\ UNCHANGED <<world, tracker, methodCallSeq, host, op, seq, heard, latestSeq, latest>>

---------------------------------------------------------------------------
(* handleWatchRoute, stopRouteWatch *)

NeverOutranked(w) == FALSE   \* faulty variant: the last handler to run wins
Outranked(w) == seq[w] < watchSeq

PollToggled(watch) == polling' = (watch /\ ~polling)   \* faulty variant
PollFor(watch)     == polling' = watch

\* The second part of handleWatchRoute, under mu; its answer tells the host.
Watch(w) ==
    /\ pc[w] = "watch"
    /\ \/ Outranked(w) /\ UNCHANGED <<watchSeq, watched, polling, heard>>
       \/ /\ ~Outranked(w)
          /\ watchSeq' = seq[w]
          /\ watched' = (op[w] = "watch")
          /\ PollFor(op[w] = "watch")
          /\ heard' = listening
    /\ told' = Larger(told, version)
    /\ Goto(w, "idle")
    /\ op' = [op EXCEPT ![w] = "refresh"] /\ seq' = [seq EXCEPT ![w] = 0]
    /\ UNCHANGED <<world, known, epoch, version, selectMu, methodCallSeq, host,
                   seen, change, state, published, latestSeq, latest>>

\* stopRouteWatch takes a place of its own in the call order.
StopWatch ==
    /\ methodCallSeq < MaxSeq
    /\ methodCallSeq' = methodCallSeq + 1
    /\ watchSeq' = Larger(watchSeq, methodCallSeq + 1)
    /\ watched' = FALSE /\ polling' = FALSE
    /\ latestSeq' = methodCallSeq + 1 /\ latest' = FALSE
    /\ UNCHANGED <<known, epoch, version, published, told>>

\* SetEventListener(nil): the listener goes first, the watch after it.
Detach ==
    /\ listening /\ ~detaching
    /\ listening' = FALSE /\ detaching' = TRUE /\ heard' = FALSE
    /\ UNCHANGED <<world, tracker, selectMu, methodCallSeq, running, locals,
                   published, told, latestSeq, latest>>

DetachWatch ==
    /\ detaching
    /\ StopWatch
    /\ detaching' = FALSE
    /\ UNCHANGED <<world, selectMu, running, listening, heard, locals>>

\* SetEventListener with the listener of the next engine.
Attach ==
    /\ ~listening /\ ~detaching
    /\ listening' = TRUE
    /\ UNCHANGED <<world, tracker, selectMu, methodCallSeq, running, detaching,
                   locals, history>>

\* handleStartListener and handleStopListener; the epoch bump of the start is a
\* Refresh.
SetRunning(r) ==
    /\ running' = r
    /\ UNCHANGED <<world, tracker, selectMu, methodCallSeq, listening, detaching,
                   locals, history>>

\* handleShutdown, which also takes the listeners down.
Shutdown ==
    /\ StopWatch
    /\ running' = FALSE
    /\ UNCHANGED <<world, selectMu, listening, detaching, heard, locals>>

---------------------------------------------------------------------------
Step(w) == Lock(w) \/ Read(w) \/ Count(w) \/ Publish(w) \/ Watch(w)

Next ==
    \/ Drift \/ Poll \/ Detach \/ DetachWatch \/ Attach \/ Shutdown
    \/ \E r \in BOOLEAN : SetRunning(r)
    \/ \E w \in Goroutines : Step(w)
    \/ \E w \in Workers :
         \/ \E kind \in Changes : Refresh(w, kind)
         \/ \E watch \in BOOLEAN : Dispatch(w, watch)

\* A Go mutex starves nobody, so a goroutine that keeps asking gets selectMu;
\* the ticker of pollRoute keeps ticking.
Fairness == /\ \A w \in Goroutines : SF_vars(Lock(w)) /\ WF_vars(Step(w))
            /\ WF_vars(Poll)

Spec     == Init /\ [][Next]_vars
FairSpec == Spec /\ Fairness

---------------------------------------------------------------------------
(* Properties *)

Labels == {"idle", "lock", "read", "count", "publish", "watch"}
States == [epoch : Nat, version : Nat]

\* Every variable of the tracker and of its callers keeps its type; what the
\* refresh stored was always read from a configuration.
TypeOK ==
    /\ route \in Routes /\ known \in Routes /\ drift \in Nat /\ bumps \in Nat
    /\ epoch \in Nat /\ version \in Nat /\ watchSeq \in Nat
    /\ watched \in BOOLEAN /\ polling \in BOOLEAN
    /\ selectMu \in Goroutines \cup {None}
    /\ methodCallSeq \in Nat
    /\ running \in BOOLEAN /\ listening \in BOOLEAN /\ detaching \in BOOLEAN
    /\ pc \in [Goroutines -> Labels]
    /\ op \in [Goroutines -> Ops]
    /\ seen \in [Goroutines -> Routes \cup {None}]
    /\ change \in [Goroutines -> Changes]
    /\ seq \in [Goroutines -> Nat]
    /\ state \in [Goroutines -> States]
    /\ published \in Seq(States)
    /\ told \in Nat /\ heard \in BOOLEAN
    /\ latestSeq \in Nat /\ latest \in BOOLEAN

Waiting(w) == pc[w] # "idle" /\ op[w] # "refresh"

\* The watch follows the host's latest word, whatever order the handlers ran
\* in: once no watch call is under way (handleWatchRoute), the watch and its
\* poll are what the last call or stop asked for, so neither a reordered call
\* nor one dispatched before the engine went brings a released watch back.
FollowsLatest ==
    (\A w \in Goroutines : ~Waiting(w)) => watched = latest /\ polling = latest

\* refreshRouteLocked hands its states over in the order it counted them, as
\* the host takes every event for newer than the one before.
PublishedInOrder ==
    \A i \in 1..(Len(published) - 1) :
        /\ published[i].version < published[i + 1].version
        /\ published[i].epoch <= published[i + 1].epoch

\* While a listener that was granted the watch keeps it, the version it was
\* given last is the one in force, unless a goroutine is about to publish it:
\* no change falls between the answer of handleWatchRoute and the first event.
NothingMissed ==
    watched /\ heard /\ (\A w \in Goroutines : pc[w] # "publish") => told = version

\* A route that mihomo moved behind the tracker's back is counted by a poll
\* (pollRoute) as long as the host watches and the listeners are up.
Noticed ==
    (watched /\ known # route) ~> (known = route \/ ~watched \/ ~running)
=============================================================================
