------------------------------ MODULE RoutedProbe ------------------------------
(***************************************************************************)
(* Answers that describe the route: the Core's stamps and route checks     *)
(* (core/route.go, core/probe.go) with the host's tracker                  *)
(* (providers/route_state.dart) and its cache (providers/routed_probe.dart) *)
(* for one target.                                                         *)
(*                                                                         *)
(* The host launches probes, takes the Core's counters from events and     *)
(* from the answers of watchRoute, which may overtake each other, and asks *)
(* the Core whether an answer's exit still holds.  A handler of the host   *)
(* runs to its end, its microtasks included, so _launch is part of it.     *)
(* Timers fire at any time.  A call fails only with its Core; what is      *)
(* started and ends with the Core, RouteWatch and MessageDelivery model.   *)
(***************************************************************************)
EXTENDS Naturals, Sequences, FiniteSets

CONSTANTS
    Names,      \* proxies a group may pick
    Servers,    \* nodes a provider may put behind a name
    MaxMoves,   \* bound: what moves the route or the target, see Disturbs
    None

Exits   == [name : Names, server : Servers]      \* exitName
Places  == Exits \cup {None}
Stamps  == [ce : Nat, rv : Nat, he : Nat, hit : Places]
Answers == [phase : {"fresh", "failed"}, stamp : Stamps, via : Places]
Dues    == [forced : BOOLEAN, supersede : BOOLEAN, settle : BOOLEAN]
Checks  == [stage : {"asked", "stamped", "checked"}, of : Stamps, ce : Nat, rv : Nat,
            held : BOOLEAN]
Routes  == [ce : Nat, rv : Nat, he : Nat, synced : BOOLEAN, live : BOOLEAN]

ASSUME ProbeAssumption ==
    /\ Names # {} /\ Servers # {} /\ MaxMoves \in Nat
    /\ None \notin Exits \cup Nat \cup Stamps \cup Answers \cup Dues \cup Checks \cup Routes

VARIABLES
    core,       \* up, epoch, version, watched; the target's pick, what is behind each name;
                \* known: the pick last read; loaded: a provider or rule set loaded since;
                \* missed, a history: a pick came back unread since the version was counted
    moves,
    route,      \* RouteTracker.state
    watching, visible,
    sync,       \* the watchRoute call that is out
    release,    \* a watchRoute(false) is out
    events,     \* snapshots on their way
    host,       \* the target in the cache
    probes      \* probes that are out

world   == <<core, moves>>
tracker == <<route, sync, release, events>>
vars    == <<world, watching, visible, tracker, host, probes>>

Stamp(ce, rv, he, hit) == [ce |-> ce, rv |-> rv, he |-> he, hit |-> hit]
Entry(phase, stamp, via) == [phase |-> phase, stamp |-> stamp, via |-> via]
Empty   == Entry("empty", None, None)
Probing == Entry("probing", None, None)
Due(forced, supersede, settle) ==
    [forced |-> forced, supersede |-> supersede, settle |-> settle]
NoSync  == [stage |-> "none", valid |-> FALSE, again |-> FALSE, ce |-> 0, rv |-> 0]

Init ==
    /\ core = [up |-> TRUE, epoch |-> 0, version |-> 0, watched |-> FALSE,
               pick |-> CHOOSE n \in Names : TRUE, known |-> CHOOSE n \in Names : TRUE,
               behind |-> [n \in Names |-> CHOOSE v \in Servers : TRUE],
               loaded |-> FALSE, missed |-> FALSE]
    /\ moves = 0
    /\ route = [ce |-> 0, rv |-> 0, he |-> 0, synced |-> FALSE, live |-> FALSE]
    /\ watching = FALSE /\ visible = TRUE
    /\ sync = NoSync /\ release = FALSE /\ events = <<>>
    /\ host = [entry |-> Empty, due |-> None, inFlight |-> None, landed |-> None,
               unverified |-> FALSE, staleUnder |-> None, settle |-> FALSE,
               cooling |-> FALSE, check |-> None, reverify |-> FALSE]
    /\ probes = {}

\* Where a connection through a proxy of that name leaves; where the target's does.
Through(c, n) == [name |-> n, server |-> c.behind[n]]
Exit(c)       == Through(c, c.pick)

---------------------------------------------------------------------------
(* RouteState *)

MovedSince(r, stamp) == stamp.ce # r.ce \/ stamp.he # r.he
Behind(r, stamp)     == stamp.ce > r.ce \/ stamp.rv > r.rv

(* What the handlers of the cache do to the target; w: it is watched *)

Invalidate(h, w) ==
    LET g == [h EXCEPT !.landed = None, !.unverified = FALSE] IN
    IF w THEN [g EXCEPT !.entry = Probing, !.due = Due(FALSE, TRUE, TRUE),
                        !.settle = TRUE, !.cooling = FALSE]
         ELSE [g EXCEPT !.inFlight = None, !.entry = Empty]

Reprobe(h, w) ==
    IF w THEN [h EXCEPT !.entry = Probing, !.due = Due(FALSE, FALSE, FALSE)]
         ELSE [h EXCEPT !.entry = Empty]

\* _verify: asks about the answer the route moved under.
Verify(h, r, v) ==
    IF h.check # None THEN [h EXCEPT !.reverify = TRUE]
    ELSE IF ~r.live \/ ~v \/ ~h.unverified \/ (h.landed = None /\ h.settle) THEN h
    ELSE LET of == IF h.landed # None THEN h.landed.stamp ELSE h.entry.stamp
             g  == [h EXCEPT !.unverified = FALSE] IN
         IF of = None \/ h.inFlight # None THEN g
         ELSE [g EXCEPT !.reverify = FALSE,
                        !.check = [stage |-> "asked", of |-> of, ce |-> 0, rv |-> 0,
                                   held |-> FALSE]]

\* The rest of _run: an answer of another epoch is asked again, once.
Lands(h, r, phase, stamp, via) ==
    LET settled == Entry(phase, stamp, via) IN
    IF ~r.synced \/ MovedSince(r, stamp)
    THEN IF h.staleUnder # r
         THEN Invalidate([h EXCEPT !.staleUnder = r], watching)
         ELSE [h EXCEPT !.entry = IF watching THEN Entry("failed", stamp, None) ELSE Empty]
    ELSE IF stamp.rv = r.rv
         THEN [h EXCEPT !.staleUnder = None, !.entry = settled]
         ELSE [h EXCEPT !.staleUnder = None, !.landed = settled, !.unverified = TRUE]

\* The rest of _verify: the answer that was asked about holds, or is asked again.
Judged(h, r, of, check) ==
    LET e    == IF h.landed # None THEN h.landed ELSE h.entry
        g    == [h EXCEPT !.landed = None]
        held == check.stage = "checked" /\ check.ce = of.ce /\ check.held
        rv   == IF of.rv > check.rv THEN of.rv ELSE check.rv
    IN  IF e = Empty \/ e.stamp # of \/ h.inFlight # None THEN h
        ELSE IF MovedSince(r, of) THEN Invalidate(g, watching)
        ELSE IF ~held THEN Reprobe(g, watching)
        ELSE [g EXCEPT !.entry = [e EXCEPT !.stamp.rv = rv],
                       !.unverified = @ \/ (rv # r.rv /\ rv > of.rv)]

\* What the route moved under is checked once it has settled.
NoTimer(h)       == h                                             \* faulty variant
SettlesWithin(h) == [h EXCEPT !.settle = @ \/ h.unverified]

\* _onRoute
OnRoute(h, prev, next, w, resumed) ==
    LET moved == prev.ce # next.ce \/ prev.he # next.he
        g == IF h.landed # None /\ MovedSince(next, h.landed.stamp)
             THEN Invalidate(h, w) ELSE h
        e == h.entry
        f == IF e = Empty THEN g
             ELSE IF g.inFlight # None THEN IF moved THEN Invalidate(g, w) ELSE g
             ELSE IF e.stamp = None THEN g
             ELSE IF MovedSince(next, e.stamp) THEN Invalidate(g, w)
             ELSE IF resumed /\ e.phase = "failed" /\ w
                  THEN [g EXCEPT !.due = Due(FALSE, FALSE, FALSE)]
             ELSE IF e.stamp.rv # next.rv THEN [g EXCEPT !.unverified = TRUE]
             ELSE g
    IN SettlesWithin(f)

\* Answers of superseded probes are dropped; the model keeps the last of them out.
LastOut(out) == {p \in out : p.run = host.inFlight}
Run(out) == CHOOSE n \in 1..(Cardinality(out) + 1) : \A p \in out : p.run # n

\* _launch, the microtask a handler may end with; out: the probes that stay out.  The
\* target may have been asked a moment ago, and then waits out the throttle.
Wanted(h)    == /\ h.due.forced \/ watching'
                /\ h.inFlight = None \/ h.due.supersede
Throttled(h) == ~h.due.forced /\ ~h.due.supersede
NoDue(h)     == [h EXCEPT !.due = None, !.cooling = FALSE]

Pending(h)   == h.due # None /\ route'.live /\ visible'
Held(h)      == (h.due.settle /\ h.settle) \/ (Throttled(h) /\ h.cooling)

Waits(h, out) ==
    /\ Pending(h) => Wanted(h) /\ Held(h)
    /\ host' = h /\ probes' = out

Launches(h, out) ==
    /\ Pending(h) /\ Wanted(h) /\ ~Held(h)
    /\ \/ /\ Throttled(h) /\ ~host.cooling
          /\ host' = [h EXCEPT !.cooling = TRUE] /\ probes' = out
       \/ /\ host' = [NoDue(h) EXCEPT !.landed = None, !.unverified = FALSE,
                                      !.entry = Probing, !.inFlight = Run(LastOut(out))]
          /\ probes' = LastOut(out) \cup
                {[run |-> Run(LastOut(out)), he |-> route'.he, stage |-> "sent", stamp |-> None,
                  via |-> None, ok |-> FALSE]}

Drops(h, out) ==
    /\ Pending(h) /\ ~Wanted(h)
    /\ host' = NoDue(h) /\ probes' = out

Launch(h, out) == Waits(h, out) \/ Launches(h, out) \/ Drops(h, out)

Mark(forced) ==
    IF host.inFlight # None THEN UNCHANGED <<host, probes>>
    ELSE Launch([host EXCEPT !.due = IF @ = None THEN Due(forced, FALSE, FALSE)
                                     ELSE Due(forced \/ @.forced, @.supersede, FALSE)],
                probes)

\* The cache listens to the tracker, which tells of what changed.
Hears(h) ==
    IF route' = route THEN host' = h /\ UNCHANGED probes
    ELSE Launch(OnRoute(h, route, route', watching', FALSE), probes)

---------------------------------------------------------------------------
(* RouteTracker *)

\* What may happen to the route, the network, the Core or the target; MaxMoves bounds it.
Disturbs == moves < MaxMoves /\ moves' = moves + 1

Ready(w, v) == w /\ v /\ core.up

Subscribe(w, v) ==
    sync' = IF ~Ready(w, v) THEN sync
            ELSE IF sync.stage # "none" THEN [sync EXCEPT !.again = TRUE]
            ELSE [NoSync EXCEPT !.stage = "asked", !.valid = TRUE]

\* The release is a call of its own; nothing is live from here on.
Unsubscribe ==
    /\ sync' = [sync EXCEPT !.valid = FALSE]
    /\ release' = core.up
    /\ route' = [route EXCEPT !.live = FALSE]

Snapshot(ce, rv) ==
    route' = [ce |-> ce, rv |-> rv, synced |-> TRUE, live |-> TRUE,
              he |-> IF route.synced THEN route.he ELSE route.he + 1]

\* handleWatchRoute: counts what moved, and answers the counters.  A release asked
\* for later overrules it, and it an earlier one.  What moved is what differs from the
\* last reading; versions of providers and rule sets never come back, a pick may.
Read(c) == c.pick = c.known /\ ~c.loaded
Counted ==
    IF Read(core) THEN core
    ELSE [core EXCEPT !.version = @ + 1, !.known = core.pick, !.loaded = FALSE,
                      !.missed = FALSE]
Publishes(c) == IF c.version # core.version /\ core.watched
                THEN events' = Append(events, [ce |-> c.epoch, rv |-> c.version])
                ELSE UNCHANGED events

WatchRoute ==
    /\ core.up /\ sync.stage = "asked"
    /\ core' = [Counted EXCEPT !.watched = @ \/ sync.valid]
    /\ Publishes(Counted)
    /\ sync' = [sync EXCEPT !.stage = "answered", !.ce = core'.epoch, !.rv = core'.version]
    /\ release' = (release /\ ~sync.valid)
    /\ UNCHANGED <<moves, watching, visible, route, host, probes>>

Release ==
    /\ core.up /\ release /\ release' = FALSE
    /\ core' = [Counted EXCEPT !.watched = FALSE] /\ Publishes(Counted)
    /\ UNCHANGED <<moves, watching, visible, route, sync, host, probes>>

\* The rest of _subscribe: a subscription since, or the end of one, overruled it.
Synced ==
    /\ sync.stage = "answered"
    /\ IF sync.valid THEN Snapshot(sync.ce, sync.rv) ELSE UNCHANGED route
    /\ sync' = IF sync.again /\ Ready(watching, visible)
               THEN [NoSync EXCEPT !.stage = "asked", !.valid = TRUE] ELSE NoSync
    /\ UNCHANGED <<world, watching, visible, release, events>>
    /\ Hears(host)

Event ==
    /\ events # <<>> /\ events' = Tail(events)
    /\ Snapshot(Head(events).ce, Head(events).rv)
    /\ UNCHANGED <<world, watching, visible, sync, release>>
    /\ Hears(host)

NetworkMoves ==
    /\ Disturbs
    /\ route' = [route EXCEPT !.he = @ + 1]
    /\ UNCHANGED <<core, watching, visible, sync, release, events>>
    /\ Hears(host)

\* A failure is asked again when the app is resumed.  staleUnder compares the count
\* of the resumes as well.
Resume ==
    /\ Disturbs
    /\ UNCHANGED <<core, watching, visible, tracker>>
    /\ Launch(OnRoute([host EXCEPT !.staleUnder = None], route, route, watching, TRUE), probes)

---------------------------------------------------------------------------
(* What the user does *)

Watch ==
    /\ ~watching /\ watching' = TRUE
    /\ Subscribe(TRUE, visible)
    /\ UNCHANGED <<world, visible, route, release, events>>
    /\ IF host.entry.phase # "fresh" /\ host.landed = None
       THEN Mark(FALSE) ELSE UNCHANGED <<host, probes>>

\* A re-probe that is not launched yet is dropped, and its entry with it (_forget).
KeepsLoading(h) == h                                              \* faulty variant
Forget(h) ==
    IF h.inFlight = None /\ h.landed = None /\ h.entry.phase = "probing"
    THEN [h EXCEPT !.entry = Empty] ELSE h

Unwatch ==
    /\ Disturbs
    /\ watching /\ watching' = FALSE
    /\ Unsubscribe
    /\ UNCHANGED <<core, visible, events>>
    /\ LET h == IF host.due # None /\ ~host.due.forced
                THEN Forget(NoDue(host)) ELSE host
       IN Hears(h)

Refresh ==
    /\ Disturbs
    /\ UNCHANGED <<core, watching, visible, tracker>>
    /\ Mark(TRUE)

Hide ==
    /\ Disturbs
    /\ visible /\ visible' = FALSE
    /\ IF watching THEN Unsubscribe ELSE UNCHANGED <<route, sync, release>>
    /\ UNCHANGED <<core, watching, events>>
    /\ Hears(host)

Show ==
    /\ ~visible /\ visible' = TRUE
    /\ Subscribe(watching, TRUE)
    /\ UNCHANGED <<world, watching, route, release, events>>
    /\ Launch(Verify(host, route, TRUE), probes)

---------------------------------------------------------------------------
(* The Core *)

\* A group's pick moves, back to where it was last read perhaps.
Repick ==
    /\ core.up /\ Disturbs
    /\ \E n \in Names \ {core.pick} :
          core' = [core EXCEPT !.pick = n, !.missed = @ \/ Read([core EXCEPT !.pick = n])]
    /\ UNCHANGED <<watching, visible, tracker, host, probes>>

\* A provider loads another node behind a name, or a rule set that sends the target
\* another way.
Load ==
    /\ core.up /\ Disturbs
    /\ \E n \in Names, v \in Servers :
          core' = [core EXCEPT !.pick = n, !.behind = [@ EXCEPT ![n] = v], !.loaded = TRUE]
    /\ UNCHANGED <<watching, visible, tracker, host, probes>>

\* refreshRoute: the poll, while the route is watched, or a call that moved it.
RefreshRoute ==
    /\ core.up /\ ~Read(core) /\ core' = Counted /\ Publishes(Counted)
    /\ UNCHANGED <<moves, watching, visible, route, sync, release, host, probes>>

\* bumpRouteEpoch: an answer of another epoch is not the present one whatever is behind
\* the names then.
Reset ==
    /\ core.up /\ Disturbs
    /\ \E n \in Names :
          core' = [core EXCEPT !.pick = n, !.known = n, !.loaded = FALSE, !.missed = FALSE,
                               !.epoch = @ + 1, !.version = @ + 1]
    /\ Publishes(core')
    /\ UNCHANGED <<watching, visible, route, sync, release, host, probes>>

\* The Core ends, the calls that are out fail with it, and it starts again at its first
\* epoch.
Fails(h, r, out) ==
    LET g == IF h.inFlight = None \/ (\E p \in out : p.run = h.inFlight) THEN h
             ELSE Lands([h EXCEPT !.inFlight = None], r, "failed",
                        Stamp(r.ce, r.rv, r.he, None), None)
    IN IF h.check = None THEN g
       ELSE Judged([g EXCEPT !.check = None], r, h.check.of, h.check)

Die ==
    /\ core.up /\ Disturbs
    /\ core' = [core EXCEPT !.up = FALSE, !.epoch = 0, !.version = 0,
                            !.watched = FALSE, !.known = core.pick, !.loaded = FALSE,
                            !.missed = FALSE]
    /\ route' = [route EXCEPT !.synced = FALSE, !.live = FALSE]
    /\ sync' = NoSync /\ release' = FALSE /\ events' = <<>>
    /\ probes' = {p \in probes : p.stage = "done"}
    /\ host' = Fails(IF route' = route THEN host
                     ELSE OnRoute(host, route, route', watching, FALSE), route', probes')
    /\ UNCHANGED <<watching, visible>>

Restart ==
    /\ ~core.up
    /\ \E n \in Names :
          core' = [core EXCEPT !.up = TRUE, !.pick = n, !.known = n]
    /\ sync' = IF watching /\ visible
               THEN [NoSync EXCEPT !.stage = "asked", !.valid = TRUE] ELSE NoSync
    /\ UNCHANGED <<moves, watching, visible, route, release, events, host, probes>>

(* runProbe: the stamp, the dial, the answer with where it left *)

Steps(p, q) == /\ probes' = (probes \ {p}) \cup {q}
               /\ UNCHANGED <<world, watching, visible, tracker, host>>

Begin(p) ==
    /\ p.stage = "sent"
    /\ Steps(p, [p EXCEPT !.stage = "began",
                          !.stamp = Stamp(core.epoch, core.version, p.he, None)])

Dial(p) ==
    /\ p.stage = "began"
    /\ \E connected \in BOOLEAN :
          Steps(p, [p EXCEPT !.stage = "left", !.via = IF connected THEN Exit(core) ELSE None,
                            !.ok = connected])

\* hits, at the end of the probe: the names of the connection's chain are looked up as
\* they are now; a connection that the tracker never saw, a failed one, is matched again.
Hit(p) == IF p.ok THEN Through(core, p.via.name) ELSE Exit(core)

\* The counters of an answer are those its request began with.
StampedLate(p) == Stamp(core.epoch, core.version, p.he, None)   \* faulty variant
Stamped(p)     == p.stamp

Done(p, hit, ok) ==
    Steps(p, [p EXCEPT !.stage = "done", !.stamp = [Stamped(p) EXCEPT !.hit = hit],
                       !.ok = ok, !.via = IF ok THEN p.via ELSE None])

Answer(p) ==
    \/ p.stage = "began" /\ Done(p, None, FALSE)       \* no slot before the deadline
    \/ p.stage = "left" /\ \E ok \in {FALSE, p.ok} : Done(p, Hit(p), ok)

(* handleCheckRoutes: the stamp comes before any route resolves *)

CheckStamp ==
    /\ host.check # None /\ host.check.stage = "asked" /\ core.up
    /\ host' = [host EXCEPT !.check.stage = "stamped", !.check.ce = core.epoch,
                            !.check.rv = core.version]
    /\ UNCHANGED <<world, watching, visible, tracker, probes>>

CheckRoute ==
    /\ host.check # None /\ host.check.stage = "stamped" /\ core.up
    /\ host' = [host EXCEPT !.check.stage = "checked",
                            !.check.held = host.check.of.hit = Exit(core)]
    /\ UNCHANGED <<world, watching, visible, tracker, probes>>

---------------------------------------------------------------------------
(* What the cache does with an answer, a check and its timers *)

\* An answer whose target was asked again since is dropped.
Land(p) ==
    /\ p.stage = "done"
    /\ UNCHANGED <<world, watching, visible, route, release, events>>
    /\ IF host.inFlight # p.run
       THEN probes' = probes \ {p} /\ UNCHANGED <<host, sync>>
       ELSE LET h == Lands([host EXCEPT !.inFlight = None], route,
                           IF p.ok THEN "fresh" ELSE "failed", p.stamp, p.via)
            IN /\ IF Behind(route, p.stamp) THEN Subscribe(watching, visible)
                                            ELSE UNCHANGED sync
               /\ Launch(IF h.landed # None THEN Verify(h, route, visible) ELSE h,
                         probes \ {p})

Verified ==
    /\ host.check # None /\ host.check.stage = "checked"
    /\ UNCHANGED <<world, watching, visible, route, release, events>>
    /\ IF Behind(route, host.check)
       THEN Subscribe(watching, visible) ELSE UNCHANGED sync
    /\ LET h == Judged([host EXCEPT !.check = None], route, host.check.of, host.check)
       IN Launch(IF h.reverify THEN Verify(h, route, visible)
                 ELSE SettlesWithin(h), probes)

Settled ==
    /\ host.settle
    /\ UNCHANGED <<world, watching, visible, tracker>>
    /\ Launch(Verify([host EXCEPT !.settle = FALSE], route, visible), probes)

Cooled ==
    /\ host.cooling
    /\ UNCHANGED <<world, watching, visible, tracker>>
    /\ Launch([host EXCEPT !.cooling = FALSE], probes)

---------------------------------------------------------------------------

Check  == CheckStamp \/ CheckRoute \/ Verified
Probe  == \E p \in probes : Begin(p) \/ Dial(p) \/ Answer(p) \/ Land(p)
Tracks == WatchRoute \/ Release \/ Synced \/ Event

Next ==
    \/ Watch \/ Unwatch \/ Refresh \/ Hide \/ Show \/ Resume
    \/ Repick \/ Load \/ RefreshRoute \/ Reset \/ NetworkMoves \/ Die \/ Restart
    \/ Tracks \/ Probe \/ Check \/ Settled \/ Cooled

\* Calls are answered, timers fire, a Core that ended is started again, and pollRoute
\* runs while the route is watched.
Fairness ==
    /\ WF_vars(Tracks) /\ WF_vars(Probe) /\ WF_vars(Check)
    /\ WF_vars(Settled) /\ WF_vars(Cooled) /\ WF_vars(Restart)
    /\ WF_vars(core.watched /\ RefreshRoute)

Spec     == Init /\ [][Next]_vars
FairSpec == Spec /\ Fairness

---------------------------------------------------------------------------

\* An answer that carries the Core's counters of now names the exit of now, the pick
\* it left through and the server that is behind it, however late it landed, whatever
\* moved while it was out or while it was checked, and however often the Core ended
\* (route.go:205).  The counters cannot vouch for more than the Core reads: a pick that
\* goes and comes back between two readings (missed) is in none of them.
StampsAreTrue ==
    LET e == host.entry IN
    core.up /\ Read(core) /\ ~core.missed /\ route.synced /\ e.phase = "fresh"
        /\ ~MovedSince(route, e.stamp)
        /\ e.stamp.ce = core.epoch /\ e.stamp.rv = core.version
    => e.stamp.hit = Exit(core) /\ e.via.name = core.pick

\* A target that loads has something left that settles it (routed_probe.dart:200).
NeverStuckLoading ==
    host.entry.phase = "probing" =>
        \/ host.inFlight # None /\ \E p \in probes : p.run = host.inFlight
        \/ host.due # None
        \/ host.landed # None /\ (host.unverified \/ host.check # None)

\* A target on screen has an answer in the end: no order of answers, checks, moves
\* and timers leaves it waiting, or with one of another epoch (routed_probe.dart:76).
Settles ==
    []<>(watching /\ visible /\ core.up =>
            /\ host.entry.phase \in {"fresh", "failed"}
            /\ ~MovedSince(route, host.entry.stamp))

\* The answer shown is the current route's whenever the host knows the Core's counters
\* and has nothing left to take or to ask, as far as the Core reads its picks
\* (routed_probe.dart:76).
ShownIsCurrent ==
    core.up /\ Read(core) /\ ~core.missed /\ route.synced
        /\ route.ce = core.epoch /\ route.rv = core.version
        /\ events = <<>> /\ sync.stage = "none"
        /\ host.check = None /\ ~host.unverified /\ host.entry.phase = "fresh"
    => host.entry.stamp.hit = Exit(core)

\* The same of the connection itself, whatever the Core reads.
LeftThroughCurrent ==
    core.up /\ Read(core) /\ host.entry.phase = "fresh" /\ route.synced
        /\ ~MovedSince(route, host.entry.stamp)
        /\ host.entry.stamp.ce = core.epoch /\ host.entry.stamp.rv = core.version
    => host.entry.via = Exit(core)
================================================================================
