# A TLA+ model of YuClash

YuClash is a Flutter proxy client around mihomo. A Go program, the *Core*
(`core/`), embeds mihomo; the Flutter application (`lib/`) starts it, speaks
to it over a local socket (desktop) or through JNI (Android), and shows what
it reports. This directory models the parts of that system whose correctness
depends on the order in which things happen, checks them with TLC on small
instances and proves what matters most with TLAPS.

## 1. The parts of the system

| part | state it keeps | what it does | hard because |
|---|---|---|---|
| Desktop lifecycle (`lib/core/desktop/lifecycle.dart`) | commands by revision, phase, session, unconfirmed lease | reconciles the latest start, restart, stop or close into one Core process and one session | commands, crashes and disconnects arrive at every await |
| Desktop transport and RPC client (`transport.dart`, `rpc_client.dart`) | accepted connection, pending calls | frames, calls and their timeouts | late answers, reconnects |
| Launcher, Helper client and Helper service (`launcher.dart`, `helper_client.dart`, `services/helper`) | the child process, its owner | start and stop a process, with privileges if need be | a stop that cannot be confirmed |
| Core frame stream (`core/server.go`) | connection, write lock | writes answers and events to the host | writes that time out half-way |
| Core method dispatch (`core/method.go`) | sequence of calls | one goroutine per call | calls overtake each other |
| Core files (`spill.go`, `profile_base.go`, `ownership_unix.go`) | spilled replies, config.yaml, who owns them | replies too large for a frame, the running config, files of a root Core given back | late answers, writes that fail, a Core that dies over one |
| Core message delivery (`core/message.go`) | three bounded queues, a batch | events to the host | eviction races, starvation |
| Core route watch (`core/route.go`) | epoch, version, who watches | tells the host when the route may have changed | watch calls out of order, changes without a hook |
| Core resource updates (`core/geo.go`, `core/provider.go`) and the host's progress (`geo_resource.dart`) | claims, progress marks | updates of geo files and providers | mihomo's own updater asks nobody |
| Core request traffic (`core/request_traffic.go`) | watched requests, one goroutine | totals of the request list | a goroutine that starts and ends itself |
| Core configuration and listeners (`config.go`, `lifecycle.go`, `lib.go`) | current config, isRunning, the TUN | setup, update, start, stop | three locks and a flag read outside them |
| Core probes (`probe.go`, `slots.go`, `service_check.go`, `outbound_ip.go`, `delay.go`) | slots, claims, pending routes | service checks, lookups, delay tests | supersession, cancellation, deadlines |
| Route state and probe cache on the host (`route_state.dart`, `routed_probe.dart`) | counters, one answer per target | shows only answers of the current route | events and answers overtake each other |
| Core DNS and log (`dns_query.go`, `log.go`, `hooks.go`) | subscriptions | events for the host | mihomo's own locks |
| Android service (`ServiceStateMachine.kt`, `VpnService.kt`, plugins) | run intent, service state | VPN from the tile, the app and the system | callbacks of the framework |
| Application actions (`lib/providers`, `lib/manager`) | notifiers | apply profiles, restart, exit | coalescing |
| User interface, database, editor, tooling | – | rendering, storage, builds | – |

How they interact: the application submits commands to the lifecycle, which
uses the launcher and binds the transport; the Core dials the transport's
socket; calls go down it and answers and event batches come up it through
one frame stream; events of the log, the request list, the route and geo
updates all pass through message delivery. On Android the Core is a library
in the application's process and an *event listener* takes the place of the
socket: it goes with the Flutter engine, while the service and the Core run
on.

What makes each correct, in a sentence:

- **lifecycle** – at most one Core process, none without an owner, every
  command answered, the latest one decides;
- **message delivery** – state events are never the victim of other traffic,
  bulk events get their turn, each sender's events keep their order;
- **route watch** – the Core watches exactly when the host last said so, and
  the host is never left with an old version;
- **resource updates** – one request at a time per resource, no claim leaked,
  no progress mark left up;
- **request traffic** – one watching goroutine, no open connection dropped;
- **frame stream** – the host always reads whole frames, a stall costs time
  and never the connection, and a Core that cannot be heard does not stay;
- **configuration and listeners** – mihomo runs with the config applied last
  and listens exactly while a run is on;
- **TUN and DNS on Android** – no callback into a service that is gone, each
  descriptor closed once, the last DNS servers stay;
- **probes** – work never exceeds its slots, a newer call cancels what it
  replaces and nothing else, everything started ends;
- **probe cache** – an answer that carries the Core's present counters names
  the present exit as far as the Core reads its picks, and a target on screen
  gets one;
- **files** – no spilled file is forgotten whose name got out, no name leads
  to half a file, and the user gets back what a root Core made.

## 2. Modules

Each component has one module and one more for its proofs. `CoreProofs` has
those of three parts of the Core that share nothing but its process, and
`DeliveryProofs` those of the two ways that something reaches the host.

| module | models | proofs |
|---|---|---|
| `LatestIntent` | what callers of the lifecycle are promised (abstract) | |
| `DesktopLifecycle` | `lifecycle.dart`, with transport events, launcher and processes | `DesktopLifecycleProofs` |
| `MessageDelivery` | `message.go` | `DeliveryProofs` |
| `RouteWatch` | `route.go`, with the order stamped in `method.go` and the listener of `lib.go` | `RouteWatchProofs` |
| `ResourceUpdates` | `provider.go` and `geo.go` claims, `geo_resource.dart` marks | `ResourceUpdatesProofs` |
| `RequestTraffic` | `request_traffic.go`, `DefaultRequestNotify` of `hooks.go` | `CoreProofs` |
| `FrameStream` | `send` and its helpers and the end of `serve` in `server.go` | `FrameStreamProofs` |
| `CoreService` | `config.go`, `lifecycle.go`, `exit.go` and the entry points of `lib.go` | `CoreProofs` |
| `AndroidBridge` | the TUN handle and DNS update of `lib.go`, `tun/tun.go` | `AndroidBridgeProofs` |
| `ProbeSlots`, `MCProbeSlots` | `slots.go`, `probe.go`, `service_check.go`, `outbound_ip.go`, `delay.go` | `CoreProofs` |
| `RoutedProbe` | `routed_probe.dart` and `route_state.dart` against the stamps of `probe.go` and `route.go` | `RoutedProbeProofs` |
| `SpilledReplies` | `method.go`, `spill.go`, `profile_base.go`'s writes, `ownership_unix.go`, and the host's `spill.dart` | `DeliveryProofs` |

Definitions marked *faulty variant* are what a plausible slip in that place
of the code would be; no specification uses them. They are substituted for
the definition beside them to see that a property notices.

### DesktopLifecycle

A Dart isolate is single-threaded, so the worker `_runWorker` is a sequence
of segments between awaits; `pc` names the await it is parked at (`stop`,
`grace`, `open`, `launch`, `connection`, ...) or the continuation that is due.
`asked` and `outcome` are the commands and their answers by revision;
`phase`, `session`, `unconfirmed` and `recovery` are `_state`, `_session`,
`_unconfirmedLease` and `_unexpectedDisconnectOperation`; `waiter` and
`heard` are `_TransportConnectionWaiter`. Each segment is one action
(`Dispatch`, `BeginStart`, `Launched`, `Connected`, `StopReturns`, ...), with
the microtask rule of Dart: no event of the event loop is delivered while a
continuation is due (`Parked`). A caller may itself be a microtask, so
`Submit` is allowed between two continuations if `Microtasks` is set.
The transport, the accept queue behind it (`backlog`) and the processes are
external: a process dials, exits, or survives a stop that is not confirmed.

`LatestIntent` is the abstract specification: commands in order, answers
decided by the latest, and a set of processes. `DesktopLifecycle` implements
it with `cores` refined to the processes spawned and not confirmed to have
exited (`KeepsPromise`, and `FairKeepsPromise` with the answering of every
command).

### MessageDelivery

Each channel operation is one step, so two senders and the batcher interleave
between the tries of `enqueueLatest` (`Enqueue`, `FindFull`, `Evict`) and the
drop of `enqueueState` (`Drop`). The batcher's loop is `PollState`,
`PollBulk`, `PollPriority` and the blocking `Select`, whose timer is ready
whenever the batch holds something. `skipped`, `evictions` and `delivered`
are history variables.

### RouteWatch

`refreshRouteLocked` is four steps of a goroutine: `Lock` (selectMu), `Read`
(pick and provider versions), `Count` (epoch and version), `Publish`. A watch
call takes its sequence number when it is dispatched (`Dispatch`) and obeys
it only if nothing later was obeyed (`Outranked`); `stopRouteWatch` takes a
number too. `Drift` is mihomo moving a pick without a hook, which only
`Poll` can notice. A listener leaves in two steps (`Detach`, `DetachWatch`).

### ResourceUpdates

A request claims its key (`claimUpdateAs`), runs, and gives the claim back;
mihomo's updater runs without asking and is only heard through
`GeoUpdateHook` (`BeginAuto`, `EndAuto`, `TellAuto`). A provider's request is
answered at its end, a geo file's at once. On the host `updateGeoResource` is
two segments around its await (`Ask`, `Answered`), whose locals survive it,
and `Hear` is `handleCoreUpdate`. `CoreLost` is the status listener of
`build()`.

### RequestTraffic

`DefaultRequestNotify` is `CheckListening`, `Add` and `Start` on the goroutine
that opens the connection, before the manager stores it (`Join`). The watch
goroutine is `TickWatch` (which asks `hasEventListener`), `Clear` and
`Collect`. `PromptJoin` says that a connection is stored within one report's
interval, which is a second; the code counts on it (`fresh`).

### FrameStream

A frame is `FrameSize` units, length included. A sender takes `writeMu`
(`Lock`), reads `conn` and sets the deadline (`Take`; a deadline that cannot
be set is only logged) and writes any number of units at a time (`Write`)
while the host reads. Whatever the host does, a write may also come back with
an error and any number of units taken (`Cut`): a deadline that passed, one
that `resume` does not wait out, or anything else, `io.ErrShortWrite` and a
frame that is too large among them. With nothing of the frame on the wire it
is dropped (`Drop`), a passed deadline is waited out (`Resumed`), the rest
gives the connection up and then closes it (`Fail`, `Close`). `Serve` is the
read loop's end, which comes with the connection or by a read that fails or
is too large while the host is there; it closes what `send` has not taken
away. `cut` and `lost` are history variables.

### CoreService

One goroutine per call, each cut where others can see: an atomic flag, taking
and giving back configMu, the route epoch, what mihomo listens with (`live`).
`Setup` checks isInit before the lock, `Apply` follows it with the config
that loaded or the fallback; `QuickRun` stores isRunning before its setup, as
`lib.go:302` does. `android` picks the build: `lib.go`'s entry points exist in
one and `exit.go` in the other. `Main` runs `releaseOnExit` after the host
went, with its time limit as a step that is always possible.

`probe` is one probe that is out, by what it left over: what there is now, what
there was before a reset (`old`: a start or a TUN that came up, a config that
was applied, IPv6 switched), or what there was before an apply or an update
brought listeners up (`passed`); `dropped` once the epoch has moved. Each
section moves the epoch where the code does: after the listeners in a start
and in an update that switches IPv6 (`UpdateBump`), before them in
`applyConfig` (`ApplyBump`, then `ApplyListen`), not at all in other updates.

### AndroidBridge

A start takes tunLock, makes a `TunHandler`, installs its hook, and opens the
TUN under configMu; a stop closes it under its own write lock. Every socket
opened in the process goes through the hook and takes the same lock to read
(`Dial`, `ReadsHook`, `Protect`), the dial the opening TUN makes and those of
an apply under configMu among them. The writer preference of `sync.RWMutex`
is modelled (`WantWrite`): readers queue behind a writer that waits. `kept`
are the handlers whose service may still be called. Descriptors are the
service's own and the duplicate sing-tun holds. DNS updates run on goroutines
of their own; the latest sequence number wins (`IsLatest`).

### ProbeSlots

A call is a sweep of service checks, a lookup, a single probe or a delay
test; its jobs take a slot (`GetSlot`), dial, are routed (`Track`, `Settled`)
and answered or not. `claims` is who checks a service now, `lost` what a
newer sweep took from a call; a lookup is cancelled by one that carries a
newer epoch (`Older`). A lookup starts its sources one by one, on failure or
on a tick, and returns with the first usable answer while the others still
run. A timeout is a step that is always possible. Dialling and acquiring the
slot are one step, the wait for the tunnel is part of the wait; redirects
and bodies are left out. A lookup that read an older epoch and claims after a
newer one is not cancelled (`outbound_ip.go:105`), in the model as in the
code.

### RoutedProbe

The Core's side is where the target really goes, a pick and the server that a
provider has put behind each name (`pick`, `behind`); the pick that was last
read and whether a provider or a rule set was loaded since (`known`,
`loaded`); the counters it stamps answers with; and the queue of events. A
refresh counts only what differs from what was last read (`Read`, `Counted`),
so a pick that moves and comes back in between (`Repick`) is in no version;
`missed` is the history of that. A load (`Load`) always is. An answer's hit is
looked up at the end of its probe, as names then are (`Hit`): the server
behind a name may have been replaced since the dial, and the route of a dial
that failed is resolved again. `via` is where the connection really left. The
host's side is the tracker (`route`) and one target's entry: what it shows,
what is in flight, what is due, what landed ahead of the host, and whether it
must be checked. Handlers run to their end; timers fire at any time; probes,
checks and answers of `watchRoute` overtake each other. `Disturbs` counts what
moves the route or the target: picks, loads, resets, network moves, deaths of
the Core, unwatching, hiding, refreshing, resuming. Of the superseded probes
still out, the last one is kept.

### SpilledReplies

A call's goroutine handles it (or panics), makes the spill directory and gives
it to the user, writes the file under a fresh name, asks for a sweep and
replies with the name; a setup does the same with a temporary file it renames
to config.yaml. Every write may fail, and `send` may write a reply or drop it
with the connection kept (`Reply`: `wire` is `dropped`), for `FrameStream`'s
reasons. `sweep` is one run of
`reclaimOwnership`: it sleeps, clears `reclaimPending`, walks the home
directory, then the spill directory in it, and visits what it found, entry by
entry, skipping a path that now leads elsewhere. The host takes a reply up
after its call timed out, or reads on after its Core went. `Boot` is the init
call of the next Core. A built profile is spilled and read in the same way as
a large answer.

## 3. Runs

Run one with `tlc -config <cfg> <module>`.

| run | configuration | shows | states, time (2 workers) |
|---|---|---|---|
| `lifecycle` | `DesktopLifecycle.cfg` | one process, no orphan, answers, refinement and liveness | 205 000, 20 s |
| `message` | `MessageDelivery.cfg` | order, the turn of bulk, kept state, draining | 483 000, 50 s |
| `route` | `RouteWatch.cfg` | the watch obeys the latest call, no change missed | 436 000, 70 s |
| `updates` | `ResourceUpdates.cfg` | claims and marks | 95 000, 20 s |
| `traffic` | `RequestTraffic.cfg` | one watcher, open connections kept | 37 000, 10 s |
| `frames` | `FrameStream.cfg` | framing, the connection kept, frames finished | 163 000, 45 s |
| `service` | `CoreService.cfg` | mihomo follows config and run, resets drop probes | 46 000, 5 s |
| `bridge` | `AndroidBridge.cfg` | callbacks, hook, descriptors, DNS, no deadlock of three locks | 62 000, 30 s |
| `slots` | `MCProbeSlots.cfg` | slots, claims, cancellation, sources, routes, every call ends | 320 000, 150 s |
| `probes` | `RoutedProbe.cfg` | true stamps, nothing loads for ever, a target settles | 685 000, 105 s |
| `spill` | `SpilledReplies.cfg` | spilled files, config.yaml, ownership over crashes | 224 000, 110 s |
| `updates_overlap` | `ResourceUpdates_overlap.cfg` | **violated** `ManualWaits` | seconds |

Seven further configurations, `DesktopLifecycle_more`, `MessageDelivery_more`,
`RouteWatch_more`, `ResourceUpdates_more`, `RequestTraffic_more`,
`FrameStream_more` and `CoreService_more`, check the remaining properties of
their modules on the same instances: type correctness, the properties that are
also proved, and those a stronger one of the run covers. All pass, each within
two minutes. The configurations of section 4 find known disagreements.

### What the properties say

**DesktopLifecycle.** `OneCore`: a process is spawned only when every earlier
one is confirmed to have exited. `NoOrphan`: until a close is requested each
unconfirmed process is in somebody's hands. `RunningIsOwned`: a running
session's process is not being stopped elsewhere. `MatchingConnection`: the
session's peer is the process its lease controls; this needs the PID check
of Windows (`VerifyPid`), without it a process of an earlier start in the
accept queue is taken for the new one. `AnsweredInOrder`: no command waits
after a later one was answered. `ClosedIsFinal`: after `closed` nothing is
held and nobody waits. `AppliedExceptStops`: a command reported `applied`
left what it asked for, unless it is a stop (see the findings).
`KeepsPromise`, `FairKeepsPromise`: refinement of `LatestIntent`.
`Converges`: no intermediate phase stays published.

**MessageDelivery.** `BulkOpportunity`: a waiting bulk event is passed by at
most a burst. `EvictsOwnQueue`: state is no victim, and evictions stay in
their queue. `InOrder`: one sender's events of a queue arrive once and in
order. `StateKept`: a queued state event is lost only to an absent listener.
`Drains`: nothing stays queued or in a half-full batch.

**RouteWatch.** `FollowsLatest`: when no watch call is under way, the watch
and its poll are what the last call or stop asked for. `PublishedInOrder`:
versions rise along the event queue. `NothingMissed`: a granted watcher has
been given the version in force. `Noticed`: a drift is counted by the poll.

**ResourceUpdates.** `OneManual`, `ClaimsTrue`: a claim is the exact record of
who updates. `ProviderRouted`: the claim covers the route refresh an update
owes. `NoStuckMark`, `MarksEnd`: progress marks come down.
`ClaimsEnd`: claims are given back.

**RequestTraffic.** `OneWatcher`: requests and a watching goroutine come and
go together, and never two of it. `FinalTotals`: a closed request is let go
of with its total told or its retries used. `OpenKept`: a report never drops
an open connection. `LetGo`: closed ones go.

**FrameStream.** `Framed`: unit follows unit of whole frames, and a torn frame
is the last thing on the wire. `LostWhole`: a dropped frame left no unit.
`KeepsConnection`: while the Core reads, it has given the connection up only
with a frame at the end of the wire that is lost and in which the socket
failed; a stall, a frame dropped whole or a deadline that cannot be set never
costs the connection. `Finishes`: a frame begun is finished however long the
host stalls, unless the socket fails in it or the connection breaks first.
`GivenUpEnds`: a connection that `send` gave up ends the read loop, and the
Core with it. `LoggedOnce`: a run of failures is logged once. `SendsEnd`:
every send returns.

**CoreService.** `LiveFollowsConfig`: outside configMu's sections what mihomo
runs with is the config applied last, and it listens exactly when isRunning
says so, except while QuickSetup has announced a run whose setup is still to
come. `ResetsDropProbes`: a probe that left before a start brought listeners
or the TUN up, or before a config was applied or IPv6 switched, does not stand
for the route after it: the epoch moves, or a call under way still owes the
move. `CallsReturn`: every call returns, unless the process ended.

**AndroidBridge.** `CallbackOwned`: no dial is inside a callback of a service
whose TUN was stopped. `HookLive`: between calls the active hook is that of
the TUN that is up. `DescriptorsOwned`: each descriptor is closed once and
none is left. `LastDnsWins`: when no update is under way the resolver has the
servers asked for last. `CallsReturn`: the locks stop nobody.

**ProbeSlots.** `SlotsOwned`: what is taken of a pool is what its holders
hold, within its size. `OneLiveCheck`: of the checks of one service at most
one is alive, and it holds the claim. `CancelledForCause`: a check is
cancelled only by a newer sweep of its service, a lookup only by a newer
epoch. `SourcesAsked`: a lookup gives up only when every source was asked or
its time is over. `RoutesSettle`: a connection that relays has its route, a
closed one leaves nothing waiting. `CallsEnd`: calls return and what they
started ends.

**RoutedProbe.** `StampsAreTrue`: an answer stamped with the Core's present
counters names the present exit, and left through the pick of now, except
where a pick went and came back between two readings. `NeverStuckLoading`: a
target that loads has a probe, a timer or a check that will settle it.
`Settles`: again and again a target on screen has an answer of its route, or
is told it failed.

**SpilledReplies.** `NothingLeft`: each file of the spill directory has
somebody who will delete it, however late its reply and whatever failed; only
where `send` dropped that reply does it wait for the next Core.
`NamedIsWhole`: the file a reply names, and config.yaml at any time, are all
there. `Answered`: a call gets its answer without the help of its timeout,
unless `send` dropped it. `Reclaimed`: what a root Core made becomes the
user's or goes.

### Bounds, and why they are enough

- `lifecycle`: three commands and two processes. A command can be overtaken
  twice, and a second process meets whatever the first one left (an
  unconfirmed stop, an entry in the accept queue, a late disconnect).
  Starting a third process adds no new owner: `OneCore` is proved for any
  number.
- `message`: two senders, two events each, channels and batches of two, all
  four kinds of event (state, priority, bulk, bulk that never evicts), a burst
  of one, two eviction attempts. Four events overfill a channel, fill a batch
  and pass a burst. The proved properties hold for every size.
- `route`: two goroutines, two calls or stops in order, one counted change and
  one drift, two routes. Any two calls, stops, refreshes or polls cross. The
  safety properties are proved for every bound.
- `updates`: one geo file and one provider, two requests, new ones only while
  at most one event is on its way. A third request or resource meets the same
  claim; claims are proved for any number.
- `traffic`: two connections, two watch goroutines (one more than the code
  means to have), two retries, totals up to two.
- `frames`: three senders, two frames each, frames of two units: one writes,
  one waits and one arrives. The safety properties are proved for every size.
  Two units are enough for a frame that is not begun, begun, and whole.
- `service`: two goroutines that run any call over and over, two listener
  settings. configMu has one holder, so a third goroutine only waits for it or
  repeats what the second can do between two sections.
- `bridge`: two starts and stops that cross, two dialers, one possibly under
  configMu, two DNS updates: an old and a new handler, a reader and a reader
  behind a writer, a first update and the one that overtakes it.
- `slots`: two calls of any kind reused without limit, one slot per pool, two
  services, sweeps of both and of one named twice, two sources, two requests
  per job, one epoch to move: a job waits, one holds, one is cancelled while it
  waits or holds. `Width` equals the number of sources, so more sources than
  may fly at once is not reached.
- `probes`: two names, two servers and two disturbances: an answer overtaken
  once, and the check of it overtaken again; a server swapped between a dial
  and its hit; a pick that goes and comes back. `ShownIsCurrent` needs no more
  to fail.
- `spill`: two calls in all, one death of a Core, two sweeps: two files and a
  sweep between them, a file written while a sweep walks, a late reply, a read
  that outlives its Core. Three calls were explored past a million states
  with nothing found.
- Counters that only histories keep are bounded by these; queue lengths and
  attempts are the code's constants made small.

### Fairness

- `lifecycle`: every await of the worker ends. The bind, the waiter, the
  process stop and the Helper's HTTP calls have timeouts in the code, the
  rest is local. Nothing is assumed of processes, commands or the peer.
- `message`: the scheduler runs each goroutine that can run, and the 16 ms
  timer fires. A listener may stay away.
- `route`: Go's mutex starves nobody (strong fairness of taking it), the other
  steps are weakly fair and the ticker of `pollRoute` ticks.
- `updates`: downloads end (mihomo bounds them), goroutines run, events and
  answers arrive. New requests are not assumed.
- `traffic`: goroutines run and the one-second ticker ticks.
- `frames`: goroutines run, `writeMu` is fair, a host that reads is written to,
  and a connection that is closed or whose host is gone fails the next write
  and read; no other failure is assumed to happen. A host that stalls comes
  back or goes. Without the last `Finishes` and `SendsEnd` are false by design:
  a half-written frame is resumed without a cap.

- `service`, `bridge`: goroutines run and locks starve nobody (strong
  fairness), as Go's mutexes promise. Nobody is assumed to call.
- `slots`: of each call something that can go on does, its timeout included;
  nothing says that an answer comes.
- `probes`: probes, checks and answers arrive or their Core goes, timers fire,
  the watch's poll runs (`core.watched`).
- `spill`: goroutines run while the Core is up, the host's event loop takes up
  what arrived. Timeouts and the death of a Core are not assumed.

Deadlock checking is off where the system may really rest for good: a closed
lifecycle, senders that fall silent, frames that were all sent.

## 4. Findings

Each was met while modelling, and its configuration shows a shortest
behaviour. The first is among the runs; the others' configurations stay
beside it.

- `ResourceUpdates_overlap` – an automatic geo update that begins inside a
  manual one holds no claim of its own, so the next manual one starts beside
  it.
- `RoutedProbe_landed` – an answer held back because it is ahead of the host is
  in no entry, so a move of the route while it is being checked does not mark
  it; it is shown afterwards and nothing checks it again
  (`routed_probe.dart:503`, against the promise of line 76).
- `CoreService_exit` – a setup and a start that were already dispatched when
  the host went apply their config after `handleShutdown` and the process ends
  with listeners, and the TUN's policy routes, up: isInit is read before
  configMu is taken (`config.go:60`, against `exit.go:13`).
- `RoutedProbe_unread` – a pick that moves away and back between two readings is
  counted by nobody (`route.go:98`), so the answer of a probe that left through
  the other one carries the present counters and is shown; the same when the
  server behind a name is replaced between a dial and the hit that is looked
  up after it, which the check that follows then confirms
  (`LeftThroughCurrent`).
- `CoreService_passed` – a probe sent after `applyConfig` moved the epoch and
  before its listeners and its TUN came up (`config.go:179`), or before an
  update that switches neither mode nor IPv6 opened them again
  (`config.go:244`), left over what was there before and stands afterwards
  (`ListenersDropProbes`). The resets that
  `.agents/architecture.md:437` promises are applied configs, IPv6 switches and
  starts, and those hold (`ResetsDropProbes`).
- `DesktopLifecycle_deaf` – `_startSession` publishes Running for a connection
  its waiter took earlier. If the transport lost it meanwhile (the launch had
  not returned yet), nobody looks again and the session runs without a
  connection.
- `DesktopLifecycle_stalestop` – a stop submitted in the one microtask between
  `_abandonedStart` and the answer is reported `applied` although idle was
  never published.
- `MessageDelivery_futile` – the last eviction of `enqueueLatest` is not
  followed by another try: an event is thrown out and the new one is lost as
  well. It takes channels of one place, the code's four attempts and five
  events per sender.
- `ResourceUpdates_refused` – when the automatic update's event arrives before
  the refusal of a request, the refusal takes the mark down although the
  update still runs.
- `RequestTraffic_wiped` – a listener that returns between the check of a tick
  and its clear loses the connections announced to it in between.

Seen in the code and not run: an answer of `watchRoute` overtaken by an event
sets the host's counters back until the next answer is ahead
(`route_state.dart:205`); a spilled file whose reply `send` dropped
(`server.go:158`) is deleted by the next Core only, and its call waits for its
timeout; a configuration's temporary file that a dying Core leaves is
deleted by nobody (`profile_base.go:269`); two compilations of one rule set
share the name of their temporary file (`rule_set.go:96`), so one may rename
the other's half-written one; a rule set compiled by a root Core stays root's
until something else asks for a sweep.

## 5. Proofs

For every value of the constants, from the named assumption of each module
and nothing else. An invariant is seldom inductive as it stands; each proof
module begins with the strengthening it uses. `OpenKeptHolds` has `PromptJoin`
as its hypothesis: a connection is stored within the second of a report, which
the code counts on (`fresh`) and the run sets; without it a report may drop a
connection while it opens.

| theorems | invariant | why it is needed |
|---|---|---|
| `DesktopLifecycleProofs!TypeCorrect` | `TypeInv` | adds what must not be null at an await (`Present`) |
| `OneCoreHolds`, `NoOrphanHolds`, `RunningIsOwnedHolds` | `OwnInv` | one owner per process: the label of the worker says which of the start, the session, the recovery and the unconfirmed slot can be in use; only a close gives a process up |
| `AnsweredInOrderHolds` | `AnsweredInOrder` itself, with types | answers are given up to a revision |
| `AppliedExceptStopsHolds` | `Achievement`, with `TypeInv` and `OwnInv` | the label that answers a command `applied` is reached only with its state in place |
| `KeepsPromiseHolds` | `OwnsSpawned`, with the same two | every step is a step of `LatestIntent` or a stutter: answers (`AnswerSteps`), processes (`ProcessSteps`: what is held was spawned, so that an exit confirmed is one of the abstraction's), the rest leaves its variables |
| `DeliveryProofs!BulkOpportunityHolds` | `BurstInv` | relates what was skipped to the burst at each label of the batcher |
| `TypeCorrect` | `TypeInv` | with `BurstInv` |
| `EvictsOwnQueueHolds` | `OwnInv` | a channel holds only its own classes |
| `InOrderHolds` | `OrderInv` | what is delivered, in the batch, in the channel and in the sender's hand is one increasing sequence per sender and queue |
| `StateKeptHolds` | `TypeInv` | the steps that take from the state channel, one by one |
| `RouteWatchProofs!TypeCorrect` | `TypeInv` | locals of a goroutine by its label |
| `FollowsLatestHolds` | `FollowInv` | the highest place in the order decides: obeyed, or still under way |
| `PublishedInOrderHolds`, `NothingMissedHolds` | `PublishInv` | mutual exclusion of selectMu, and that a carried state is still the tracker's |
| `ResourceUpdatesProofs!OneManualHolds`, `ClaimsTrueHolds` | `ClaimInv` | a claim is exactly who updates, key by key |
| `FrameStreamProofs!FramedHolds` | `StreamInv` | where the stream ends: at a frame's end, or where its writer is |
| `KeepsConnectionHolds` | itself, with `StreamInv` | once the connection is given up nothing more gets on the wire, and the frame that gave it up is its last |
| `LoggedOnceHolds` | `LogInv` | what was logged set the latch |
| `AndroidBridgeProofs!CallbackOwnedHolds`, `HookLiveHolds`, `DescriptorsOwnedHolds` | `HandlerInv` | which thread has which of the three locks at each label, whose hook is in, and for each descriptor the one thread or TUN that owes its closing |
| `LastDnsWinsHolds` | `DnsInv` | the last update asked for waits, runs, or was applied |
| `CoreProofs!OneWatcherHolds` | `WatcherInv` | one goroutine that has not decided to end, exactly while there are requests |
| `OpenKeptHolds`, `FinalTotalsHolds` | `ReportInv`, `ClosedInv` | a request with retries used up was seen closed, and closed stays closed |
| `LiveFollowsConfigHolds`, `ResetsDropProbesHolds` | `HolderInv`, `QuickInv`, `LiveInv`; the second itself, with types | configMu has one holder; what it has applied so far at each label; who announced a run whose setup is to come |
| `SlotsOwnedHolds` | `CountInv` | with `FlightInv` a job that is out belongs to one running call, so that taking and giving back a slot changes the holders by one |
| `OneLiveCheckHolds`, `CancelledForCauseHolds` | `CauseInv` | a check that is not cancelled holds the claim or its sweep named the service twice; what replaced a cancelled one is still known by sweep or epoch |
| `SourcesAskedHolds`, `RoutesSettleHolds` | itself; `RouteInv` | a source is asked, under way or still ahead; a connection waits for its route only while it is open |
| `DeliveryProofs!NothingLeftHolds`, `NamedIsWholeHolds` | `FileInv` | a call is in one place at a time, and what there is of its file at each label; that the directory is the user's once a file is in it, so that the host can delete it; a dropped reply is the one way out |
| `RoutedProbeProofs!NeverStuckLoadingHolds` | `LoadInv`, with `WorldInv` | an answer held back is being asked about or will be, and nothing is in flight beside it; a re-probe that may be dropped is of a watched target, so that a launch drops it only for a probe that is out |
| `StampsAreTrueHolds` | `StampInv`, with both | what a stamp says at each stage of a probe and of a check: its counters are ones the Core has reached, and if they are the present ones and nothing moved unread or missed since, the server behind its name and the pick are the present ones; a check carries an answer on only under counters of its own epoch; after a Core has ended no count is known until the host's own epoch moves |

Each proof shows `Init => Inv`, `Inv /\ [Next]_vars => Inv'` with one step per
action, and that the invariant implies the property; the temporal step is
PTL's.

Only model-checked: everything under fairness (`Converges`, the answering of
every command in `FairKeepsPromise`, `Drains`, `Noticed`, `MarksEnd`,
`Finishes`, `GivenUpEnds`, `CallsReturn`, `CallsEnd`, `Settles`, `Answered`,
`Reclaimed`), because the prover has no rule for ENABLED.

The proofs of `RoutedProbeProofs` follow the shape of the code. Each handler
of the cache is an operator on a target, and has a lemma of what it leaves
(`InvalidateLoads`, `VerifyLoads`, `OnRouteLoads`, `LandsLoads`,
`JudgedLoads`); `LaunchLoads` is the microtask that ends every handler, and
one lemma per group of actions puts them together. `TrueMoves` is the argument
for everything that happens elsewhere: counters only grow, an exit moves only
with them or as a move that is unread or missed, and the host's epoch never
returns to an earlier value.

## 6. Plan

In this order; each entry a module, its run, and its theorem where one is
worth it.

1. *Done*: the eleven components above.
2. Proofs: *done* for every safety property the runs check and for the
   refinement of `LatestIntent`.
3. `RuleSetFiles` – `rule_set.go` with its temporary names and the host's
   staging of `clash_providers.dart`.
4. The extended timeouts of `rpc_client.dart`, composed with `FrameStream`.
5. `AndroidService` – `ServiceStateMachine.kt` with requests of the tile, the
   application and the system.
6. `HelperService` – owners and generations of `hub.rs`, with crashes.

## 7. Not modelled

- Items 3 to 6 of the plan, until then.
- What a service's answer means (`service_rules.go`), share links, rules,
  certificates and the merge of profiles: pure conversions that unit tests
  cover well; DNS queries and region lookups, one call each.
- The pump of the log subscription: one loop over a lock of mihomo's, which
  reads until it is closed.
- Providers beyond their updates (sideloading, listing, dumping), the
  connection list, proxy selection beyond the route it moves.
- `updateDns` of the Core's method table, which the application never calls;
  the TUN start that is given no descriptor.
- In the modelled parts: the batcher's timer, which `MessageDelivery` has ready
  whenever the batch holds something, not its stop, drain and reset by hand; a
  `chown` of a sweep that fails, which the code only logs; the moment between
  storing a connection and handing it over in `DialTunnel`, one step of
  `ProbeSlots`; which mark a geo update of before leaves
  (`geo_resource.dart`'s `previous`).
- In `RoutedProbe`, failures of `watchRoute` other than the end of the Core;
  the throttle is a wait of any length.
- Coalescing of restarts, exit coordination and other application actions:
  planned only if the items above leave room.
- The sweep of `updating.dart` and what the host announces at the end of an
  update.
- User interface, database, editor and platform plugins, build and release
  scripts, the web site.
- Wording, logging and layout throughout; payloads are their identity.
