------------------------------- MODULE ProbeSlots ------------------------------
(***************************************************************************)
(* How the Core runs the host's probes at once: sweeps of service checks   *)
(* (core/service_check.go), lookups of the outbound address                *)
(* (core/outbound_ip.go), single probes (core/probe.go) and delay tests    *)
(* (core/delay.go) share the slots of core/slots.go, time out, and cancel  *)
(* those a newer call replaces.                                            *)
(*                                                                         *)
(* A call starts jobs, each on a goroutine of its own that makes requests; *)
(* a lookup may return before its jobs end.  A context is a flag of its    *)
(* call, or of the claim on a service; a timeout is a step that is always  *)
(* possible.  HTTP, the rules of the services and mihomo's dials are       *)
(* external: a request is answered, usably or not, or fails.               *)
(***************************************************************************)
EXTENDS Naturals, Sequences, FiniteSets

CONSTANTS
    Calls,       \* calls that may run at once; each is used again when it is done
    Services,    \* what a sweep may check
    Asks,        \* bound: what a sweep is asked for, sequences of them
    Sources,     \* how many sources a lookup is given
    Width,       \* outboundIpConcurrency
    ProbeConcurrency, CheckConcurrency, DelayConcurrency,   \* slots there are
    MaxRequests, \* bound: requests of one check
    MaxEpoch,    \* bound: route epochs
    None

Pools    == {"probe", "check", "delay"}
Size     == [probe |-> ProbeConcurrency, check |-> CheckConcurrency, delay |-> DelayConcurrency]
Jobs     == Calls \X (1..Sources \cup UNION {DOMAIN a : a \in Asks})

ASSUME SlotsAssumption ==
    /\ Asks \subseteq Seq(Services) \ {<<>>} /\ Sources \in Nat \ {0} /\ Width \in Nat \ {0}
    /\ Size \in [Pools -> Nat \ {0}]
    /\ MaxRequests \in Nat \ {0} /\ MaxEpoch \in Nat /\ None \notin Calls

VARIABLES
    call,       \* each call: kind, stage, what it asks for, the next of it, its
                \* context, the route epoch it began in, its services that were claimed anew
    claims,     \* serviceClaims
    lookups,    \* outboundIpClaims: the calls that have one
    job,        \* each job: stage, requests made, a usable answer
    granted,    \* jobs that hold a check slot
    taken,      \* how full the channels of the slots are
    pending,    \* pendingProbeRoutes: jobs whose connection waits for its route
    settled,    \* jobs whose connection has its route
    epoch       \* the route epoch

claimed == <<claims, lookups>>
conns   == <<pending, settled>>
slotsVars == <<call, claimed, job, granted, taken, conns, epoch>>

Fresh(kind, stage, asks) ==
    [kind |-> kind, stage |-> stage, asks |-> asks, next |-> 1, ctx |-> "live",
     epoch |-> IF kind = "lookup" THEN epoch ELSE 0, lost |-> {}]
Gone(kind) == [Fresh(kind, "idle", <<>>) EXCEPT !.ctx = "over", !.epoch = 0]
Idle       == [stage |-> "none", requests |-> 0, usable |-> FALSE]

SlotsInit ==
    /\ epoch = 0
    /\ call = [c \in Calls |-> Gone("none")]
    /\ claims = [s \in Services |-> None] /\ lookups = {}
    /\ job = [j \in Jobs |-> Idle]
    /\ granted = {} /\ taken = [p \in Pools |-> 0]
    /\ pending = {} /\ settled = {}

---------------------------------------------------------------------------
(* slots *)

Acquire(p) == taken[p] < Size[p] /\ taken' = [taken EXCEPT ![p] = @ + 1]
Release(p) == taken[p] > 0 /\ taken' = [taken EXCEPT ![p] = @ - 1]

\* ctx.Err of the context a job works under.
Over(j) ==
    LET c == call[j[1]] IN
    \/ c.ctx # "live"
    \/ c.kind = "sweep" /\ c.asks[j[2]] \in c.lost

JobsOf(c)  == {j \in Jobs : j[1] = c}
Ended(j)   == job[j].stage = "none"
Flying(c)  == {j \in JobsOf(c) : ~Ended(j)}
Goto(j, from, to) == job[j].stage = from /\ job' = [job EXCEPT ![j].stage = to]

---------------------------------------------------------------------------
(* runProbe *)

Untouched == UNCHANGED <<call, claimed, epoch>>

\* lookupProxy knows no proxy of the name the call is pinned to.
Missing(j) ==
    /\ Goto(j, "queue", "judge")
    /\ Untouched /\ UNCHANGED <<granted, taken, conns>>

PoolOf(j) == IF call[j[1]].kind = "delay" THEN "delay" ELSE "probe"

GetSlot(j, next) ==
    /\ Goto(j, "queue", next)
    /\ ~Over(j) /\ Acquire(PoolOf(j))
    /\ Untouched /\ UNCHANGED granted

\* The wait for a slot has its own deadline, and the context's.
NoSlot(j) ==
    /\ Goto(j, "queue", "judge")
    /\ Untouched /\ UNCHANGED <<granted, taken, conns>>

\* With its slot the request dials.  A pinned dial gives its route with its connection;
\* a routed one waits for the tunnel (awaitTunnel), and is handed to it.
DialProxy(j) ==
    /\ PoolOf(j) = "probe" /\ GetSlot(j, "open")
    /\ settled' = settled \cup {j} /\ UNCHANGED pending

NotStored(j) == pending                                           \* faulty variant
Stored(j)    == pending \cup {j}

DialTunnel(j) ==
    /\ PoolOf(j) = "probe" /\ GetSlot(j, "piped")
    /\ pending' = Stored(j) /\ UNCHANGED settled

\* handleTestDelay: URLTest
TestDelay(j) ==
    /\ PoolOf(j) = "delay" /\ GetSlot(j, "test")
    /\ UNCHANGED conns

\* notifyProbeRoute, which the tunnel calls before it relays: the route is settled
\* for the connection that waits for it.
Track(j) ==
    /\ Goto(j, "piped", "open")
    /\ pending' = pending \ {j}
    /\ settled' = IF j \in pending THEN settled \cup {j} ELSE settled
    /\ Untouched /\ UNCHANGED <<granted, taken>>

\* routedConn.Close
Forgets(j) == pending                                             \* faulty variant
Closed(j)  == pending \ {j}

Ends(j, usable) ==
    /\ job' = [job EXCEPT ![j].stage = "judge", ![j].usable = usable /\ call[j[1]].stage = "race"]
    /\ Release(PoolOf(j))
    /\ pending' = Closed(j) /\ settled' = settled \ {j}
    /\ Untouched /\ UNCHANGED granted

Answered(j) ==
    /\ job[j].stage \in {"open", "test"}
    /\ \E usable \in BOOLEAN : Ends(j, usable)

\* A timeout, a context that is over, a connection refused or lost.
Fails(j) ==
    /\ job[j].stage \in {"piped", "open", "test"}
    /\ Ends(j, FALSE)

Request(j) ==
    \/ Missing(j) \/ NoSlot(j)
    \/ DialProxy(j) \/ DialTunnel(j) \/ TestDelay(j) \/ Track(j) \/ Answered(j) \/ Fails(j)

---------------------------------------------------------------------------
(* handleProbe, handleTestDelay *)

\* The jobs of a call and its own state start over.
Ask(c, kind, stage, asks) ==
    /\ call[c].stage = "idle" /\ Flying(c) = {}
    /\ call' = [call EXCEPT ![c] = Fresh(kind, stage, asks)]
    /\ job' = [j \in Jobs |-> IF j[1] # c THEN job[j]
                              ELSE IF stage = "one" /\ j[2] = 1
                              THEN [Idle EXCEPT !.stage = "queue"] ELSE Idle]
    /\ UNCHANGED <<claimed, granted, taken, conns, epoch>>

One(j) ==
    /\ call[j[1]].stage = "one" /\ job[j].stage = "judge"
    /\ job' = [job EXCEPT ![j] = Idle]
    /\ call' = [call EXCEPT ![j[1]] = Gone("none")]
    /\ UNCHANGED <<claimed, granted, taken, conns, epoch>>

---------------------------------------------------------------------------
(* handleServiceCheck *)

\* A service asked for twice in one sweep is claimed once.
ClaimsEach(c) == TRUE                                             \* faulty variant
FirstOf(c) ==
    \A k \in 1..(call[c].next - 1) : call[c].asks[k] # call[c].asks[call[c].next]

Next1(c, done) ==
    IF call[c].next = Len(call[c].asks) THEN [call[c] EXCEPT !.stage = done, !.next = 1]
    ELSE [call[c] EXCEPT !.next = @ + 1]

\* claimService: the sweep that had the service loses its check of it.
Claim(c) ==
    /\ call[c].stage = "claim"
    /\ LET s == call[c].asks[call[c].next] IN
       IF FirstOf(c)
       THEN /\ claims' = [claims EXCEPT ![s] = c]
            /\ call' = [d \in Calls |->
                  LET e == IF d = c THEN Next1(c, "place") ELSE call[d] IN
                  IF d = claims[s] THEN [e EXCEPT !.lost = @ \cup {s}] ELSE e]
       ELSE call' = [call EXCEPT ![c] = Next1(c, "place")] /\ UNCHANGED claims
    /\ UNCHANGED <<lookups, job, granted, taken, conns, epoch>>

\* Each check waits for a slot of its own, or for its context, before the next.
Place(c) ==
    LET j == <<c, call[c].next>> IN
    /\ call[c].stage = "place"
    /\ IF Over(j) THEN UNCHANGED <<granted, taken>>
                  ELSE Acquire("check") /\ granted' = granted \cup {j}
    /\ job' = [job EXCEPT ![j] = IF Over(j) THEN [Idle EXCEPT !.stage = "refused"]
                                 ELSE [Idle EXCEPT !.stage = "queue", !.requests = 1]]
    /\ call' = [call EXCEPT ![c] = Next1(c, "wait")]
    /\ UNCHANGED <<claimed, conns, epoch>>

\* The goroutine of a check gives back the slot it was granted, if it was.
ReleasesAny(j)  == Release("check") /\ granted' = granted \ {j}   \* faulty variant
GivesBack(j) ==
    IF j \in granted THEN Release("check") /\ granted' = granted \ {j}
                     ELSE UNCHANGED <<taken, granted>>

\* runServiceCheck: the rule's requests, a repetition after a timeout among them; a
\* panic in it ends the check alike.  A check that was refused its slot asks nothing.
Check(j) ==
    /\ call[j[1]].kind = "sweep"
    /\ Untouched /\ UNCHANGED conns
    /\ \/ /\ job[j].requests < MaxRequests
          /\ job[j].stage = "judge"
          /\ job' = [job EXCEPT ![j].stage = "queue", ![j].requests = @ + 1]
          /\ UNCHANGED <<granted, taken>>
       \/ /\ job[j].stage \in {"refused", "judge"}
          /\ job' = [job EXCEPT ![j] = Idle]
          /\ GivesBack(j)

\* running.Wait, and the release of the claims, each of which may be another's by now.
DropsAny(c) == [s \in Services |->                                \* faulty variant
                   IF \E k \in DOMAIN call[c].asks : call[c].asks[k] = s THEN None ELSE claims[s]]
DropsOwn(c) == [s \in Services |-> IF claims[s] = c THEN None ELSE claims[s]]

Joined(c) ==
    /\ call[c].stage = "wait" /\ Flying(c) = {}
    /\ claims' = DropsOwn(c)
    /\ call' = [call EXCEPT ![c] = Gone("none")]
    /\ UNCHANGED <<lookups, job, granted, taken, conns, epoch>>

---------------------------------------------------------------------------
(* handleOutboundIp *)

\* claimOutboundIp: the stamp was read before.
NotNewer(d, c) == call[d].epoch <= call[c].epoch                  \* faulty variant
Older(d, c)    == call[d].epoch < call[c].epoch

ClaimLookup(c) ==
    /\ call[c].stage = "stamped"
    /\ LET stale == {d \in lookups : Older(d, c)} IN
       /\ lookups' = (lookups \ stale) \cup {c}
       /\ call' = [d \in Calls |->
             IF d = c THEN [call[d] EXCEPT !.stage = "race", !.next = 2]
             ELSE IF d \in stale /\ call[d].ctx = "live" THEN [call[d] EXCEPT !.ctx = "cancelled"]
             ELSE call[d]]
    /\ job' = [job EXCEPT ![<<c, 1>>].stage = "queue"]
    /\ UNCHANGED <<claims, granted, taken, conns, epoch>>

\* start, when so many sources are out.
MayStart(c, out) == call[c].next <= Sources /\ out < Width

Tick(c) ==
    /\ call[c].stage = "race" /\ MayStart(c, Cardinality(Flying(c)))
    /\ job' = [job EXCEPT ![<<c, call[c].next>>].stage = "queue"]
    /\ call' = [call EXCEPT ![c].next = @ + 1]
    /\ UNCHANGED <<claimed, granted, taken, conns, epoch>>

\* A job leaves its answer in the channel, which has room for all of them: nobody
\* need read it.
Unbuffered(c) == call[c].stage = "race"                           \* faulty variant
HasRoom(c)    == TRUE

Unread(j) ==
    /\ call[j[1]].kind = "lookup" /\ call[j[1]].stage = "idle" /\ job[j].stage = "judge"
    /\ HasRoom(j[1])
    /\ job' = [job EXCEPT ![j] = Idle]
    /\ Untouched /\ UNCHANGED <<granted, taken, conns>>

\* The call returns: its claim goes, and its context ends with it.
Return(c) ==
    /\ lookups' = lookups \ {c}
    /\ call' = [call EXCEPT ![c] = Gone("lookup")]
    /\ UNCHANGED <<claims, granted, taken, conns, epoch>>

WaitsForTick(c, j) ==                                             \* faulty variant
    /\ job' = [job EXCEPT ![j] = Idle] /\ UNCHANGED call
StartsNext(c, j) ==
    IF MayStart(c, Cardinality(Flying(c)) - 1)
    THEN /\ job' = [job EXCEPT ![j] = Idle, ![<<c, call[c].next>>].stage = "queue"]
         /\ call' = [call EXCEPT ![c].next = @ + 1]
    ELSE job' = [job EXCEPT ![j] = Idle] /\ UNCHANGED call

Receive(c, j) ==
    /\ call[c].stage = "race" /\ j \in JobsOf(c) /\ job[j].stage = "judge"
    /\ IF job[j].usable
       THEN job' = [job EXCEPT ![j] = Idle] /\ Return(c)
       ELSE StartsNext(c, j) /\ UNCHANGED <<claimed, granted, taken, conns, epoch>>

GivesUp(c) ==
    /\ call[c].stage = "race" /\ (call[c].ctx # "live" \/ Flying(c) = {})
    /\ Return(c) /\ UNCHANGED job

---------------------------------------------------------------------------
(* Around them *)

\* The deadline of a sweep's or a lookup's context.
Expire(c) ==
    /\ call[c].stage \notin {"idle", "one", "stamped"} /\ call[c].ctx = "live"
    /\ call' = [call EXCEPT ![c].ctx = "late"]
    /\ UNCHANGED <<claimed, job, granted, taken, conns, epoch>>

\* bumpRouteEpoch
BumpEpoch ==
    /\ epoch < MaxEpoch /\ epoch' = epoch + 1
    /\ UNCHANGED <<call, claimed, job, granted, taken, conns>>

Jobbing(j) == Request(j) \/ One(j) \/ Check(j) \/ Unread(j)
Calling(c) ==
    \/ Claim(c) \/ Place(c) \/ Joined(c)
    \/ ClaimLookup(c) \/ Tick(c) \/ GivesUp(c) \/ \E j \in JobsOf(c) : Receive(c, j)

Works(c) ==
    \/ call[c].stage # "idle" /\ (Calling(c) \/ Expire(c))
    \/ \E j \in Flying(c) : Jobbing(j)

SlotsNext ==
    \/ \E c \in Calls :
          \/ \E kind \in {"probe", "delay"} : Ask(c, kind, "one", <<>>)
          \/ \E asks \in Asks : Ask(c, "sweep", "claim", asks)
          \/ Ask(c, "lookup", "stamped", <<>>)
          \/ Works(c)
    \/ BumpEpoch

\* While a call or what it started can go on, or be late, something of it does.
SlotsFairness == \A c \in Calls : WF_slotsVars(Works(c))

SlotsSpec == SlotsInit /\ [][SlotsNext]_slotsVars /\ SlotsFairness

---------------------------------------------------------------------------

Holders(p) ==
    {j \in Jobs : IF p = "check" THEN j \in granted
                  ELSE PoolOf(j) = p /\ job[j].stage \in {"piped", "open", "test"}}

\* No more work than slots, whoever is refused, cancelled or late, and none is lost
\* (slots.go:29, service_check.go:139).
SlotsOwned == \A p \in Pools : taken[p] = Cardinality(Holders(p)) /\ taken[p] <= Size[p]

\* A service has one check that is not cancelled, that of the call that asked last,
\* while older sweeps release their claims (service_check.go:210).
Holds(c, s) ==
    /\ call[c].kind = "sweep" /\ call[c].stage # "idle" /\ call[c].ctx = "live"
    /\ s \notin call[c].lost
    /\ \E k \in DOMAIN call[c].asks :
          call[c].asks[k] = s /\ (call[c].stage = "claim" => k < call[c].next)

OneLiveCheck == \A s \in Services : \A c \in Calls : Holds(c, s) => claims[s] = c

\* Nothing is cancelled that the host still asks for: a check only when its service
\* was asked again, a lookup only when the route's epoch moved (outbound_ip.go:101).
CancelledForCause ==
    \A c \in Calls :
        /\ \A s \in call[c].lost : call[c].stage # "idle" => claims[s] # c
        /\ call[c].ctx = "cancelled" => call[c].epoch < epoch

\* A lookup has no answer only when it asked every source, or was out of time
\* (outbound_ip.go:86).
SourcesAsked ==
    \A c \in Calls :
        call[c].stage = "race" /\ call[c].ctx = "live" /\ Flying(c) = {} =>
            call[c].next > Sources

\* A connection that relays has its route, and none that closed waits for one
\* (probe.go:188, probe.go:200).
RoutesSettle ==
    /\ \A j \in Jobs : job[j].stage = "open" => j \in settled
    /\ pending \subseteq {j \in Jobs : job[j].stage = "piped"}

\* Every call returns and everything it started ends, the losers of a race among it
\* (outbound_ip.go:60).
CallsEnd ==
    \A c \in Calls : call[c].stage # "idle" ~> call[c].stage = "idle" /\ Flying(c) = {}
================================================================================
