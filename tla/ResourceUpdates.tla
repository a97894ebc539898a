---------------------------- MODULE ResourceUpdates ----------------------------
(***************************************************************************)
(* The guard on updates of one resource (core/provider.go, core/geo.go)    *)
(* and the host's progress mark for geo files                              *)
(* (lib/providers/actions/geo_resource.dart).  A provider is updated by    *)
(* the call that asks for it.  A geo file is updated by a goroutine its    *)
(* call leaves behind, or by mihomo's own updater, which asks nobody: each *)
(* such run announces its start and its end through GeoUpdateHook, and the *)
(* hook tells the host.                                                    *)
(*                                                                         *)
(* mihomo's updaters are external: a run writes the resource or not, and   *)
(* mihomo keeps its own runs from overlapping each other.  The reply of a  *)
(* call and the events the hook sends travel separately.  What the host    *)
(* announces when a request of its own has ended is left out.              *)
(***************************************************************************)
EXTENDS Naturals, Sequences, FiniteSets

CONSTANTS
    Geos,         \* geo files
    Providers,    \* external providers
    Calls,        \* update requests the host may have under way
    MaxEvents     \* bound: events on their way when an update is asked for

Keys == Geos \cup Providers

ASSUME UpdateAssumption ==
    /\ Keys # {} /\ Geos \cap Providers = {}
    /\ IsFiniteSet(Calls)
    /\ MaxEvents \in Nat

VARIABLES
    claims,      \* updateClaims.fromHook: who holds the claim of a key
    key,         \* what each call asks to update
    stage,       \* the call, as the host sees it
    run,         \* the call's update in the Core
    auto,        \* mihomo's own update of a geo file
    stale,       \* a resource was written and the route not read again
    operation,   \* _operations: the host's progress mark, 0 for none
    mine,        \* each call's own operation
    wasRunning,  \* updateGeoResource's `running`
    events       \* GeoUpdateMessage on its way to the host

core == <<claims, run, auto, stale>>
host == <<operation, mine, wasRunning>>
vars == <<core, host, key, stage, events>>

Event    == [geo : Geos, updating : BOOLEAN]
Busy     == {"claimed", "updating", "written", "told", "failed"}

Init ==
    /\ claims = [k \in Keys |-> "free"]
    /\ key = [c \in Calls |-> CHOOSE k \in Keys : TRUE]
    /\ stage = [c \in Calls |-> "idle"] /\ run = [c \in Calls |-> "none"]
    /\ auto = [g \in Geos |-> "none"] /\ stale = [k \in Keys |-> FALSE]
    /\ operation = [g \in Geos |-> 0]
    /\ mine = [c \in Calls |-> 0]
    /\ wasRunning = [c \in Calls |-> FALSE]
    /\ events = <<>>

---------------------------------------------------------------------------
(* The host *)

\* UpdatingKeys.start numbers its operations: never one that is still known.
Numbers  == 1..(Cardinality(Calls) + 1)
Fresh(g) == CHOOSE n \in Numbers : n # operation[g] /\ \A c \in Calls : n # mine[c]

\* putIfAbsent: a mark that is up already stays the same operation.
StartedAgain(g) == operation[g] + 1      \* faulty variant
Started(g)      == IF operation[g] = 0 THEN Fresh(g) ELSE operation[g]

\* updateGeoResource up to its await; a provider's request keeps no such mark.
Ask(c, k) ==
    /\ stage[c] = "idle" /\ run[c] = "none" /\ Len(events) < MaxEvents
    /\ key' = [key EXCEPT ![c] = k]
    /\ stage' = [stage EXCEPT ![c] = "sent"]
    /\ IF k \in Geos
       THEN /\ wasRunning' = [wasRunning EXCEPT ![c] = operation[k] # 0]
            /\ operation' = [operation EXCEPT ![k] = Started(k)]
            /\ mine' = [mine EXCEPT ![c] = Started(k)]
       ELSE UNCHANGED host
    /\ UNCHANGED <<core, events>>

Forgotten(c) == /\ stage' = [stage EXCEPT ![c] = "idle"]
                /\ mine' = [mine EXCEPT ![c] = 0]
                /\ wasRunning' = [wasRunning EXCEPT ![c] = FALSE]

StopsNone(c) == FALSE                   \* faulty variant
StopsMark(c) == ~wasRunning[c] /\ operation[key[c]] = mine[c]

\* The await ends: a request that failed puts back what it changed.
Answered(c) ==
    /\ stage[c] \in {"accepted", "refused"}
    /\ operation' = IF stage[c] = "refused" /\ key[c] \in Geos /\ StopsMark(c)
                    THEN [operation EXCEPT ![key[c]] = 0] ELSE operation
    /\ Forgotten(c)
    /\ UNCHANGED <<core, key, events>>

\* handleCoreUpdate: the event at the head reaches the host.
Hear ==
    /\ events # <<>> /\ events' = Tail(events)
    /\ LET e == Head(events)
       IN  operation' = [operation EXCEPT ![e.geo] = IF e.updating THEN Started(e.geo) ELSE 0]
    /\ UNCHANGED <<core, key, stage, mine, wasRunning>>

---------------------------------------------------------------------------
(* The Core *)

Free(k) == claims[k] = "free"

\* claimUpdateAs: one claim per key, whoever asks.
ClaimOver(k, who) == claims' = [claims EXCEPT ![k] = who]      \* faulty variant
ClaimAs(k, who)   == claims' = IF Free(k) THEN [claims EXCEPT ![k] = who] ELSE claims

Reply(c, answer) == stage' = [stage EXCEPT ![c] = answer]

\* handleUpdateGeoData and updateExternalProvider: a claimed geo file is
\* answered at once, a provider when its update is over.
Claim(c) ==
    /\ stage[c] = "sent" /\ run[c] = "none" /\ Free(key[c])
    /\ ClaimAs(key[c], "manual")
    /\ run' = [run EXCEPT ![c] = "claimed"]
    /\ IF key[c] \in Geos THEN Reply(c, "accepted") ELSE UNCHANGED stage
    /\ UNCHANGED <<auto, stale, host, key, events>>

Refuse(c) ==
    /\ stage[c] = "sent" /\ run[c] = "none" /\ ~Free(key[c])
    /\ Reply(c, "refused")
    /\ UNCHANGED <<core, host, key, events>>

Tell(g, updating) == events' = Append(events, [geo |-> g, updating |-> updating])

\* releaseHookUpdate gives back only what the hook took.
ReleaseAny(k)  == [claims EXCEPT ![k] = "free"]       \* faulty variant
ReleaseNone(k) == claims                              \* faulty variant
ReleaseHook(k) == IF claims[k] = "hook" THEN [claims EXCEPT ![k] = "free"] ELSE claims

\* onGeoUpdate(updating): claims if nobody holds the key, and goes on anyway.
Begin(g) == ClaimAs(g, "hook") /\ Tell(g, TRUE)

\* onGeoUpdate(not updating), up to its event.  Its changeRoute, after an update
\* that wrote something, follows the claim's release.
Release(g) == claims' = ReleaseHook(g)

BeginManual(c) ==
    /\ run[c] = "claimed" /\ run' = [run EXCEPT ![c] = "updating"]
    /\ IF key[c] \in Geos
       THEN Begin(key[c])
       ELSE UNCHANGED <<claims, events>>
    /\ UNCHANGED <<auto, stale, host, key, stage>>

Written(k)   == stale' = [stale EXCEPT ![k] = TRUE]
Rerouted(k)  == stale' = [stale EXCEPT ![k] = FALSE]

AnswersFirst == "told"                  \* faulty variant
ReroutesNext == "written"

\* Update: the resource was written, or the update failed.
EndProvider(c) ==
    /\ run[c] = "updating" /\ key[c] \in Providers
    /\ \/ run' = [run EXCEPT ![c] = ReroutesNext] /\ Written(key[c])
       \/ run' = [run EXCEPT ![c] = "failed"] /\ UNCHANGED stale
    /\ UNCHANGED <<claims, auto, host, key, stage, events>>

\* refreshRoute, the claim still held.
RefreshRoute(c) ==
    /\ run[c] = "written" /\ key[c] \in Providers
    /\ run' = [run EXCEPT ![c] = "told"] /\ Rerouted(key[c])
    /\ UNCHANGED <<claims, auto, host, key, stage, events>>

\* A geo file is written, skipped or failed; the hook hears of it at once.
EndGeo(c) ==
    /\ run[c] = "updating" /\ key[c] \in Geos
    /\ run' = [run EXCEPT ![c] = "written"]
    /\ Release(key[c])
    /\ Written(key[c]) \/ UNCHANGED stale
    /\ UNCHANGED <<auto, host, key, stage, events>>

\* changeRoute if there is something new, then the event.
TellGeo(c) ==
    /\ run[c] = "written" /\ key[c] \in Geos
    /\ run' = [run EXCEPT ![c] = "told"]
    /\ Rerouted(key[c]) /\ Tell(key[c], FALSE)
    /\ UNCHANGED <<claims, auto, host, key, stage>>

\* The deferred releaseUpdate, and a provider's answer after it.
GiveBack(c) ==
    /\ run[c] \in {"told", "failed"}
    /\ claims' = [claims EXCEPT ![key[c]] = "free"]
    /\ run' = [run EXCEPT ![c] = "none"]
    /\ IF key[c] \in Providers
       THEN Reply(c, IF run[c] = "told" THEN "accepted" ELSE "refused")
       ELSE UNCHANGED stage
    /\ UNCHANGED <<auto, stale, host, key, events>>

\* mihomo's own updater, as GeoUpdateHook hears it.
BeginAuto(g) ==
    /\ auto[g] = "none" /\ Len(events) < MaxEvents
    /\ auto' = [auto EXCEPT ![g] = "updating"]
    /\ Begin(g)
    /\ UNCHANGED <<run, stale, host, key, stage>>

EndAuto(g) ==
    /\ auto[g] = "updating" /\ auto' = [auto EXCEPT ![g] = "told"]
    /\ Release(g)
    /\ Written(g) \/ UNCHANGED stale
    /\ UNCHANGED <<run, host, key, stage, events>>

TellAuto(g) ==
    /\ auto[g] = "told" /\ auto' = [auto EXCEPT ![g] = "none"]
    /\ Rerouted(g) /\ Tell(g, FALSE)
    /\ UNCHANGED <<claims, run, host, key, stage>>

---------------------------------------------------------------------------
\* The Core goes, and with it its updates and events; the status listener of
\* build() forgets the marks.  Requests under way fail.
CoreLost ==
    /\ claims' = [k \in Keys |-> "free"]
    /\ run' = [c \in Calls |-> "none"] /\ auto' = [g \in Geos |-> "none"]
    /\ stale' = [k \in Keys |-> FALSE]
    /\ events' = <<>>
    /\ operation' = [g \in Geos |-> 0]
    /\ stage' = [c \in Calls |-> IF stage[c] = "sent" THEN "refused" ELSE stage[c]]
    /\ UNCHANGED <<key, mine, wasRunning>>

Goes(c) == \/ Claim(c) \/ Refuse(c) \/ BeginManual(c)
           \/ EndProvider(c) \/ RefreshRoute(c) \/ EndGeo(c) \/ TellGeo(c)
           \/ GiveBack(c)

Ends(g) == EndAuto(g) \/ TellAuto(g)

Next ==
    \/ \E c \in Calls : Goes(c) \/ Answered(c) \/ \E k \in Keys : Ask(c, k)
    \/ \E g \in Geos : BeginAuto(g) \/ Ends(g)
    \/ Hear
    \/ CoreLost

\* Downloads end (mihomo bounds them), goroutines run, messages arrive.
Fairness == /\ \A c \in Calls : WF_vars(Goes(c)) /\ WF_vars(Answered(c))
            /\ \A g \in Geos : WF_vars(Ends(g))
            /\ WF_vars(Hear)

Spec     == Init /\ [][Next]_vars
FairSpec == Spec /\ Fairness

---------------------------------------------------------------------------
\* The fields have the values their declarations allow.
TypeOK ==
    /\ claims \in [Keys -> {"free", "manual", "hook"}]
    /\ key \in [Calls -> Keys]
    /\ stage \in [Calls -> {"idle", "sent", "accepted", "refused"}]
    /\ run \in [Calls -> Busy \cup {"none"}]
    /\ auto \in [Geos -> {"none", "updating", "told"}]
    /\ stale \in [Keys -> BOOLEAN]
    /\ operation \in [Geos -> Numbers \cup {0}]
    /\ mine \in [Calls -> Numbers \cup {0}]
    /\ wasRunning \in [Calls -> BOOLEAN]
    /\ events \in Seq(Event)

Updates(k) == {c \in Calls : run[c] \in Busy /\ key[c] = k}

\* Two requests never update one resource at once: "two concurrent runs close
\* the mmap'd database twice, so handleUpdateGeoData claims per resource"
\* (.agents/rules.md:271), whatever the automatic updater does in between.
OneManual == \A k \in Keys : \A c, d \in Updates(k) : c = d

\* A claim is held by what it says: a leaked one would keep the resource from
\* ever being updated again, a stolen one let the next request in.
ClaimsTrue ==
    \A k \in Keys :
        /\ claims[k] = "manual" <=> Updates(k) # {}
        /\ claims[k] = "hook" => k \in Geos /\ auto[k] = "updating"

\* A provider nobody updates has had its route read again: the claim covers
\* refreshRoute, so that the next update cannot overtake it.
ProviderRouted == \A p \in Providers : Free(p) => ~stale[p]

AtRest == /\ events = <<>>
          /\ \A c \in Calls : stage[c] = "idle" /\ run[c] = "none"
          /\ \A g \in Geos : auto[g] = "none"

\* No progress mark outlives the updates, whichever way requests, refusals,
\* events and a lost Core cross each other.
NoStuckMark == AtRest => \A g \in Geos : operation[g] = 0

\* Every claim is given back, so no resource is blocked for good.
ClaimsEnd == \A k \in Keys : ~Free(k) ~> Free(k)

\* And every progress mark is taken down while updates come and go.
MarksEnd == \A g \in Geos : operation[g] # 0 ~> operation[g] = 0

---------------------------------------------------------------------------
\* "a manual update ran while the auto updater was already updating the same
\* resource" (core/config_test.go:640): none is let in.
ManualWaits ==
    [][\A c \in Calls :
         run[c] = "none" /\ run'[c] # "none" /\ key[c] \in Geos
         => auto[key[c]] # "updating"]_vars

\* "A request the Core turns down leaves an update already running as it was"
\* (geo_resource.dart:44): its mark stays if the host has heard of it.
TurnedDownLeaves ==
    [][\A c \in Calls :
         /\ stage[c] = "refused" /\ stage'[c] = "idle"
         /\ key[c] \in Geos /\ auto[key[c]] = "updating" /\ events = <<>>
         => operation'[key[c]] = operation[key[c]]]_vars
=============================================================================
