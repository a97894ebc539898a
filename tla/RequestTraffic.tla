----------------------------- MODULE RequestTraffic -----------------------------
(***************************************************************************)
(* The traffic reports of the request list (core/request_traffic.go).      *)
(* mihomo announces a connection as it opens, on the goroutine that opens  *)
(* it and before its manager stores it; one goroutine then reports, once a *)
(* second, the totals that changed and lets go of the connections that     *)
(* closed.  The event listener comes and goes (Android), and the bulk      *)
(* queue may drop a report.                                                *)
(*                                                                         *)
(* Upload and download are one total.  mihomo's trackers and manager are   *)
(* external: totals grow while a connection is open and stand once it has  *)
(* left the manager.                                                       *)
(***************************************************************************)
EXTENDS Naturals, FiniteSets

CONSTANTS
    Conns,        \* connections
    Watchers,     \* goroutines of runRequestTrafficWatch
    CloseRetries, \* requestTrafficCloseRetries
    MaxTotal,     \* bound: what one connection transfers
    PromptJoin    \* the manager stores a connection within a report's interval

ASSUME TrafficAssumption ==
    /\ IsFiniteSet(Conns) /\ IsFiniteSet(Watchers) /\ Watchers # {}
    /\ CloseRetries \in Nat /\ MaxTotal \in Nat
    /\ PromptJoin \in BOOLEAN

VARIABLES
    conn,        \* the connection, for mihomo's manager
    total,       \* what it has transferred
    notify,      \* where DefaultRequestNotify is, per connection
    listening,   \* hasEventListener
    requests,    \* the keys of currentRequestTraffic.requests
    reported, fresh, closedReports,   \* their entries
    running,     \* currentRequestTraffic.running
    watcher,     \* each watch goroutine
    told,        \* history: the total the host was last told, per connection
    heard        \* history: the connections announced to the present listener

watch   == <<requests, reported, fresh, closedReports, running>>
traffic == <<conn, total>>
history == <<told, heard>>
trafficVars == <<traffic, notify, listening, watch, watcher, history>>

TrafficInit ==
    /\ conn = [c \in Conns |-> "new"] /\ total = [c \in Conns |-> 0]
    /\ notify = [c \in Conns |-> "none"]
    /\ listening \in BOOLEAN
    /\ requests = {} /\ running = FALSE
    /\ reported = [c \in Conns |-> 0] /\ fresh = [c \in Conns |-> FALSE]
    /\ closedReports = [c \in Conns |-> 0]
    /\ watcher = [w \in Watchers |-> "none"]
    /\ told = [c \in Conns |-> 0] /\ heard = {}

---------------------------------------------------------------------------
(* The connection and DefaultRequestNotify *)

Step(c, at, to) == notify[c] = at /\ notify' = [notify EXCEPT ![c] = to]

Open(c) ==
    /\ conn[c] = "new" /\ conn' = [conn EXCEPT ![c] = "opening"]
    /\ Step(c, "none", "check")
    /\ UNCHANGED <<total, listening, watch, watcher, history>>

\* Without a listener nobody is told of the connection.
CheckListening(c) ==
    /\ Step(c, "check", IF listening THEN "add" ELSE "done")
    /\ UNCHANGED <<traffic, listening, watch, watcher, history>>

StartsAlways == TRUE                    \* faulty variant
StartsWatch  == ~running

\* add: the watch starts with the first request.
Add(c) ==
    /\ Step(c, "add", IF StartsWatch THEN "start" ELSE "done")
    /\ requests' = requests \cup {c}
    /\ reported' = [reported EXCEPT ![c] = total[c]]
    /\ fresh' = [fresh EXCEPT ![c] = TRUE]
    /\ closedReports' = [closedReports EXCEPT ![c] = 0]
    /\ running' = TRUE
    /\ told' = [told EXCEPT ![c] = total[c]]
    /\ heard' = IF listening THEN heard \cup {c} ELSE heard
    /\ UNCHANGED <<traffic, listening, watcher>>

Start(c) ==
    /\ Step(c, "start", "done")
    /\ \E w \in Watchers : /\ watcher[w] = "none"
                           /\ watcher' = [watcher EXCEPT ![w] = "ticking"]
    /\ UNCHANGED <<traffic, listening, watch, history>>

\* The manager stores the connection; it transfers, and leaves the manager.
Join(c) ==
    /\ conn[c] = "opening" /\ notify[c] = "done"
    /\ conn' = [conn EXCEPT ![c] = "open"]
    /\ UNCHANGED <<total, notify, listening, watch, watcher, history>>

Transfer(c) ==
    /\ conn[c] = "open" /\ total[c] < MaxTotal
    /\ total' = [total EXCEPT ![c] = @ + 1]
    /\ UNCHANGED <<conn, notify, listening, watch, watcher, history>>

Close(c) ==
    /\ conn[c] = "open" /\ conn' = [conn EXCEPT ![c] = "closed"]
    /\ UNCHANGED <<total, notify, listening, watch, watcher, history>>

---------------------------------------------------------------------------
(* runRequestTrafficWatch *)

Goes(w, at, to) == watcher[w] = at /\ watcher' = [watcher EXCEPT ![w] = to]

\* A tick asks for the listener before anything else.
TickWatch(w) ==
    /\ Goes(w, "ticking", IF listening THEN "collect" ELSE "clear")
    /\ UNCHANGED <<traffic, notify, listening, watch, history>>

Forget == /\ fresh' = [c \in Conns |-> c \in requests' /\ fresh[c]]
          /\ closedReports' = [c \in Conns |-> IF c \in requests' THEN closedReports[c] ELSE 0]
          /\ reported' = [c \in Conns |-> IF c \in requests' THEN reported[c] ELSE 0]

Clear(w) ==
    /\ Goes(w, "clear", "none")
    /\ requests' = {} /\ running' = FALSE
    /\ Forget
    /\ UNCHANGED <<traffic, notify, listening, history>>

IsOpen(c) == conn[c] = "open"

\* A request missing from the manager on its first report may still be opening.
SeenAbsent(c) == ~IsOpen(c)             \* faulty variant
SeenFirst(c)  == closedReports[c] > 0 \/ (fresh[c] /\ ~IsOpen(c))   \* faulty variant
SeenClosed(c) == closedReports[c] > 0 \/ (~fresh[c] /\ ~IsOpen(c))

Closing(c) == IF SeenClosed(c) THEN closedReports[c] + 1 ELSE 0

Changed == {c \in requests : total[c] # reported[c]}

\* A closed request goes once its last report is queued, or was tried enough.
LetsGoAnyway(c, queued) == Closing(c) > 0                          \* faulty variant
NeverGivesUp(c, queued) == Closing(c) > 0 /\ queued                \* faulty variant
LetsGo(c, queued) == Closing(c) > 0 /\ (queued \/ Closing(c) > CloseRetries)

\* A report is queued, dropped by a full queue, or finds nobody listening.
Queued(ok) == Changed = {} \/ (ok /\ listening)

Collect(w) ==
    /\ PromptJoin => \A c \in requests : fresh[c] \/ conn[c] # "opening"
    /\ \E ok \in BOOLEAN :
         LET queued == Queued(ok)
             sent   == IF queued THEN Changed ELSE {}
         IN  /\ requests' = {c \in requests : ~LetsGo(c, queued)}
             /\ reported' = [c \in Conns |-> IF c \notin requests' THEN 0
                                             ELSE IF c \in sent THEN total[c] ELSE reported[c]]
             /\ closedReports' = [c \in Conns |-> IF c \in requests' THEN Closing(c) ELSE 0]
             /\ told' = [c \in Conns |-> IF c \in sent THEN total[c] ELSE told[c]]
    /\ fresh' = [c \in Conns |-> FALSE] /\ heard' = heard
    /\ running' = (requests' # {})
    /\ Goes(w, "collect", IF running' THEN "ticking" ELSE "none")
    /\ UNCHANGED <<traffic, notify, listening>>

---------------------------------------------------------------------------
\* SetEventListener (core/lib.go).
Listen ==
    /\ listening' = ~listening /\ heard' = {}
    /\ UNCHANGED <<traffic, notify, watch, watcher, told>>

Notify(c) == CheckListening(c) \/ Add(c) \/ Start(c) \/ Join(c)
Watch(w)  == TickWatch(w) \/ Clear(w) \/ Collect(w)

TrafficNext ==
    \/ \E c \in Conns : Open(c) \/ Notify(c) \/ Transfer(c) \/ Close(c)
    \/ \E w \in Watchers : Watch(w)
    \/ Listen

\* Goroutines run and the ticker ticks.
TrafficFairness ==
    /\ \A c \in Conns : WF_trafficVars(Notify(c))
    /\ \A w \in Watchers : WF_trafficVars(Watch(w))

TrafficSpec == TrafficInit /\ [][TrafficNext]_trafficVars
TrafficFairSpec == TrafficSpec /\ TrafficFairness

---------------------------------------------------------------------------
\* The fields have the values their declarations allow; a closed request is
\* kept for no more reports than its retries.
TrafficTypeOK ==
    /\ conn \in [Conns -> {"new", "opening", "open", "closed"}]
    /\ total \in [Conns -> 0..MaxTotal]
    /\ notify \in [Conns -> {"none", "check", "add", "start", "done"}]
    /\ listening \in BOOLEAN
    /\ requests \subseteq Conns
    /\ reported \in [Conns -> 0..MaxTotal]
    /\ fresh \in [Conns -> BOOLEAN]
    /\ closedReports \in [Conns -> 0..CloseRetries]
    /\ running \in BOOLEAN
    /\ watcher \in [Watchers -> {"none", "ticking", "clear", "collect"}]
    /\ told \in [Conns -> 0..MaxTotal]
    /\ heard \subseteq Conns

Watching == {w \in Watchers : watcher[w] # "none"}
Starting == {c \in Conns : notify[c] = "start"}

\* While there are requests exactly one goroutine watches them, running or
\* about to: add and collect decide under one lock who starts and who ends.
OneWatcher ==
    /\ requests # {} => running
    /\ IF running THEN Cardinality(Watching) + Cardinality(Starting) = 1
       ELSE Watching \cup Starting = {}

\* A report lets a closed request go only when the host has been told its final
\* total, or the retries are used up: "a closed request holds its connection
\* only this many retries" (request_traffic.go:16).
FinalTotals ==
    [][\A w \in Watchers, c \in Conns :
         /\ Collect(w) /\ c \in requests /\ c \notin requests'
         /\ closedReports[c] < CloseRetries
         => told'[c] = total[c]]_trafficVars

\* A report never lets go of a connection that is open or still opening.
OpenKept ==
    [][\A w \in Watchers, c \in requests :
         Collect(w) /\ c \notin requests' => conn[c] = "closed"]_trafficVars

\* A closed connection is let go of, whatever becomes of the reports.
LetGo == \A c \in Conns : c \in requests /\ conn[c] = "closed" ~> c \notin requests

\* "The request list learns the traffic that follows from these reports"
\* (request_traffic.go:10): an open connection the present listener was told of
\* stays watched.
StaysWatched ==
    [][\A c \in heard \cap requests : conn[c] = "open" /\ listening => c \in requests']_trafficVars
=============================================================================
