-------------------------------- MODULE CoreProofs --------------------------------
(***************************************************************************)
(* Proofs about the parts of the Core that share nothing but its process,  *)
(* each of them with the specification of its module: the traffic reports, *)
(* the calls that bring the Core up and down, and the slots its probes run *)
(* in.                                                                     *)
(***************************************************************************)
EXTENDS RequestTraffic, CoreService, ProbeSlots, Integers, FiniteSetTheorems, TLAPS

(***************************************************************************)
(* RequestTraffic (core/request_traffic.go).                               *)
(***************************************************************************)
LEMMA TrafficTypeInit == TrafficInit => TrafficTypeOK
<1> SUFFICES ASSUME TrafficInit PROVE TrafficTypeOK
    OBVIOUS
<1>1. 0 \in 0..MaxTotal /\ 0 \in 0..CloseRetries
  BY TrafficAssumption
<1> QED BY <1>1 DEF TrafficInit, TrafficTypeOK

LEMMA TrafficTypeNext ==
    TrafficTypeOK /\ [TrafficNext]_trafficVars => TrafficTypeOK'
<1> SUFFICES ASSUME TrafficTypeOK, [TrafficNext]_trafficVars
             PROVE  TrafficTypeOK'
    OBVIOUS
<1> USE TrafficAssumption DEF TrafficTypeOK, traffic, watch,
            history
<1>1. ASSUME NEW c \in Conns, Open(c) PROVE TrafficTypeOK'
  BY <1>1 DEF Open, Step
<1>2. ASSUME NEW c \in Conns, CheckListening(c) PROVE TrafficTypeOK'
  BY <1>2 DEF CheckListening, Step
<1>3. ASSUME NEW c \in Conns, Add(c) PROVE TrafficTypeOK'
  BY <1>3 DEF Add, Step
<1>4. ASSUME NEW c \in Conns, Start(c) PROVE TrafficTypeOK'
  BY <1>4 DEF Start, Step
<1>5. ASSUME NEW c \in Conns, Join(c) \/ Close(c) PROVE TrafficTypeOK'
  BY <1>5 DEF Join, Close
<1>6. ASSUME NEW c \in Conns, Transfer(c) PROVE TrafficTypeOK'
  BY <1>6 DEF Transfer
<1>7. ASSUME NEW w \in Watchers, TickWatch(w) PROVE TrafficTypeOK'
  BY <1>7 DEF TickWatch, Goes
<1>8. ASSUME NEW w \in Watchers, Clear(w) PROVE TrafficTypeOK'
  <2>1. requests' = {} /\ running' = FALSE /\ watcher' = [watcher EXCEPT ![w] = "none"]
    BY <1>8 DEF Clear, Goes
  <2>2. /\ fresh' = [c \in Conns |-> FALSE] /\ closedReports' = [c \in Conns |-> 0]
        /\ reported' = [c \in Conns |-> 0]
    BY <1>8, <2>1 DEF Clear, Forget
  <2>3. 0 \in 0..MaxTotal /\ 0 \in 0..CloseRetries
    OBVIOUS
  <2>4. UNCHANGED <<conn, total, notify, listening, told, heard>>
    BY <1>8 DEF Clear
  <2> QED BY <2>1, <2>2, <2>3, <2>4
<1>9. ASSUME NEW w \in Watchers, Collect(w) PROVE TrafficTypeOK'
  <2>1. /\ watcher' \in [Watchers -> {"none", "ticking", "clear", "collect"}]
        /\ UNCHANGED <<conn, total, notify, listening, heard>>
        /\ fresh' \in [Conns -> BOOLEAN] /\ running' \in BOOLEAN
    BY <1>9 DEF Collect, Goes
  <2>2. PICK ok \in BOOLEAN :
           LET queued == Queued(ok)
               sent   == IF queued THEN Changed ELSE {}
           IN  /\ requests' = {c \in requests : ~LetsGo(c, queued)}
               /\ reported' = [c \in Conns |-> IF c \notin requests' THEN 0
                                               ELSE IF c \in sent THEN total[c] ELSE reported[c]]
               /\ closedReports' = [c \in Conns |-> IF c \in requests' THEN Closing(c) ELSE 0]
               /\ told' = [c \in Conns |-> IF c \in sent THEN total[c] ELSE told[c]]
    BY <1>9 DEF Collect
  <2>3. 0 \in 0..MaxTotal /\ 0 \in 0..CloseRetries
    OBVIOUS
  <2>4. requests' \subseteq Conns BY <2>2
  <2>5. reported' \in [Conns -> 0..MaxTotal] BY <2>2, <2>3
  <2>6. told' \in [Conns -> 0..MaxTotal] BY <2>2
  <2>7. ASSUME NEW c \in requests' PROVE Closing(c) \in 0..CloseRetries
    <3>1. c \in Conns /\ ~LetsGo(c, Queued(ok)) BY <2>2, <2>4, <2>7
    <3>2. Closing(c) \in Nat BY <3>1 DEF Closing
    <3> QED BY <3>1, <3>2 DEF LetsGo
  <2>8. closedReports' \in [Conns -> 0..CloseRetries] BY <2>2, <2>3, <2>7
  <2> QED BY <2>1, <2>4, <2>5, <2>6, <2>8
<1>10. CASE Listen BY <1>10 DEF Listen
<1>11. CASE UNCHANGED trafficVars BY <1>11 DEF trafficVars
<1> QED BY <1>1, <1>2, <1>3, <1>4, <1>5, <1>6, <1>7, <1>8, <1>9, <1>10, <1>11
        DEF TrafficNext, Notify, Watch

\* OneWatcher without counting: the one that watches is a goroutine that runs,
\* or the connection whose add starts it.
WatcherInv ==
    /\ requests # {} => running
    /\ running => \/ \E w \in Watchers : Watching = {w} /\ Starting = {}
                  \/ \E c \in Conns : Watching = {} /\ Starting = {c}
    /\ ~running => Watching = {} /\ Starting = {}

LEMMA WatcherInit == TrafficInit => WatcherInv
BY DEF TrafficInit, WatcherInv, Watching, Starting

LEMMA WatcherNext ==
    TrafficTypeOK /\ WatcherInv /\ [TrafficNext]_trafficVars => WatcherInv'
<1> SUFFICES ASSUME TrafficTypeOK, WatcherInv, [TrafficNext]_trafficVars PROVE WatcherInv'
    OBVIOUS
<1> USE DEF watch, history
<1>t. /\ notify \in [Conns -> {"none", "check", "add", "start", "done"}]
      /\ watcher \in [Watchers -> {"none", "ticking", "clear", "collect"}]
      /\ requests \subseteq Conns /\ running \in BOOLEAN
  BY DEF TrafficTypeOK
<1>k. ASSUME UNCHANGED <<requests, running>>, Watching' = Watching,
             Starting' = Starting
      PROVE  WatcherInv'
  BY <1>k DEF WatcherInv
<1>a. UNCHANGED watcher => Watching' = Watching BY DEF Watching
<1>s. UNCHANGED notify => Starting' = Starting BY DEF Starting
<1>1. ASSUME NEW c \in Conns, NEW to \in {"none", "check", "add", "done"},
             notify[c] # "start", notify' = [notify EXCEPT ![c] = to],
             UNCHANGED <<requests, running, watcher>>
      PROVE  WatcherInv'
  <2>1. Starting' = Starting BY <1>1, <1>t DEF Starting
  <2> QED BY <1>1, <1>a, <1>k, <2>1
<1>2. ASSUME NEW c \in Conns, Open(c) \/ CheckListening(c) PROVE WatcherInv'
  BY <1>1, <1>2 DEF Open, CheckListening, Step
<1>3. ASSUME NEW c \in Conns, Add(c) PROVE WatcherInv'
  <2>1. Watching' = Watching /\ running' = TRUE
    BY <1>3, <1>a DEF Add
  <2>2. CASE running
    <3>1. Starting' = Starting
      BY <1>3, <1>t, <2>2 DEF Add, Step, StartsWatch, Starting
    <3> QED BY <2>1, <2>2, <3>1 DEF WatcherInv
  <2>3. CASE ~running
    <3>1. Starting' = Starting \cup {c}
      BY <1>3, <1>t, <2>3 DEF Add, Step, StartsWatch, Starting
    <3> QED BY <2>1, <2>3, <3>1 DEF WatcherInv
  <2> QED BY <2>2, <2>3
<1>4. ASSUME NEW c \in Conns, Start(c) PROVE WatcherInv'
  <2>1. PICK w \in Watchers : /\ watcher[w] = "none"
                              /\ watcher' = [watcher EXCEPT ![w] = "ticking"]
    BY <1>4 DEF Start
  <2>2. Watching' = Watching \cup {w}
    BY <1>t, <2>1 DEF Watching
  <2>3. /\ c \in Starting /\ Starting' = Starting \ {c}
        /\ UNCHANGED <<requests, running>>
    BY <1>4, <1>t DEF Start, Step, Starting
  <2>4. running /\ Watching = {} /\ Starting = {c}
    BY <2>3 DEF WatcherInv
  <2>5. Watching' = {w} /\ Starting' = {}
    BY <2>2, <2>3, <2>4
  <2> QED BY <2>3, <2>4, <2>5 DEF WatcherInv
<1>5. ASSUME NEW c \in Conns, Join(c) \/ Transfer(c) \/ Close(c)
      PROVE  WatcherInv'
  BY <1>5, <1>a, <1>k, <1>s DEF Join, Transfer, Close
<1>6. ASSUME NEW w \in Watchers, watcher[w] # "none", NEW to \in {"ticking", "clear", "collect"},
             watcher' = [watcher EXCEPT ![w] = to], UNCHANGED notify
      PROVE  Watching' = Watching /\ Starting' = Starting
  BY <1>6, <1>s, <1>t DEF Watching
\* The last request of the last goroutine goes, and the goroutine with it.
<1>7. ASSUME NEW w \in Watchers, watcher[w] # "none", watcher' = [watcher EXCEPT ![w] = "none"],
             UNCHANGED notify, requests' = {}, running' = FALSE
      PROVE  WatcherInv'
  <2>1. w \in Watching /\ Watching' = Watching \ {w}
    BY <1>7, <1>t DEF Watching
  <2>2. Watching = {w} /\ Starting = {}
    BY <1>t, <2>1 DEF WatcherInv
  <2>3. Watching' = {} /\ Starting' = {}
    BY <1>7, <1>s, <2>1, <2>2
  <2> QED BY <1>7, <2>3 DEF WatcherInv
<1>8. ASSUME NEW w \in Watchers, TickWatch(w) PROVE WatcherInv'
  BY <1>6, <1>8, <1>k DEF TickWatch, Goes
<1>9. ASSUME NEW w \in Watchers, Clear(w) PROVE WatcherInv'
  BY <1>7, <1>9 DEF Clear, Goes
<1>10. ASSUME NEW w \in Watchers, Collect(w) PROVE WatcherInv'
  <2>1. /\ watcher[w] # "none" /\ UNCHANGED notify
        /\ running' = (requests' # {})
        /\ watcher' = [watcher EXCEPT ![w] = IF running' THEN "ticking" ELSE "none"]
    BY <1>10 DEF Collect, Goes
  <2>2. CASE requests' # {}
    <3>1. Watching' = Watching /\ Starting' = Starting /\ running'
      BY <1>6, <2>1, <2>2
    <3>2. running BY <1>t, <2>1 DEF WatcherInv, Watching
    <3> QED BY <3>1, <3>2 DEF WatcherInv
  <2>3. CASE requests' = {}
    BY <1>7, <2>1, <2>3
  <2> QED BY <2>2, <2>3
<1>11. CASE Listen
  BY <1>11, <1>a, <1>k, <1>s DEF Listen
<1>12. CASE UNCHANGED trafficVars
  BY <1>12, <1>a, <1>k, <1>s DEF trafficVars
<1> QED BY <1>2, <1>3, <1>4, <1>5, <1>8, <1>9, <1>10, <1>11, <1>12
        DEF TrafficNext, Notify, Watch

\* add, collect, clear: while there are requests exactly one goroutine watches
\* them, running or about to.
THEOREM OneWatcherHolds == TrafficSpec => []OneWatcher
<1>1. ASSUME TrafficTypeOK, WatcherInv PROVE OneWatcher
  <2>1. /\ Cardinality({}) = 0
        /\ \A w \in Watchers : Cardinality({w}) = 1
        /\ \A c \in Conns : Cardinality({c}) = 1
    BY FS_EmptySet, FS_Singleton
  <2>2. CASE running
    <3>1. Cardinality(Watching) + Cardinality(Starting) = 1
      <4>1. ASSUME NEW w \in Watchers, Watching = {w}, Starting = {}
            PROVE  Cardinality(Watching) = 1 /\ Cardinality(Starting) = 0
        BY <2>1, <4>1
      <4>2. ASSUME NEW c \in Conns, Watching = {}, Starting = {c}
            PROVE  Cardinality(Watching) = 0 /\ Cardinality(Starting) = 1
        BY <2>1, <4>2
      <4> QED BY <1>1, <2>2, <4>1, <4>2 DEF WatcherInv
    <3>2. requests # {} => running BY <1>1 DEF WatcherInv
    <3> QED BY <2>2, <3>1, <3>2 DEF OneWatcher
  <2>3. CASE ~running BY <1>1, <2>3 DEF WatcherInv, OneWatcher
  <2> QED BY <2>2, <2>3
<1>2. TrafficInit => TrafficTypeOK /\ WatcherInv
  BY TrafficTypeInit, WatcherInit
<1>3. TrafficTypeOK /\ WatcherInv /\ [TrafficNext]_trafficVars => (TrafficTypeOK /\ WatcherInv)'
  BY TrafficTypeNext, WatcherNext
<1> QED BY <1>1, <1>2, <1>3, PTL DEF TrafficSpec

\* What a report goes by: a request's connection was announced, what the host
\* was told of it is what is noted, and only a closed one is being let go of.
ReportInv ==
    /\ \A c \in Conns : conn[c] = "new" => notify[c] = "none" /\ c \notin requests
    /\ \A c \in requests : told[c] = reported[c]

ClosedInv == \A c \in Conns : closedReports[c] > 0 => conn[c] = "closed"

LEMMA ReportInit == TrafficInit => ReportInv /\ ClosedInv
BY DEF TrafficInit, ReportInv, ClosedInv

LEMMA ReportNext ==
    TrafficTypeOK /\ ReportInv /\ [TrafficNext]_trafficVars => ReportInv'
<1> SUFFICES ASSUME TrafficTypeOK, ReportInv, [TrafficNext]_trafficVars PROVE ReportInv'
    OBVIOUS
<1> USE DEF traffic, watch, history, ReportInv
<1>t. /\ notify \in [Conns -> {"none", "check", "add", "start", "done"}]
      /\ conn \in [Conns -> {"new", "opening", "open", "closed"}]
      /\ requests \subseteq Conns
      /\ told \in [Conns -> 0..MaxTotal] /\ reported \in [Conns -> 0..MaxTotal]
  BY DEF TrafficTypeOK
<1>1. ASSUME NEW c \in Conns, Open(c) PROVE ReportInv'
  BY <1>1, <1>t DEF Open, Step
<1>2. ASSUME NEW c \in Conns, CheckListening(c) \/ Start(c) PROVE ReportInv'
  BY <1>2, <1>t DEF CheckListening, Start, Step
<1>3. ASSUME NEW c \in Conns, Add(c) PROVE ReportInv'
  BY <1>3, <1>t DEF Add, Step
<1>4. ASSUME NEW c \in Conns, Join(c) \/ Transfer(c) \/ Close(c)
      PROVE  ReportInv'
  BY <1>4, <1>t DEF Join, Transfer, Close
<1>5. ASSUME NEW w \in Watchers, TickWatch(w) \/ Clear(w) PROVE ReportInv'
  BY <1>5, <1>t DEF TickWatch, Clear
<1>6. ASSUME NEW w \in Watchers, Collect(w) PROVE ReportInv'
  <2>1. PICK ok \in BOOLEAN :
           LET queued == Queued(ok)
               sent   == IF queued THEN Changed ELSE {}
           IN  /\ requests' = {c \in requests : ~LetsGo(c, queued)}
               /\ reported' = [c \in Conns |-> IF c \notin requests' THEN 0
                                               ELSE IF c \in sent THEN total[c] ELSE reported[c]]
               /\ told' = [c \in Conns |-> IF c \in sent THEN total[c] ELSE told[c]]
    BY <1>6 DEF Collect
  <2>2. requests' \subseteq requests /\ UNCHANGED <<conn, notify>>
    BY <1>6, <2>1 DEF Collect
  <2>3. \A c \in requests' : told'[c] = reported'[c]
    BY <1>t, <2>1, <2>2
  <2> QED BY <2>2, <2>3
<1>7. CASE Listen \/ UNCHANGED trafficVars
  BY <1>7 DEF Listen, trafficVars
<1> QED BY <1>1, <1>2, <1>3, <1>4, <1>5, <1>6, <1>7
        DEF TrafficNext, Notify, Watch

\* With a prompt manager a request that is not on its first report and is not
\* open has closed.
LEMMA ClosingIsClosed ==
    ASSUME PromptJoin, TrafficTypeOK, ReportInv, ClosedInv,
           NEW w \in Watchers, Collect(w), NEW c \in requests, Closing(c) > 0
    PROVE  conn[c] = "closed"
<1>1. /\ c \in Conns /\ conn[c] \in {"new", "opening", "open", "closed"}
      /\ fresh[c] \/ conn[c] # "opening"
      /\ conn[c] # "new"
  BY DEF TrafficTypeOK, Collect, ReportInv
<1>2. SeenClosed(c) BY DEF Closing
<1> QED BY <1>1, <1>2 DEF SeenClosed, IsOpen, ClosedInv

LEMMA ClosedNext ==
    PromptJoin /\ TrafficTypeOK /\ ReportInv /\ ClosedInv /\ [TrafficNext]_trafficVars
    => ClosedInv'
<1> SUFFICES ASSUME PromptJoin, TrafficTypeOK, ReportInv, ClosedInv,
                    [TrafficNext]_trafficVars
             PROVE  ClosedInv'
    OBVIOUS
<1> USE DEF traffic, watch, history
<1>t. /\ conn \in [Conns -> {"new", "opening", "open", "closed"}]
      /\ closedReports \in [Conns -> 0..CloseRetries]
      /\ requests \subseteq Conns
  BY DEF TrafficTypeOK
<1>1. ASSUME NEW c \in Conns, Open(c) \/ Join(c) \/ Close(c)
      PROVE  ClosedInv'
  <2>1. /\ conn[c] # "closed" /\ UNCHANGED closedReports
        /\ \A d \in Conns \ {c} : conn'[d] = conn[d]
    BY <1>1, <1>t DEF Open, Join, Close
  <2> QED BY <2>1 DEF ClosedInv
<1>2. ASSUME NEW c \in Conns, CheckListening(c) \/ Start(c) \/ Transfer(c)
      PROVE  ClosedInv'
  BY <1>2 DEF CheckListening, Start, Transfer, ClosedInv
<1>3. ASSUME NEW c \in Conns, Add(c) PROVE ClosedInv'
  BY <1>3, <1>t DEF Add, ClosedInv
<1>4. ASSUME NEW w \in Watchers, TickWatch(w) PROVE ClosedInv'
  BY <1>4 DEF TickWatch, ClosedInv
<1>5. ASSUME NEW w \in Watchers, Clear(w) PROVE ClosedInv'
  <2>1. closedReports' = [c \in Conns |-> 0]
    BY <1>5 DEF Clear, Forget
  <2> QED BY <2>1 DEF ClosedInv
<1>6. ASSUME NEW w \in Watchers, Collect(w) PROVE ClosedInv'
  <2>1. /\ closedReports' = [c \in Conns |-> IF c \in requests' THEN Closing(c) ELSE 0]
        /\ requests' \subseteq requests /\ UNCHANGED conn
    BY <1>6 DEF Collect
  <2>2. \A c \in requests : Closing(c) > 0 => conn[c] = "closed"
    BY <1>6, ClosingIsClosed
  <2> QED BY <2>1, <2>2 DEF ClosedInv
<1>7. CASE Listen \/ UNCHANGED trafficVars
  BY <1>7 DEF Listen, trafficVars, ClosedInv
<1> QED BY <1>1, <1>2, <1>3, <1>4, <1>5, <1>6, <1>7
        DEF TrafficNext, Notify, Watch

\* collect: a report never lets go of a connection that is open or still
\* opening, as long as mihomo stores one within the interval of a report.
THEOREM OpenKeptHolds ==
    PromptJoin => (TrafficSpec => OpenKept)
<1> SUFFICES ASSUME PromptJoin PROVE TrafficSpec => OpenKept
    OBVIOUS
<1> DEFINE Kept == \A w \in Watchers, c \in requests :
                       Collect(w) /\ c \notin requests' => conn[c] = "closed"
           Inv == TrafficTypeOK /\ ReportInv /\ ClosedInv
<1>1. ASSUME Inv PROVE Kept
  <2> SUFFICES ASSUME NEW w \in Watchers, NEW c \in requests, Collect(w), c \notin requests'
               PROVE  conn[c] = "closed"
      OBVIOUS
  <2>1. Closing(c) > 0
    BY DEF Collect, LetsGo
  <2> QED BY <1>1, <2>1, ClosingIsClosed
<1>2. TrafficInit => Inv BY TrafficTypeInit, ReportInit
<1>3. Inv /\ [TrafficNext]_trafficVars => Inv'
  BY TrafficTypeNext, ReportNext, ClosedNext
<1>4. Inv => [Kept]_(trafficVars) BY <1>1
<1> HIDE DEF Kept, Inv
<1>5. TrafficSpec => [][Kept]_(trafficVars)
  BY <1>2, <1>3, <1>4, PTL DEF TrafficSpec
<1> QED BY <1>5 DEF OpenKept, Kept

\* collect: a report lets a closed request go only when the host has been told
\* its final total, or the retries are used up.
THEOREM FinalTotalsHolds == TrafficSpec => FinalTotals
<1> DEFINE Final == \A w \in Watchers, c \in Conns :
                        /\ Collect(w) /\ c \in requests /\ c \notin requests'
                        /\ closedReports[c] < CloseRetries
                        => told'[c] = total[c]
           Inv == TrafficTypeOK /\ ReportInv
<1>1. ASSUME Inv PROVE Final
  <2> SUFFICES ASSUME NEW w \in Watchers, NEW c \in Conns, Collect(w), c \in requests,
                      c \notin requests', closedReports[c] < CloseRetries
               PROVE  told'[c] = total[c]
      OBVIOUS
  <2>1. PICK ok \in BOOLEAN :
           LET queued == Queued(ok)
               sent   == IF queued THEN Changed ELSE {}
           IN  /\ requests' = {d \in requests : ~LetsGo(d, queued)}
               /\ told' = [d \in Conns |-> IF d \in sent THEN total[d] ELSE told[d]]
    BY DEF Collect
  <2>2. closedReports[c] \in Nat /\ CloseRetries \in Nat
    BY <1>1, TrafficAssumption DEF TrafficTypeOK
  <2>3. Closing(c) <= CloseRetries
    BY <2>2 DEF Closing
  <2>4. Queued(ok)
    BY <2>1, <2>2, <2>3 DEF LetsGo, Closing
  <2>5. c \in Changed \/ told[c] = total[c]
    BY <1>1 DEF ReportInv, Changed
  <2> QED BY <2>1, <2>4, <2>5
<1>2. TrafficInit => Inv BY TrafficTypeInit, ReportInit
<1>3. Inv /\ [TrafficNext]_trafficVars => Inv'
  BY TrafficTypeNext, ReportNext
<1>4. Inv => [Final]_(trafficVars) BY <1>1
<1> HIDE DEF Final, Inv
<1>5. TrafficSpec => [][Final]_(trafficVars)
  BY <1>2, <1>3, <1>4, PTL DEF TrafficSpec
<1> QED BY <1>5 DEF FinalTotals, Final

(***************************************************************************)
(* CoreService (core/config.go, core/lifecycle.go, core/lib.go).           *)
(***************************************************************************)
Locked == {"startBump", "stopClose", "applyBump", "applyListen", "updateListen", "switchListen",
           "switchBump", "shutdownClose"}

Places == Locked \cup {"idle", "init", "setup", "update", "start", "stop", "startTun", "stopTun",
                      "ifStopped", "ifRunning", "quickInit", "quickRun", "apply", "tunUp",
                      "shutdown", "freeMemory"}

\* What is where: the holder of configMu is where it is held, and a QuickSetup
\* is on its way, on Android only, where the process is not cleaned up.
ServiceTypeInv ==
    /\ android \in BOOLEAN
    /\ pc \in [Threads \cup {Main} -> Places]
    /\ configMu \in Threads \cup {Main, Nothing}
    /\ isInit \in BOOLEAN /\ isRunning \in BOOLEAN
    /\ config \in Settings \cup {Nothing}
    /\ probe \in {"none", "current", "passed", "old", "dropped"}
    /\ live \in [port : Ports \cup {Nothing}, access : BOOLEAN]
    /\ pc[Main] \in {"idle", "shutdown", "shutdownClose", "freeMemory"}
    /\ android => pc[Main] = "idle"

HolderInv == \A t \in Threads \cup {Main} : configMu = t <=> pc[t] \in Locked

QuickInv ==
    /\ quick \subseteq Threads
    /\ \A t \in quick : /\ android
                        /\ pc[t] \in {"quickInit", "quickRun", "setup", "apply", "applyBump", "applyListen"}
                        /\ pc[t] # "quickInit" => isInit
    /\ \A t \in Threads : pc[t] \in {"quickInit", "quickRun"} => t \in quick

\* Where the listeners are open: never without a config, nor without a run
\* once what ended it closed them, and always for a run and a config that
\* nobody is changing.
LiveInv ==
    /\ config # Nothing => live.access = config.access
    /\ config = Nothing => live.port = Nothing
    /\ ~isRunning => \/ live.port = Nothing
                     \/ \E t \in Threads \cup {Main} : pc[t] \in {"stopClose", "shutdownClose"}
    /\ \A t \in Threads : pc[t] = "stopClose" /\ ~QuickPending => ~isRunning
    /\ pc[Main] = "shutdownClose" => ~isRunning
    /\ isRunning /\ config # Nothing /\ ~QuickPending =>
           \/ live.port = config.port
           \/ \E t \in Threads : pc[t] \in {"applyBump", "applyListen", "updateListen", "switchListen"}

LEMMA ServiceInvInit ==
    ServiceInit => ServiceTypeInv /\ HolderInv /\ QuickInv /\ LiveInv
<1> SUFFICES ASSUME ServiceInit
             PROVE  ServiceTypeInv /\ HolderInv /\ QuickInv /\ LiveInv
    OBVIOUS
<1> USE ServiceAssumption DEF ServiceInit
<1>1. ServiceTypeInv BY DEF ServiceTypeInv, Places
<1>2. HolderInv BY DEF HolderInv, Locked
<1>3. QuickInv BY DEF QuickInv
<1>4. LiveInv BY DEF LiveInv
<1> QED BY <1>1, <1>2, <1>3, <1>4

LEMMA ServiceTypeNext ==
    ServiceTypeInv /\ [ServiceNext]_serviceVars => ServiceTypeInv'
<1> SUFFICES ASSUME ServiceTypeInv,
                    [ServiceNext]_serviceVars
             PROVE  ServiceTypeInv'
    OBVIOUS
<1> USE ServiceAssumption DEF ServiceTypeInv, Places, Locked,
            Moves, EndsQuick, Inner, Outer, core, flags, Settings
<1>1. ASSUME NEW t \in Threads, NEW c \in ServiceCalls, Call(t, c) PROVE ServiceTypeInv'
  BY <1>1 DEF Call, ServiceCalls
<1>2. ASSUME NEW t \in Threads, InitClash(t) PROVE ServiceTypeInv'
  BY <1>2 DEF InitClash
<1>3. ASSUME NEW t \in Threads, StartListener(t) PROVE ServiceTypeInv'
  BY <1>3 DEF StartListener, Lock, Outdate, Listens
<1>4. ASSUME NEW t \in Threads, StartListenerBump(t) PROVE ServiceTypeInv'
  BY <1>4 DEF StartListenerBump, Unlock, StartBump, Bump
<1>5. ASSUME NEW t \in Threads, StopListener(t) PROVE ServiceTypeInv'
  BY <1>5 DEF StopListener, Lock, StopRunning
<1>6. ASSUME NEW t \in Threads, StopListenerClose(t) PROVE ServiceTypeInv'
  BY <1>6 DEF StopListenerClose, Unlock
<1>7. ASSUME NEW t \in Threads, Setup(t) PROVE ServiceTypeInv'
  BY <1>7 DEF Setup
<1>8. ASSUME NEW t \in Threads, NEW s \in Loaded, Apply(t, s) PROVE ServiceTypeInv'
  BY <1>8 DEF Apply, Lock, Loaded, Settings, Outdate
<1>9. ASSUME NEW t \in Threads, ApplyBump(t) PROVE ServiceTypeInv'
  BY <1>9 DEF ApplyBump, Keep, Bump
<1>10. ASSUME NEW t \in Threads, ApplyListen(t) PROVE ServiceTypeInv'
  BY <1>10 DEF ApplyListen, Unlock, Listens, Passes
<1>11. ASSUME NEW t \in Threads, NEW s \in Settings, NEW ipv6 \in BOOLEAN,
              Update(t, s, ipv6)
       PROVE  ServiceTypeInv'
  BY <1>11 DEF Update, Lock, Refused, Patched, Settings, Outdate
<1>12. ASSUME NEW t \in Threads, UpdateListen(t) PROVE ServiceTypeInv'
  BY <1>12 DEF UpdateListen, Unlock, Keep, Listens, Passes
<1>26. ASSUME NEW t \in Threads, UpdateBump(t) PROVE ServiceTypeInv'
  BY <1>26 DEF UpdateBump, Unlock, Bump
<1>13. ASSUME NEW t \in Threads, QuickRun(t) PROVE ServiceTypeInv'
  BY <1>13 DEF QuickRun
<1>14. ASSUME NEW t \in Threads, IfStopped(t) PROVE ServiceTypeInv'
  BY <1>14 DEF IfStopped
<1>15. ASSUME NEW t \in Threads, IfRunning(t) PROVE ServiceTypeInv'
  BY <1>15 DEF IfRunning
<1>16. ASSUME NEW t \in Threads, NEW opened \in BOOLEAN, StartTun(t, opened) PROVE ServiceTypeInv'
  BY <1>16 DEF StartTun, Outdate
<1>17. ASSUME NEW t \in Threads, TunUp(t) PROVE ServiceTypeInv'
  BY <1>17 DEF TunUp, Bump
<1>18. ASSUME NEW t \in Threads, StopTun(t) PROVE ServiceTypeInv'
  BY <1>18 DEF StopTun
<1>19. CASE End
  BY <1>19 DEF End
<1>20. CASE Shutdown
  BY <1>20 DEF Shutdown, Lock
<1>21. CASE ShutdownClose
  BY <1>21 DEF ShutdownClose, Unlock
<1>22. CASE ProcessOver
  BY <1>22 DEF ProcessOver
<1>23. CASE OverLate
  BY <1>23 DEF OverLate
<1>24. CASE SendProbe
  BY <1>24 DEF SendProbe
<1>25. CASE UNCHANGED serviceVars
  BY <1>25 DEF serviceVars
<1> QED BY <1>1, <1>2, <1>3, <1>4, <1>5, <1>6, <1>7, <1>8, <1>9, <1>10, <1>11, <1>12, <1>13,
           <1>14, <1>15, <1>16, <1>17, <1>18, <1>19, <1>20, <1>21, <1>22, <1>23, <1>24, <1>25, <1>26
        DEF ServiceNext, Steps, Cleanup

LEMMA HolderNext ==
    ServiceTypeInv /\ HolderInv /\ [ServiceNext]_serviceVars => HolderInv'
<1> SUFFICES ASSUME ServiceTypeInv, HolderInv,
                    [ServiceNext]_serviceVars
             PROVE  HolderInv'
    OBVIOUS
<1> USE ServiceAssumption DEF ServiceTypeInv, HolderInv, Locked,
            Moves, EndsQuick, Inner, Outer, core, flags
<1>1. ASSUME NEW t \in Threads, NEW c \in ServiceCalls, Call(t, c) PROVE HolderInv'
  BY <1>1 DEF Call, ServiceCalls
<1>2. ASSUME NEW t \in Threads, InitClash(t) PROVE HolderInv'
  BY <1>2 DEF InitClash
<1>3. ASSUME NEW t \in Threads, StartListener(t) PROVE HolderInv'
  BY <1>3 DEF StartListener, Lock, Outdate, Listens
<1>4. ASSUME NEW t \in Threads, StartListenerBump(t) PROVE HolderInv'
  BY <1>4 DEF StartListenerBump, Unlock, StartBump, Bump
<1>5. ASSUME NEW t \in Threads, StopListener(t) PROVE HolderInv'
  BY <1>5 DEF StopListener, Lock, StopRunning
<1>6. ASSUME NEW t \in Threads, StopListenerClose(t) PROVE HolderInv'
  BY <1>6 DEF StopListenerClose, Unlock
<1>7. ASSUME NEW t \in Threads, Setup(t) PROVE HolderInv'
  BY <1>7 DEF Setup
<1>8. ASSUME NEW t \in Threads, NEW s \in Loaded, Apply(t, s) PROVE HolderInv'
  BY <1>8 DEF Apply, Lock, Loaded, Settings, Outdate
<1>9. ASSUME NEW t \in Threads, ApplyBump(t) PROVE HolderInv'
  BY <1>9 DEF ApplyBump, Keep, Bump
<1>10. ASSUME NEW t \in Threads, ApplyListen(t) PROVE HolderInv'
  BY <1>10 DEF ApplyListen, Unlock, Listens, Passes
<1>11. ASSUME NEW t \in Threads, NEW s \in Settings, NEW ipv6 \in BOOLEAN,
              Update(t, s, ipv6)
       PROVE  HolderInv'
  BY <1>11 DEF Update, Lock, Refused, Patched, Settings, Outdate
<1>12. ASSUME NEW t \in Threads, UpdateListen(t) PROVE HolderInv'
  BY <1>12 DEF UpdateListen, Unlock, Keep, Listens, Passes
<1>26. ASSUME NEW t \in Threads, UpdateBump(t) PROVE HolderInv'
  BY <1>26 DEF UpdateBump, Unlock, Bump
<1>13. ASSUME NEW t \in Threads, QuickRun(t) PROVE HolderInv'
  BY <1>13 DEF QuickRun
<1>14. ASSUME NEW t \in Threads, IfStopped(t) PROVE HolderInv'
  BY <1>14 DEF IfStopped
<1>15. ASSUME NEW t \in Threads, IfRunning(t) PROVE HolderInv'
  BY <1>15 DEF IfRunning
<1>16. ASSUME NEW t \in Threads, NEW opened \in BOOLEAN, StartTun(t, opened) PROVE HolderInv'
  BY <1>16 DEF StartTun, Outdate
<1>17. ASSUME NEW t \in Threads, TunUp(t) PROVE HolderInv'
  BY <1>17 DEF TunUp, Bump
<1>18. ASSUME NEW t \in Threads, StopTun(t) PROVE HolderInv'
  BY <1>18 DEF StopTun
<1>19. CASE End
  BY <1>19 DEF End
<1>20. CASE Shutdown
  BY <1>20 DEF Shutdown, Lock
<1>21. CASE ShutdownClose
  BY <1>21 DEF ShutdownClose, Unlock
<1>22. CASE ProcessOver
  BY <1>22 DEF ProcessOver
<1>23. CASE OverLate
  BY <1>23 DEF OverLate
<1>24. CASE SendProbe
  BY <1>24 DEF SendProbe
<1>25. CASE UNCHANGED serviceVars
  BY <1>25 DEF serviceVars
<1> QED BY <1>1, <1>2, <1>3, <1>4, <1>5, <1>6, <1>7, <1>8, <1>9, <1>10, <1>11, <1>12, <1>13,
           <1>14, <1>15, <1>16, <1>17, <1>18, <1>19, <1>20, <1>21, <1>22, <1>23, <1>24, <1>25, <1>26
        DEF ServiceNext, Steps, Cleanup

LEMMA QuickNext ==
    ServiceTypeInv /\ QuickInv /\ [ServiceNext]_serviceVars => QuickInv'
<1> SUFFICES ASSUME ServiceTypeInv, QuickInv,
                    [ServiceNext]_serviceVars
             PROVE  QuickInv'
    OBVIOUS
<1> USE ServiceAssumption DEF ServiceTypeInv, QuickInv,
            Moves, EndsQuick, Inner, Outer, core, flags
<1>1. ASSUME NEW t \in Threads, NEW c \in ServiceCalls, Call(t, c) PROVE QuickInv'
  BY <1>1 DEF Call, ServiceCalls
<1>2. ASSUME NEW t \in Threads, InitClash(t) PROVE QuickInv'
  BY <1>2 DEF InitClash
<1>3. ASSUME NEW t \in Threads, StartListener(t) PROVE QuickInv'
  BY <1>3 DEF StartListener, Lock, Outdate, Listens
<1>4. ASSUME NEW t \in Threads, StartListenerBump(t) PROVE QuickInv'
  BY <1>4 DEF StartListenerBump, Unlock, StartBump, Bump
<1>5. ASSUME NEW t \in Threads, StopListener(t) PROVE QuickInv'
  BY <1>5 DEF StopListener, Lock, StopRunning
<1>6. ASSUME NEW t \in Threads, StopListenerClose(t) PROVE QuickInv'
  BY <1>6 DEF StopListenerClose, Unlock
<1>7. ASSUME NEW t \in Threads, Setup(t) PROVE QuickInv'
  BY <1>7 DEF Setup
<1>8. ASSUME NEW t \in Threads, NEW s \in Loaded, Apply(t, s) PROVE QuickInv'
  BY <1>8 DEF Apply, Lock, Loaded, Settings, Outdate
<1>9. ASSUME NEW t \in Threads, ApplyBump(t) PROVE QuickInv'
  BY <1>9 DEF ApplyBump, Keep, Bump
<1>10. ASSUME NEW t \in Threads, ApplyListen(t) PROVE QuickInv'
  BY <1>10 DEF ApplyListen, Unlock, Listens, Passes
<1>11. ASSUME NEW t \in Threads, NEW s \in Settings, NEW ipv6 \in BOOLEAN,
              Update(t, s, ipv6)
       PROVE  QuickInv'
  BY <1>11 DEF Update, Lock, Refused, Patched, Settings, Outdate
<1>12. ASSUME NEW t \in Threads, UpdateListen(t) PROVE QuickInv'
  BY <1>12 DEF UpdateListen, Unlock, Keep, Listens, Passes
<1>26. ASSUME NEW t \in Threads, UpdateBump(t) PROVE QuickInv'
  BY <1>26 DEF UpdateBump, Unlock, Bump
<1>13. ASSUME NEW t \in Threads, QuickRun(t) PROVE QuickInv'
  BY <1>13 DEF QuickRun
<1>14. ASSUME NEW t \in Threads, IfStopped(t) PROVE QuickInv'
  BY <1>14 DEF IfStopped
<1>15. ASSUME NEW t \in Threads, IfRunning(t) PROVE QuickInv'
  BY <1>15 DEF IfRunning
<1>16. ASSUME NEW t \in Threads, NEW opened \in BOOLEAN, StartTun(t, opened) PROVE QuickInv'
  BY <1>16 DEF StartTun, Outdate
<1>17. ASSUME NEW t \in Threads, TunUp(t) PROVE QuickInv'
  BY <1>17 DEF TunUp, Bump
<1>18. ASSUME NEW t \in Threads, StopTun(t) PROVE QuickInv'
  BY <1>18 DEF StopTun
<1>19. CASE End
  BY <1>19 DEF End
<1>20. CASE Shutdown
  BY <1>20 DEF Shutdown, Lock
<1>21. CASE ShutdownClose
  BY <1>21 DEF ShutdownClose, Unlock
<1>22. CASE ProcessOver
  BY <1>22 DEF ProcessOver
<1>23. CASE OverLate
  BY <1>23 DEF OverLate
<1>24. CASE SendProbe
  BY <1>24 DEF SendProbe
<1>25. CASE UNCHANGED serviceVars
  BY <1>25 DEF serviceVars
<1> QED BY <1>1, <1>2, <1>3, <1>4, <1>5, <1>6, <1>7, <1>8, <1>9, <1>10, <1>11, <1>12, <1>13,
           <1>14, <1>15, <1>16, <1>17, <1>18, <1>19, <1>20, <1>21, <1>22, <1>23, <1>24, <1>25, <1>26
        DEF ServiceNext, Steps, Cleanup

LEMMA LiveNext ==
    ServiceTypeInv /\ HolderInv /\ QuickInv /\ LiveInv /\ [ServiceNext]_serviceVars => LiveInv'
<1> SUFFICES ASSUME ServiceTypeInv, HolderInv, QuickInv, LiveInv,
                    [ServiceNext]_serviceVars
             PROVE  LiveInv'
    OBVIOUS
<1> USE ServiceAssumption DEF ServiceTypeInv, HolderInv, QuickInv, LiveInv, QuickPending, Settings, Locked,
            Moves, EndsQuick, Inner, Outer, core, flags
<1>1. ASSUME NEW t \in Threads, NEW c \in ServiceCalls, Call(t, c) PROVE LiveInv'
  BY <1>1 DEF Call, ServiceCalls
<1>2. ASSUME NEW t \in Threads, InitClash(t) PROVE LiveInv'
  BY <1>2 DEF InitClash
<1>3. ASSUME NEW t \in Threads, StartListener(t) PROVE LiveInv'
  BY <1>3 DEF StartListener, Lock, Outdate, Listens
<1>4. ASSUME NEW t \in Threads, StartListenerBump(t) PROVE LiveInv'
  BY <1>4 DEF StartListenerBump, Unlock, StartBump, Bump
<1>5. ASSUME NEW t \in Threads, StopListener(t) PROVE LiveInv'
  BY <1>5 DEF StopListener, Lock, StopRunning
<1>6. ASSUME NEW t \in Threads, StopListenerClose(t) PROVE LiveInv'
  BY <1>6 DEF StopListenerClose, Unlock
<1>7. ASSUME NEW t \in Threads, Setup(t) PROVE LiveInv'
  BY <1>7 DEF Setup
<1>8. ASSUME NEW t \in Threads, NEW s \in Loaded, Apply(t, s) PROVE LiveInv'
  BY <1>8 DEF Apply, Lock, Loaded, Settings, Outdate
<1>9. ASSUME NEW t \in Threads, ApplyBump(t) PROVE LiveInv'
  BY <1>9 DEF ApplyBump, Keep, Bump
<1>10. ASSUME NEW t \in Threads, ApplyListen(t) PROVE LiveInv'
  BY <1>10 DEF ApplyListen, Unlock, Listens, Passes
<1>11. ASSUME NEW t \in Threads, NEW s \in Settings, NEW ipv6 \in BOOLEAN,
              Update(t, s, ipv6)
       PROVE  LiveInv'
  BY <1>11 DEF Update, Lock, Refused, Patched, Settings, Outdate
<1>12. ASSUME NEW t \in Threads, UpdateListen(t) PROVE LiveInv'
  BY <1>12 DEF UpdateListen, Unlock, Keep, Listens, Passes
<1>26. ASSUME NEW t \in Threads, UpdateBump(t) PROVE LiveInv'
  BY <1>26 DEF UpdateBump, Unlock, Bump
<1>13. ASSUME NEW t \in Threads, QuickRun(t) PROVE LiveInv'
  BY <1>13 DEF QuickRun
<1>14. ASSUME NEW t \in Threads, IfStopped(t) PROVE LiveInv'
  BY <1>14 DEF IfStopped
<1>15. ASSUME NEW t \in Threads, IfRunning(t) PROVE LiveInv'
  BY <1>15 DEF IfRunning
<1>16. ASSUME NEW t \in Threads, NEW opened \in BOOLEAN, StartTun(t, opened) PROVE LiveInv'
  BY <1>16 DEF StartTun, Outdate
<1>17. ASSUME NEW t \in Threads, TunUp(t) PROVE LiveInv'
  BY <1>17 DEF TunUp, Bump
<1>18. ASSUME NEW t \in Threads, StopTun(t) PROVE LiveInv'
  BY <1>18 DEF StopTun
<1>19. CASE End
  BY <1>19 DEF End
<1>20. CASE Shutdown
  BY <1>20 DEF Shutdown, Lock
<1>21. CASE ShutdownClose
  BY <1>21 DEF ShutdownClose, Unlock
<1>22. CASE ProcessOver
  BY <1>22 DEF ProcessOver
<1>23. CASE OverLate
  BY <1>23 DEF OverLate
<1>24. CASE SendProbe
  BY <1>24 DEF SendProbe
<1>25. CASE UNCHANGED serviceVars
  BY <1>25 DEF serviceVars
<1> QED BY <1>1, <1>2, <1>3, <1>4, <1>5, <1>6, <1>7, <1>8, <1>9, <1>10, <1>11, <1>12, <1>13,
           <1>14, <1>15, <1>16, <1>17, <1>18, <1>19, <1>20, <1>21, <1>22, <1>23, <1>24, <1>25, <1>26
        DEF ServiceNext, Steps, Cleanup

LEMMA DropsNext ==
    ServiceTypeInv /\ ResetsDropProbes /\ [ServiceNext]_serviceVars => ResetsDropProbes'
<1> SUFFICES ASSUME ServiceTypeInv, ResetsDropProbes,
                    [ServiceNext]_serviceVars
             PROVE  ResetsDropProbes'
    OBVIOUS
<1> USE ServiceAssumption DEF ServiceTypeInv, ResetsDropProbes, Owed,
            Moves, EndsQuick, Inner, Outer, core, flags
<1>1. ASSUME NEW t \in Threads, NEW c \in ServiceCalls, Call(t, c) PROVE ResetsDropProbes'
  BY <1>1 DEF Call, ServiceCalls
<1>2. ASSUME NEW t \in Threads, InitClash(t) PROVE ResetsDropProbes'
  BY <1>2 DEF InitClash
<1>3. ASSUME NEW t \in Threads, StartListener(t) PROVE ResetsDropProbes'
  BY <1>3 DEF StartListener, Lock, Outdate, Listens
<1>4. ASSUME NEW t \in Threads, StartListenerBump(t) PROVE ResetsDropProbes'
  BY <1>4 DEF StartListenerBump, Unlock, StartBump, Bump
<1>5. ASSUME NEW t \in Threads, StopListener(t) PROVE ResetsDropProbes'
  BY <1>5 DEF StopListener, Lock, StopRunning
<1>6. ASSUME NEW t \in Threads, StopListenerClose(t) PROVE ResetsDropProbes'
  BY <1>6 DEF StopListenerClose, Unlock
<1>7. ASSUME NEW t \in Threads, Setup(t) PROVE ResetsDropProbes'
  BY <1>7 DEF Setup
<1>8. ASSUME NEW t \in Threads, NEW s \in Loaded, Apply(t, s) PROVE ResetsDropProbes'
  BY <1>8 DEF Apply, Lock, Loaded, Settings, Outdate
<1>9. ASSUME NEW t \in Threads, ApplyBump(t) PROVE ResetsDropProbes'
  BY <1>9 DEF ApplyBump, Keep, Bump
<1>10. ASSUME NEW t \in Threads, ApplyListen(t) PROVE ResetsDropProbes'
  BY <1>10 DEF ApplyListen, Unlock, Listens, Passes
<1>11. ASSUME NEW t \in Threads, NEW s \in Settings, NEW ipv6 \in BOOLEAN,
              Update(t, s, ipv6)
       PROVE  ResetsDropProbes'
  BY <1>11 DEF Update, Lock, Refused, Patched, Settings, Outdate
<1>12. ASSUME NEW t \in Threads, UpdateListen(t) PROVE ResetsDropProbes'
  BY <1>12 DEF UpdateListen, Unlock, Keep, Listens, Passes
<1>26. ASSUME NEW t \in Threads, UpdateBump(t) PROVE ResetsDropProbes'
  BY <1>26 DEF UpdateBump, Unlock, Bump
<1>13. ASSUME NEW t \in Threads, QuickRun(t) PROVE ResetsDropProbes'
  BY <1>13 DEF QuickRun
<1>14. ASSUME NEW t \in Threads, IfStopped(t) PROVE ResetsDropProbes'
  BY <1>14 DEF IfStopped
<1>15. ASSUME NEW t \in Threads, IfRunning(t) PROVE ResetsDropProbes'
  BY <1>15 DEF IfRunning
<1>16. ASSUME NEW t \in Threads, NEW opened \in BOOLEAN, StartTun(t, opened) PROVE ResetsDropProbes'
  BY <1>16 DEF StartTun, Outdate
<1>17. ASSUME NEW t \in Threads, TunUp(t) PROVE ResetsDropProbes'
  BY <1>17 DEF TunUp, Bump
<1>18. ASSUME NEW t \in Threads, StopTun(t) PROVE ResetsDropProbes'
  BY <1>18 DEF StopTun
<1>19. CASE End
  BY <1>19 DEF End
<1>20. CASE Shutdown
  BY <1>20 DEF Shutdown, Lock
<1>21. CASE ShutdownClose
  BY <1>21 DEF ShutdownClose, Unlock
<1>22. CASE ProcessOver
  BY <1>22 DEF ProcessOver
<1>23. CASE OverLate
  BY <1>23 DEF OverLate
<1>24. CASE SendProbe
  BY <1>24 DEF SendProbe
<1>25. CASE UNCHANGED serviceVars
  BY <1>25 DEF serviceVars
<1> QED BY <1>1, <1>2, <1>3, <1>4, <1>5, <1>6, <1>7, <1>8, <1>9, <1>10, <1>11, <1>12, <1>13,
           <1>14, <1>15, <1>16, <1>17, <1>18, <1>19, <1>20, <1>21, <1>22, <1>23, <1>24, <1>25, <1>26
        DEF ServiceNext, Steps, Cleanup

\* handleSetupConfig, updateConfig, StartListener, StopListener, QuickSetup: what
\* mihomo runs with is the config applied last, and it listens exactly when a
\* run is on, whenever no call is changing either.
THEOREM LiveFollowsConfigHolds == ServiceSpec => []LiveFollowsConfig
<1> DEFINE Inv == ServiceTypeInv /\ HolderInv /\ QuickInv /\ LiveInv
<1>1. ASSUME Inv PROVE LiveFollowsConfig
  <2> SUFFICES ASSUME configMu = Nothing, ~QuickPending
               PROVE  /\ live.port = IF isRunning /\ config # Nothing THEN config.port ELSE Nothing
                      /\ config # Nothing => live.access = config.access
      BY DEF LiveFollowsConfig
  <2>1. \A t \in Threads \cup {Main} : pc[t] \notin Locked
    BY <1>1, ServiceAssumption DEF HolderInv
  <2> QED BY <1>1, <2>1 DEF LiveInv, Locked
<1>2. ServiceInit => Inv BY ServiceInvInit
<1>3. Inv /\ [ServiceNext]_serviceVars => Inv'
  BY ServiceTypeNext, HolderNext, QuickNext, LiveNext
<1> HIDE DEF Inv
<1> QED BY <1>1, <1>2, <1>3, PTL DEF ServiceSpec

\* handleStartListener, StartTun, applyConfig, updateConfig: no answer outlives a start,
\* an applied config or an IPv6 switch, the epoch moves or a call still owes it.
THEOREM ResetsDropProbesHolds == ServiceSpec => []ResetsDropProbes
<1> DEFINE Inv == ServiceTypeInv /\ ResetsDropProbes
<1>1. ServiceInit => Inv
  BY ServiceInvInit DEF ServiceInit, ResetsDropProbes, Owed
<1>2. Inv /\ [ServiceNext]_serviceVars => Inv'
  BY ServiceTypeNext, DropsNext
<1>3. Inv => ResetsDropProbes OBVIOUS
<1> HIDE DEF Inv
<1> QED BY <1>1, <1>2, <1>3, PTL DEF ServiceSpec

(***************************************************************************)
(* ProbeSlots (core/slots.go and the calls that run probes).               *)
(***************************************************************************)
LEMMA JobShape ==
    /\ \A j \in Jobs : j[1] \in Calls /\ j = <<j[1], j[2]>>
    /\ \A c \in Calls : \A i \in 1..Sources : <<c, i>> \in Jobs
    /\ \A c \in Calls : \A a \in Asks : \A i \in DOMAIN a : <<c, i>> \in Jobs
    /\ \A a \in Asks : a \in Seq(Services) /\ Len(a) \in Nat \ {0} /\ DOMAIN a = 1..Len(a)
    /\ 1 \in 1..Sources
BY SlotsAssumption DEF Jobs

CallRecord ==
    [kind  : {"none", "probe", "delay", "sweep", "lookup"},
     stage : {"idle", "one", "claim", "place", "wait", "stamped", "race"},
     asks  : Asks \cup {<<>>}, next : Nat \ {0},
     ctx   : {"live", "late", "cancelled", "over"}, epoch : Nat, lost : SUBSET Services]
JobStages == {"none", "queue", "refused", "piped", "open", "test", "judge"}
JobRecord ==
    [stage : JobStages,
     requests : Nat, usable : BOOLEAN]

SlotsTypeInv ==
    /\ epoch \in Nat
    /\ call \in [Calls -> CallRecord]
    /\ claims \in [Services -> Calls \cup {None}]
    /\ lookups \subseteq Calls
    /\ job \in [Jobs -> JobRecord]
    /\ granted \subseteq Jobs
    /\ taken \in [Pools -> Nat]
    /\ \A c \in Calls : call[c].stage \in {"claim", "place"} =>
           call[c].asks \in Asks /\ call[c].next \in DOMAIN call[c].asks

\* The stage of a call says of which kind it is.
KindOf(c) ==
    /\ call[c].kind = "sweep" <=> call[c].stage \in {"claim", "place", "wait"}
    /\ call[c].kind \in {"probe", "delay"} <=> call[c].stage = "one"
    /\ call[c].kind = "lookup" => call[c].stage \in {"stamped", "race", "idle"}
    /\ call[c].stage \in {"stamped", "race"} => call[c].kind = "lookup"

\* Which jobs of a call are out: those it has started, and after a call only
\* those a lookup left.
Started(j) ==
    /\ call[j[1]].kind # "none"
    /\ call[j[1]].stage \notin {"claim", "stamped"}
    /\ call[j[1]].stage \in {"place", "race"} => j[2] < call[j[1]].next
    /\ call[j[1]].stage = "one" => j[2] = 1

FlightInv ==
    /\ \A c \in Calls : KindOf(c)
    /\ \A j \in Jobs : ~Ended(j) => Started(j)
    /\ \A j \in granted : ~Ended(j) /\ call[j[1]].kind = "sweep"

CountInv ==
    \A p \in Pools :
        /\ IsFiniteSet(Holders(p))
        /\ taken[p] = Cardinality(Holders(p))
        /\ taken[p] <= Size[p]

\* A job waits for its route exactly while its connection is on its way
\* through the tunnel.
RouteInv ==
    /\ pending \subseteq Jobs
    /\ \A j \in Jobs :
           /\ j \in pending <=> job[j].stage = "piped"
           /\ job[j].stage = "open" => j \in settled

\* A claim and a loss are of what the sweep has asked for so far.
Asked(c, s) ==
    /\ call[c].kind = "sweep"
    /\ \E k \in DOMAIN call[c].asks :
          call[c].asks[k] = s /\ (call[c].stage = "claim" => k < call[c].next)

Cause(c, s) ==
    /\ claims[s] = c => Asked(c, s)
    /\ s \in call[c].lost => Asked(c, s) /\ claims[s] # c
    /\ Asked(c, s) /\ call[c].ctx = "live" /\ s \notin call[c].lost => claims[s] = c

CauseInv ==
    \A c \in Calls : /\ \A s \in Services : Cause(c, s)
                     /\ call[c].epoch <= epoch
                     /\ call[c].ctx = "cancelled" => call[c].epoch < epoch

LEMMA SlotsTypeInit == SlotsInit => SlotsTypeInv
<1> SUFFICES ASSUME SlotsInit PROVE SlotsTypeInv
    OBVIOUS
<1>1. \A c \in Calls : call[c] = [kind |-> "none", stage |-> "idle", asks |-> <<>>, next |-> 1,
                                  ctx |-> "over", epoch |-> 0, lost |-> {}]
  BY DEF SlotsInit, Gone, Fresh
<1>2. \A c \in Calls : call[c] \in CallRecord /\ call[c].stage = "idle"
  BY <1>1 DEF CallRecord
<1>3. job \in [Jobs -> JobRecord]
  BY DEF SlotsInit, Idle, JobRecord, JobStages
<1>4. call \in [Calls -> CallRecord]
  BY <1>2 DEF SlotsInit
<1> QED BY <1>2, <1>3, <1>4 DEF SlotsInit, SlotsTypeInv

\* Assigning fields of a job or of a call keeps its type.
LEMMA JobFields ==
    ASSUME NEW f \in [Jobs -> JobRecord], NEW j \in Jobs, NEW to \in JobStages
    PROVE  /\ [f EXCEPT ![j].stage = to] \in [Jobs -> JobRecord]
           /\ \A u \in BOOLEAN :
                  [f EXCEPT ![j].stage = to, ![j].usable = u] \in [Jobs -> JobRecord]
           /\ [f EXCEPT ![j].stage = to, ![j].requests = @ + 1] \in [Jobs -> JobRecord]
<1> DEFINE g == [f EXCEPT ![j].stage = to]
<1>1. g \in [Jobs -> JobRecord] BY DEF JobRecord
<1> HIDE DEF g
<1>2. ASSUME NEW u \in BOOLEAN PROVE [g EXCEPT ![j].usable = u] \in [Jobs -> JobRecord]
  BY <1>1 DEF JobRecord
<1>3. [g EXCEPT ![j].requests = @ + 1] \in [Jobs -> JobRecord]
  BY <1>1 DEF JobRecord
<1> QED BY <1>1, <1>2, <1>3 DEF g

LEMMA CallFields ==
    \A r \in CallRecord : \A st \in {"place", "wait", "race"} : \A n \in {1, 2} :
        [r EXCEPT !.stage = st, !.next = n] \in CallRecord
<1> SUFFICES ASSUME NEW r \in CallRecord, NEW st \in {"place", "wait", "race"}, NEW n \in {1, 2}
             PROVE  [r EXCEPT !.stage = st, !.next = n] \in CallRecord
    OBVIOUS
<1> DEFINE q == [r EXCEPT !.stage = st]
<1>1. q \in CallRecord BY DEF CallRecord
<1>2. [r EXCEPT !.stage = st, !.next = n] = [q EXCEPT !.next = n] OBVIOUS
<1> HIDE DEF q
<1>3. [q EXCEPT !.next = n] \in CallRecord BY <1>1 DEF CallRecord
<1> QED BY <1>2, <1>3

LEMMA CallNext == \A r \in CallRecord : [r EXCEPT !.next = r.next + 1] \in CallRecord
<1> SUFFICES ASSUME NEW r \in CallRecord PROVE [r EXCEPT !.next = r.next + 1] \in CallRecord
    OBVIOUS
<1>1. r.next + 1 \in Nat \ {0} BY DEF CallRecord
<1> QED BY <1>1 DEF CallRecord

\* What Next1 assigns.
LEMMA NextOne ==
    ASSUME NEW c \in Calls, call[c] \in CallRecord, NEW done \in {"place", "wait"}
    PROVE  LET N == Next1(c, done) IN
           /\ N \in CallRecord
           /\ N.kind = call[c].kind /\ N.asks = call[c].asks /\ N.ctx = call[c].ctx
           /\ N.epoch = call[c].epoch /\ N.lost = call[c].lost
           /\ IF call[c].next = Len(call[c].asks) THEN N.stage = done /\ N.next = 1
              ELSE N.stage = call[c].stage /\ N.next = call[c].next + 1
<1> DEFINE r == call[c]
<1>1. CASE r.next = Len(r.asks)
  <2>1. Next1(c, done) = [r EXCEPT !.stage = done, !.next = 1] BY <1>1 DEF Next1
  <2>2. r \in CallRecord /\ done \in {"place", "wait", "race"} /\ 1 \in {1, 2} OBVIOUS
  <2> HIDE DEF r
  <2>4. [r EXCEPT !.stage = done, !.next = 1] \in CallRecord BY <2>2, CallFields, Zenon
  <2>3. /\ [r EXCEPT !.stage = done, !.next = 1].kind = r.kind
        /\ [r EXCEPT !.stage = done, !.next = 1].asks = r.asks
        /\ [r EXCEPT !.stage = done, !.next = 1].ctx = r.ctx
        /\ [r EXCEPT !.stage = done, !.next = 1].epoch = r.epoch
        /\ [r EXCEPT !.stage = done, !.next = 1].lost = r.lost
        /\ [r EXCEPT !.stage = done, !.next = 1].stage = done
        /\ [r EXCEPT !.stage = done, !.next = 1].next = 1
    BY <2>2 DEF CallRecord
  <2> QED BY <1>1, <2>1, <2>3, <2>4 DEF r
<1>2. CASE r.next # Len(r.asks)
  <2>1. Next1(c, done) = [r EXCEPT !.next = r.next + 1] BY <1>2 DEF Next1
  <2>2. r \in CallRecord OBVIOUS
  <2> DEFINE n == r.next + 1
  <2> HIDE DEF r
  <2>4. [r EXCEPT !.next = n] \in CallRecord BY <2>2, CallNext, Zenon
  <2> HIDE DEF n
  <2>3. /\ [r EXCEPT !.next = n].kind = r.kind
        /\ [r EXCEPT !.next = n].asks = r.asks
        /\ [r EXCEPT !.next = n].ctx = r.ctx
        /\ [r EXCEPT !.next = n].epoch = r.epoch
        /\ [r EXCEPT !.next = n].lost = r.lost
        /\ [r EXCEPT !.next = n].stage = r.stage
        /\ [r EXCEPT !.next = n].next = n
    BY <2>2 DEF CallRecord
  <2> QED BY <1>2, <2>1, <2>3, <2>4 DEF r, n
<1> QED BY <1>1, <1>2

LEMMA GoneRecord ==
    \A kind : Gone(kind) = [kind |-> kind, stage |-> "idle", asks |-> <<>>, next |-> 1,
                                  ctx |-> "over", epoch |-> 0, lost |-> {}]
<1> SUFFICES ASSUME NEW kind
             PROVE  Gone(kind) = [kind |-> kind, stage |-> "idle", asks |-> <<>>, next |-> 1,
                                        ctx |-> "over", epoch |-> 0, lost |-> {}]
    OBVIOUS
<1> DEFINE e == IF kind = "lookup" THEN epoch ELSE 0
<1>1. Gone(kind) = [[kind |-> kind, stage |-> "idle", asks |-> <<>>, next |-> 1,
                           ctx |-> "live", epoch |-> e, lost |-> {}] EXCEPT !.ctx = "over", !.epoch = 0]
  BY DEF Gone, Fresh
<1> HIDE DEF e
<1> QED BY <1>1

LEMMA SlotsTypeNext ==
    SlotsTypeInv /\ [SlotsNext]_slotsVars => SlotsTypeInv'
<1> SUFFICES ASSUME SlotsTypeInv, [SlotsNext]_slotsVars
             PROVE  SlotsTypeInv'
    OBVIOUS
<1> USE DEF claimed, conns, Untouched
<1>t. /\ epoch \in Nat
      /\ call \in [Calls -> CallRecord]
      /\ claims \in [Services -> Calls \cup {None}]
      /\ lookups \subseteq Calls
      /\ job \in [Jobs -> JobRecord]
      /\ granted \subseteq Jobs
      /\ taken \in [Pools -> Nat]
      /\ \A c \in Calls : call[c].stage \in {"claim", "place"} =>
             call[c].asks \in Asks /\ call[c].next \in DOMAIN call[c].asks
  BY DEF SlotsTypeInv
<1>p. "probe" \in Pools /\ "check" \in Pools /\ "delay" \in Pools
  BY DEF Pools
<1>o. \A j \in Jobs : PoolOf(j) \in Pools
  BY <1>p DEF PoolOf
<1>a. ASSUME NEW p \in Pools, Acquire(p) \/ Release(p)
      PROVE  taken' \in [Pools -> Nat]
  <2>1. CASE Acquire(p) BY <1>t, <2>1 DEF Acquire
  <2>2. CASE Release(p) BY <1>t, <2>2 DEF Release
  <2> QED BY <1>a, <2>1, <2>2
\* A step of a job of a call that stays as it is.
<1>j. ASSUME UNCHANGED <<call, claims, lookups, epoch>>, job' \in [Jobs -> JobRecord],
             granted' \subseteq granted, taken' \in [Pools -> Nat]
      PROVE  SlotsTypeInv'
  BY <1>j, <1>t DEF SlotsTypeInv
<1>1. ASSUME NEW j \in Jobs, Request(j) PROVE SlotsTypeInv'
  <2>1. CASE Missing(j) \/ NoSlot(j) \/ Track(j)
    <3>1. job' \in [Jobs -> JobRecord]
      <4>1. PICK to \in {"judge", "open"} : job' = [job EXCEPT ![j].stage = to]
        BY <2>1 DEF Missing, NoSlot, Track, Goto
      <4> QED BY <1>t, <4>1 DEF JobRecord, JobStages
    <3> QED BY <1>j, <1>t, <2>1, <3>1 DEF Missing, NoSlot, Track
  <2>2. ASSUME NEW next \in {"open", "piped", "test"}, GetSlot(j, next) PROVE SlotsTypeInv'
    <3>1. job' \in [Jobs -> JobRecord]
      BY <1>t, <2>2, JobFields DEF GetSlot, Goto, JobStages
    <3> QED BY <1>a, <1>j, <1>o, <2>2, <3>1 DEF GetSlot
  <2>3. ASSUME NEW usable \in BOOLEAN, Ends(j, usable) PROVE SlotsTypeInv'
    <3>1. job' \in [Jobs -> JobRecord]
      <4> DEFINE u == usable /\ call[j[1]].stage = "race"
      <4>1. u \in BOOLEAN /\ "judge" \in JobStages BY DEF JobStages
      <4>2. job' = [job EXCEPT ![j].stage = "judge", ![j].usable = u] BY <2>3 DEF Ends
      <4> HIDE DEF u
      <4> QED BY <1>t, <4>1, <4>2, JobFields
    <3> QED BY <1>a, <1>j, <1>o, <2>3, <3>1 DEF Ends
  <2> QED BY <1>1, <2>1, <2>2, <2>3
          DEF Request, DialProxy, DialTunnel, TestDelay, Answered, Fails
<1>i. Idle \in JobRecord
  BY DEF Idle, JobRecord, JobStages
<1>g. \A kind \in {"none", "lookup"} : /\ Gone(kind) \in CallRecord
                                       /\ Gone(kind).stage = "idle"
  BY GoneRecord DEF CallRecord
<1>2. ASSUME NEW j \in Jobs, One(j) PROVE SlotsTypeInv'
  <2>1. job' \in [Jobs -> JobRecord] BY <1>2, <1>i, <1>t DEF One
  <2>2. call' = [call EXCEPT ![j[1]] = Gone("none")] BY <1>2 DEF One
  <2> QED BY <1>2, <1>g, <1>t, <2>1, <2>2 DEF One, SlotsTypeInv
<1>3. ASSUME NEW j \in Jobs, Check(j) PROVE SlotsTypeInv'
  <2>1. CASE job' = [job EXCEPT ![j].stage = "queue", ![j].requests = @ + 1]
             /\ UNCHANGED <<granted, taken>>
    <3>1. job' \in [Jobs -> JobRecord] BY <1>t, <2>1, JobFields DEF JobStages
    <3> QED BY <1>3, <1>j, <1>t, <2>1, <3>1 DEF Check
  <2>2. CASE job' = [job EXCEPT ![j] = Idle] /\ GivesBack(j)
    <3>1. job' \in [Jobs -> JobRecord] BY <1>i, <1>t, <2>2
    <3>2. granted' \subseteq granted /\ taken' \in [Pools -> Nat]
      BY <1>a, <1>p, <1>t, <2>2 DEF GivesBack
    <3> QED BY <1>3, <1>j, <3>1, <3>2 DEF Check
  <2> QED BY <1>3, <2>1, <2>2 DEF Check
<1>4. ASSUME NEW j \in Jobs, Unread(j) PROVE SlotsTypeInv'
  <2>1. job' \in [Jobs -> JobRecord] BY <1>4, <1>i, <1>t DEF Unread
  <2> QED BY <1>4, <1>j, <1>t, <2>1 DEF Unread
<1>5. ASSUME NEW c \in Calls, NEW kind \in {"probe", "delay", "sweep", "lookup"},
             NEW stage \in {"one", "claim", "stamped"}, NEW asks \in Asks \cup {<<>>},
             stage = "claim" => asks \in Asks, Ask(c, kind, stage, asks)
      PROVE  SlotsTypeInv'
  <2>1. /\ Fresh(kind, stage, asks) \in CallRecord
        /\ Fresh(kind, stage, asks).stage = stage
        /\ Fresh(kind, stage, asks).asks = asks
        /\ Fresh(kind, stage, asks).next = 1
    BY <1>t DEF Fresh, CallRecord
  <2>2. asks \in Asks => 1 \in DOMAIN asks
    BY JobShape
  <2>3. job' \in [Jobs -> JobRecord]
    <3>1. [Idle EXCEPT !.stage = "queue"] \in JobRecord
      BY DEF Idle, JobRecord, JobStages
    <3> QED BY <1>5, <1>i, <1>t, <3>1 DEF Ask
  <2>4. call' = [call EXCEPT ![c] = Fresh(kind, stage, asks)]
        /\ UNCHANGED <<claims, lookups, granted, taken, epoch>>
    BY <1>5 DEF Ask
  <2> QED BY <1>5, <1>t, <2>1, <2>2, <2>3, <2>4 DEF SlotsTypeInv
\* Next1 goes on to the next of what was asked for, or to the next stage.
<1>n. ASSUME NEW c \in Calls, call[c].stage \in {"claim", "place"}, NEW done \in {"place", "wait"}
      PROVE  /\ Next1(c, done) \in CallRecord
             /\ Next1(c, done).asks = call[c].asks
             /\ Next1(c, done).next \in DOMAIN call[c].asks
             /\ Next1(c, done).lost = call[c].lost
             /\ Next1(c, done).stage \in {call[c].stage, done}
  <2>1. /\ call[c] \in CallRecord /\ call[c].asks \in Asks
        /\ call[c].next \in 1..Len(call[c].asks) /\ Len(call[c].asks) \in Nat \ {0}
        /\ DOMAIN call[c].asks = 1..Len(call[c].asks)
    BY <1>n, <1>t, JobShape
  <2>2. CASE call[c].next = Len(call[c].asks)
    <3>1. Next1(c, done) = [call[c] EXCEPT !.stage = done, !.next = 1]
      BY <2>2 DEF Next1
    <3>0. call[c] \in CallRecord /\ done \in {"place", "wait", "race"} /\ 1 \in {1, 2}
      BY <1>n, <2>1
    <3>4. [call[c] EXCEPT !.stage = done, !.next = 1] \in CallRecord BY <3>0, CallFields, Zenon
    <3>2. Next1(c, done) \in CallRecord BY <3>1, <3>4
    <3> QED BY <2>1, <3>1, <3>2 DEF CallRecord
  <2>3. CASE call[c].next # Len(call[c].asks)
    <3>1. Next1(c, done) = [call[c] EXCEPT !.next = @ + 1]
      BY <2>3 DEF Next1
    <3>0. [call[c] EXCEPT !.next = call[c].next + 1] \in CallRecord BY <2>1, CallNext, Zenon
    <3>2. Next1(c, done) \in CallRecord BY <3>0, <3>1
    <3>3. call[c].next \in Nat /\ call[c].next + 1 \in 1..Len(call[c].asks)
      BY <2>1, <2>3
    <3>4. /\ Next1(c, done).asks = call[c].asks
          /\ Next1(c, done).next = call[c].next + 1
          /\ Next1(c, done).lost = call[c].lost
          /\ Next1(c, done).stage = call[c].stage
      BY <2>1, <3>1 DEF CallRecord
    <3> QED BY <2>1, <3>2, <3>3, <3>4
  <2> QED BY <2>2, <2>3
<1>6. ASSUME NEW c \in Calls, Claim(c) PROVE SlotsTypeInv'
  <2> DEFINE s == call[c].asks[call[c].next]
             N == Next1(c, "place")
  <2>0. call[c].stage = "claim" BY <1>6 DEF Claim
  <2>1. s \in Services BY <1>t, <2>0, JobShape
  <2>2. /\ N \in CallRecord /\ N.asks = call[c].asks /\ N.next \in DOMAIN call[c].asks
        /\ call[c].asks \in Asks
    BY <1>n, <1>t, <2>0
  <2>3. CASE FirstOf(c)
    <3>1. claims' = [claims EXCEPT ![s] = c] BY <1>6, <2>3 DEF Claim
    <3>2. \A d \in Calls :
             LET e == IF d = c THEN N ELSE call[d]
             IN  call'[d] = IF d = claims[s] THEN [e EXCEPT !.lost = @ \cup {s}] ELSE e
      BY <1>6, <2>3 DEF Claim
    <3>3. \A d \in Calls : /\ call'[d] \in CallRecord
                           /\ call'[d].stage \in {"claim", "place"} =>
                                  call'[d].asks \in Asks /\ call'[d].next \in DOMAIN call'[d].asks
      <4> SUFFICES ASSUME NEW d \in Calls
                   PROVE  /\ call'[d] \in CallRecord
                          /\ call'[d].stage \in {"claim", "place"} =>
                                 call'[d].asks \in Asks /\ call'[d].next \in DOMAIN call'[d].asks
          OBVIOUS
      <4> DEFINE e == IF d = c THEN N ELSE call[d]
      <4>1. e \in CallRecord /\ (e.stage \in {"claim", "place"} => e.asks \in Asks /\ e.next \in DOMAIN e.asks)
        BY <1>t, <2>2
      <4>2. call'[d] = IF d = claims[s] THEN [e EXCEPT !.lost = @ \cup {s}] ELSE e
        BY <3>2
      <4> HIDE DEF e
      <4>3. CASE d = claims[s]
        <5>1. call'[d] = [e EXCEPT !.lost = @ \cup {s}] BY <4>2, <4>3
        <5>2. call'[d] \in CallRecord BY <2>1, <4>1, <5>1 DEF CallRecord
        <5>3. call'[d].stage = e.stage /\ call'[d].asks = e.asks /\ call'[d].next = e.next
          BY <4>1, <5>1 DEF CallRecord
        <5> QED BY <4>1, <5>2, <5>3
      <4> QED BY <4>1, <4>2, <4>3
    <3>4. call' \in [Calls -> CallRecord] /\ UNCHANGED <<lookups, job, granted, taken, epoch>>
      BY <1>6, <2>3, <3>3 DEF Claim
    <3> QED BY <1>t, <2>1, <3>1, <3>3, <3>4 DEF SlotsTypeInv
  <2>4. CASE ~FirstOf(c)
    <3>1. call' = [call EXCEPT ![c] = N] /\ UNCHANGED <<claims, lookups, job, granted, taken, epoch>>
      BY <1>6, <2>4 DEF Claim
    <3> HIDE DEF N
    <3> QED BY <1>t, <2>2, <3>1 DEF SlotsTypeInv
  <2> QED BY <2>3, <2>4
<1>7. ASSUME NEW c \in Calls, Place(c) PROVE SlotsTypeInv'
  <2> DEFINE j == <<c, call[c].next>>
             N == Next1(c, "wait")
  <2>0. call[c].stage = "place" BY <1>7 DEF Place
  <2>1. j \in Jobs BY <1>t, <2>0, JobShape
  <2>2. /\ N \in CallRecord /\ N.asks = call[c].asks /\ N.next \in DOMAIN call[c].asks
        /\ call[c].asks \in Asks
    BY <1>n, <1>t, <2>0
  <2>3. taken' \in [Pools -> Nat] /\ granted' \subseteq Jobs
    BY <1>7, <1>a, <1>p, <1>t, <2>1 DEF Place
  <2>4. job' \in [Jobs -> JobRecord]
    <3>1. /\ [Idle EXCEPT !.stage = "refused"] \in JobRecord
          /\ [Idle EXCEPT !.stage = "queue", !.requests = 1] \in JobRecord
      BY DEF Idle, JobRecord, JobStages
    <3> QED BY <1>7, <1>t, <2>1, <3>1 DEF Place
  <2>5. call' = [call EXCEPT ![c] = N] /\ UNCHANGED <<claims, lookups, epoch>>
    BY <1>7 DEF Place
  <2> HIDE DEF N
  <2> QED BY <1>t, <2>2, <2>3, <2>4, <2>5 DEF SlotsTypeInv
<1>8. ASSUME NEW c \in Calls, Joined(c) PROVE SlotsTypeInv'
  BY <1>8, <1>g, <1>t DEF Joined, DropsOwn, SlotsTypeInv
<1>9. ASSUME NEW c \in Calls, ClaimLookup(c) PROVE SlotsTypeInv'
  <2>1. /\ lookups' \subseteq Calls /\ UNCHANGED <<claims, granted, taken, epoch>>
    BY <1>9, <1>t DEF ClaimLookup
  <2>2. job' \in [Jobs -> JobRecord]
    <3>1. job' = [job EXCEPT ![<<c, 1>>].stage = "queue"] BY <1>9 DEF ClaimLookup
    <3> QED BY <1>t, <3>1 DEF JobRecord, JobStages
  <2>3. \A d \in Calls : /\ call'[d] \in CallRecord
                         /\ call'[d].stage \in {"claim", "place"} =>
                                call'[d].asks \in Asks /\ call'[d].next \in DOMAIN call'[d].asks
    <3> SUFFICES ASSUME NEW d \in Calls
                 PROVE  /\ call'[d] \in CallRecord
                        /\ call'[d].stage \in {"claim", "place"} =>
                               call'[d].asks \in Asks /\ call'[d].next \in DOMAIN call'[d].asks
        OBVIOUS
    <3>1. \/ call'[d] = [call[d] EXCEPT !.stage = "race", !.next = 2]
          \/ call'[d] = [call[d] EXCEPT !.ctx = "cancelled"]
          \/ call'[d] = call[d]
      BY <1>9 DEF ClaimLookup
    <3>2. CASE call'[d] = [call[d] EXCEPT !.stage = "race", !.next = 2]
      <4>0. call[d] \in CallRecord /\ "race" \in {"place", "wait", "race"} /\ 2 \in {1, 2}
        BY <1>t
      <4>1. call'[d] \in CallRecord BY <3>2, <4>0, CallFields, Zenon
      <4>2. call'[d].stage = "race" BY <1>t, <3>2 DEF CallRecord
      <4> QED BY <4>1, <4>2
    <3>3. CASE call'[d] = [call[d] EXCEPT !.ctx = "cancelled"]
      <4>0. call[d] \in CallRecord BY <1>t
      <4>1. call'[d] \in CallRecord BY <3>3, <4>0 DEF CallRecord
      <4>2. call'[d].stage = call[d].stage /\ call'[d].asks = call[d].asks /\ call'[d].next = call[d].next
        BY <1>t, <3>3 DEF CallRecord
      <4> QED BY <1>t, <4>1, <4>2
    <3> QED BY <1>t, <3>1, <3>2, <3>3
  <2>4. call' \in [Calls -> CallRecord] BY <1>9, <2>3 DEF ClaimLookup
  <2> QED BY <1>t, <2>1, <2>2, <2>3, <2>4 DEF SlotsTypeInv
\* A call that moves on to its next source, or is late.
<1>e. ASSUME NEW c \in Calls,
             \/ call[c].stage = "race" /\ call' = [call EXCEPT ![c].next = @ + 1]
             \/ call' = [call EXCEPT ![c].ctx = "late"]
             \/ call' = call
             \/ call' = [call EXCEPT ![c] = Gone("lookup")],
             job' \in [Jobs -> JobRecord], lookups' \subseteq lookups,
             UNCHANGED <<claims, granted, taken, epoch>>
      PROVE  SlotsTypeInv'
  <2>c. ASSUME NEW r \in CallRecord, call' = [call EXCEPT ![c] = r],
               r.stage \in {"claim", "place"} => r.asks \in Asks /\ r.next \in DOMAIN r.asks
        PROVE  SlotsTypeInv'
    BY <1>e, <1>t, <2>c DEF SlotsTypeInv
  <2>1. CASE call[c].stage = "race" /\ call' = [call EXCEPT ![c].next = @ + 1]
    <3> DEFINE r == [call[c] EXCEPT !.next = call[c].next + 1]
    <3>0. call[c] \in CallRecord BY <1>t
    <3>1. r \in CallRecord BY <3>0, CallNext, Zenon
    <3>2. call' = [call EXCEPT ![c] = r] /\ r.stage = "race" BY <2>1, <3>0 DEF CallRecord
    <3> HIDE DEF r
    <3> QED BY <2>c, <3>1, <3>2
  <2>2. CASE call' = [call EXCEPT ![c].ctx = "late"]
    <3> DEFINE r == [call[c] EXCEPT !.ctx = "late"]
    <3>0. call[c] \in CallRecord BY <1>t
    <3>1. r \in CallRecord BY <3>0 DEF CallRecord
    <3>2. r.stage = call[c].stage /\ r.asks = call[c].asks /\ r.next = call[c].next
      BY <1>t DEF CallRecord
    <3>3. call' = [call EXCEPT ![c] = r] BY <2>2
    <3> HIDE DEF r
    <3> QED BY <1>t, <2>c, <3>1, <3>2, <3>3
  <2>3. CASE call' = call
    BY <1>e, <1>t, <2>3 DEF SlotsTypeInv
  <2>4. CASE call' = [call EXCEPT ![c] = Gone("lookup")]
    BY <1>g, <2>4, <2>c
  <2> QED BY <1>e, <2>1, <2>2, <2>3, <2>4
<1>10. ASSUME NEW c \in Calls, Tick(c) PROVE SlotsTypeInv'
  <2>1. job' \in [Jobs -> JobRecord]
    <3>1. job' = [job EXCEPT ![<<c, call[c].next>>].stage = "queue"] BY <1>10 DEF Tick
    <3> QED BY <1>t, <3>1 DEF JobRecord, JobStages
  <2> QED BY <1>10, <1>e, <1>t, <2>1 DEF Tick
<1>11. ASSUME NEW c \in Calls, NEW j \in JobsOf(c), Receive(c, j) PROVE SlotsTypeInv'
  <2>1. j \in Jobs BY DEF JobsOf
  <2>2. job' \in [Jobs -> JobRecord]
    <3> DEFINE f == [job EXCEPT ![j] = Idle]
    <3>1. f \in [Jobs -> JobRecord] BY <1>i, <1>t, <2>1
    <3>2. \/ job' = f
          \/ job' = [f EXCEPT ![<<c, call[c].next>>].stage = "queue"]
      BY <1>11 DEF Receive, StartsNext
    <3> HIDE DEF f
    <3> QED BY <3>1, <3>2 DEF JobRecord, JobStages
  <2>3. call[c].stage = "race" BY <1>11 DEF Receive
  <2> QED BY <1>11, <1>e, <1>t, <2>2, <2>3 DEF Receive, StartsNext, Return
<1>12. ASSUME NEW c \in Calls, GivesUp(c) PROVE SlotsTypeInv'
  BY <1>12, <1>e, <1>t DEF GivesUp, Return
<1>13. ASSUME NEW c \in Calls, Expire(c) PROVE SlotsTypeInv'
  BY <1>13, <1>e, <1>t DEF Expire
<1>14. CASE BumpEpoch
  BY <1>14, <1>t DEF BumpEpoch, SlotsTypeInv
<1>15. CASE UNCHANGED slotsVars
  BY <1>15, <1>t DEF slotsVars, SlotsTypeInv
<1>16. ASSUME NEW c \in Calls, Works(c) PROVE SlotsTypeInv'
  BY <1>1, <1>2, <1>3, <1>4, <1>6, <1>7, <1>8, <1>9, <1>10, <1>11, <1>12, <1>13, <1>16
     DEF Works, Calling, Jobbing, Flying, JobsOf
<1> QED BY <1>5, <1>14, <1>15, <1>16 DEF SlotsNext

LEMMA FlightInit == SlotsInit => FlightInv
<1> SUFFICES ASSUME SlotsInit PROVE FlightInv
    OBVIOUS
<1>1. \A c \in Calls : call[c].kind = "none" /\ call[c].stage = "idle"
  BY GoneRecord DEF SlotsInit
<1>2. \A j \in Jobs : Ended(j)
  BY DEF SlotsInit, Ended, Idle
<1>3. granted = {} BY DEF SlotsInit
<1> QED BY <1>1, <1>2, <1>3 DEF FlightInv, KindOf

LEMMA FlightNext ==
    SlotsTypeInv /\ FlightInv /\ [SlotsNext]_slotsVars => FlightInv'
<1> SUFFICES ASSUME SlotsTypeInv, FlightInv, [SlotsNext]_slotsVars
             PROVE  FlightInv'
    OBVIOUS
<1> USE DEF claimed, conns, Untouched
<1>t. /\ call \in [Calls -> CallRecord]
      /\ job \in [Jobs -> JobRecord]
      /\ granted \subseteq Jobs
      /\ \A c \in Calls : call[c].stage \in {"claim", "place"} =>
             call[c].asks \in Asks /\ call[c].next \in DOMAIN call[c].asks
      /\ \A c \in Calls : call[c] \in CallRecord /\ call[c].next \in Nat
  BY DEF SlotsTypeInv, CallRecord
<1>f. /\ \A c \in Calls : KindOf(c)
      /\ \A j \in Jobs : ~Ended(j) => Started(j)
      /\ \A j \in granted : ~Ended(j) /\ call[j[1]].kind = "sweep"
  BY DEF FlightInv
<1>i. Idle \in JobRecord /\ Idle.stage = "none"
  BY DEF Idle, JobRecord, JobStages
<1>g. ASSUME NEW kind PROVE /\ Gone(kind).kind = kind /\ Gone(kind).stage = "idle"
  BY GoneRecord
\* A step is about one call and its jobs.
<1>k. ASSUME NEW c \in Calls,
             \A d \in Calls \ {c} : /\ call'[d].kind = call[d].kind /\ call'[d].stage = call[d].stage
                                    /\ call'[d].next = call[d].next,
             \A j \in Jobs : j[1] # c /\ ~Ended(j)' => ~Ended(j),
             KindOf(c)',
             \A j \in Jobs : j[1] = c /\ ~Ended(j)' => Started(j)',
             \A j \in granted' : /\ j \in Jobs /\ ~Ended(j)'
                                 /\ IF j[1] = c THEN call'[c].kind = "sweep" ELSE j \in granted
      PROVE  FlightInv'
  <2>1. ASSUME NEW d \in Calls PROVE KindOf(d)'
    BY <1>f, <1>k, <2>1 DEF KindOf
  <2>2. ASSUME NEW j \in Jobs, ~Ended(j)' PROVE Started(j)'
    <3>1. CASE j[1] = c BY <1>k, <2>2, <3>1
    <3>2. CASE j[1] # c
      <4>1. Started(j) /\ j[1] \in Calls \ {c} BY <1>f, <1>k, <2>2, <3>2, JobShape
      <4> QED BY <1>k, <4>1 DEF Started
    <3> QED BY <3>1, <3>2
  <2>3. ASSUME NEW j \in granted' PROVE ~Ended(j)' /\ call'[j[1]].kind = "sweep"
    <3>1. CASE j[1] = c BY <1>k, <2>3, <3>1
    <3>2. CASE j[1] # c BY <1>f, <1>k, <2>3, <3>2, JobShape
    <3> QED BY <3>1, <3>2
  <2> QED BY <2>1, <2>2, <2>3 DEF FlightInv
\* The calls stay as they are, jobs may end.
<1>s. ASSUME \A d \in Calls : /\ call'[d].kind = call[d].kind /\ call'[d].stage = call[d].stage
                              /\ call'[d].next = call[d].next,
             \A j \in Jobs : ~Ended(j)' => ~Ended(j),
             granted' \subseteq granted, \A j \in granted' : ~Ended(j)'
      PROVE  FlightInv'
  <2>1. \A d \in Calls : KindOf(d)' BY <1>f, <1>s DEF KindOf
  <2>2. \A j \in Jobs : ~Ended(j)' => Started(j)' BY <1>f, <1>s, JobShape DEF Started
  <2>3. \A j \in granted' : ~Ended(j)' /\ call'[j[1]].kind = "sweep"
    BY <1>f, <1>s, <1>t, JobShape
  <2> QED BY <2>1, <2>2, <2>3 DEF FlightInv
<1>1. ASSUME NEW j \in Jobs, Request(j) PROVE FlightInv'
  <2>1. /\ ~Ended(j) /\ ~Ended(j)'
        /\ \A i \in Jobs \ {j} : job'[i] = job[i]
        /\ UNCHANGED <<call, granted>>
    <3>1. CASE Missing(j) \/ NoSlot(j) \/ Track(j)
      <4>1. PICK to \in {"judge", "open"} : job' = [job EXCEPT ![j].stage = to]
        BY <3>1 DEF Missing, NoSlot, Track, Goto
      <4> QED BY <1>t, <3>1, <4>1 DEF Missing, NoSlot, Track, Goto, Ended, JobRecord
    <3>2. ASSUME NEW next \in {"open", "piped", "test"}, GetSlot(j, next)
          PROVE  /\ ~Ended(j) /\ ~Ended(j)'
                 /\ \A i \in Jobs \ {j} : job'[i] = job[i]
                 /\ UNCHANGED <<call, granted>>
      BY <1>t, <3>2 DEF GetSlot, Goto, Ended, JobRecord
    <3>3. ASSUME NEW usable, Ends(j, usable), job[j].stage \in {"piped", "open", "test"}
          PROVE  /\ ~Ended(j) /\ ~Ended(j)'
                 /\ \A i \in Jobs \ {j} : job'[i] = job[i]
                 /\ UNCHANGED <<call, granted>>
      BY <1>t, <3>3 DEF Ends, Ended, JobRecord
    <3> QED BY <1>1, <3>1, <3>2, <3>3
            DEF Request, DialProxy, DialTunnel, TestDelay, Answered, Fails
  <2>2. \A i \in Jobs : Ended(i)' <=> Ended(i)
    BY <2>1 DEF Ended
  <2> QED BY <1>f, <1>s, <1>t, <2>1, <2>2
\* A job that ends.
<1>e. ASSUME NEW j \in Jobs, job' = [job EXCEPT ![j] = Idle]
      PROVE  Ended(j)' /\ \A i \in Jobs \ {j} : Ended(i)' <=> Ended(i)
  BY <1>e, <1>i, <1>t DEF Ended
<1>2. ASSUME NEW j \in Jobs, One(j) PROVE FlightInv'
  <2> DEFINE c == j[1]
  <2>1. /\ c \in Calls /\ j = <<c, j[2]>> /\ call[c].stage = "one" /\ ~Ended(j)
        /\ job' = [job EXCEPT ![j] = Idle] /\ granted' = granted
        /\ call' = [call EXCEPT ![c] = Gone("none")]
    BY <1>2, JobShape DEF One, Ended
  <2>2. ASSUME NEW i \in Jobs, i[1] = c PROVE Ended(i)'
    <3>1. CASE i = j BY <1>e, <2>1, <3>1
    <3>2. CASE i # j
      <4>1. i = <<c, i[2]>> BY <2>2, JobShape
      <4>2. Started(j) /\ (~Ended(i) => Started(i)) BY <1>f, <2>1
      <4>3. Ended(i) BY <2>1, <2>2, <3>2, <4>1, <4>2 DEF Started
      <4> QED BY <1>e, <2>1, <3>2, <4>3
    <3> QED BY <3>1, <3>2
  <2>3. KindOf(c)' BY <1>g, <1>t, <2>1 DEF KindOf
  <2>4. \A i \in granted : i[1] # c BY <1>f, <2>1 DEF KindOf
  <2>5. \A i \in Jobs : i[1] # c => (Ended(i)' <=> Ended(i)) BY <1>e, <2>1
  <2>6. \A d \in Calls \ {c} : call'[d] = call[d] BY <1>t, <2>1
  <2>7. \A i \in granted' : i \in Jobs /\ ~Ended(i)' /\ i[1] # c /\ i \in granted
    BY <1>f, <1>t, <2>1, <2>4, <2>5
  <2> HIDE DEF c
  <2> QED BY <1>k, <2>1, <2>2, <2>3, <2>5, <2>6, <2>7
<1>3. ASSUME NEW j \in Jobs, Check(j) PROVE FlightInv'
  <2>0. UNCHANGED call BY <1>3 DEF Check
  <2>1. CASE /\ job[j].stage = "judge" /\ UNCHANGED <<granted, taken>>
             /\ job' = [job EXCEPT ![j].stage = "queue", ![j].requests = @ + 1]
    <3>1. /\ ~Ended(j) /\ ~Ended(j)'
          /\ \A i \in Jobs \ {j} : job'[i] = job[i]
      BY <1>t, <2>1 DEF Ended, JobRecord
    <3>2. \A i \in Jobs : Ended(i)' <=> Ended(i)
      BY <3>1 DEF Ended
    <3> QED BY <1>f, <1>s, <1>t, <2>0, <2>1, <3>2
  <2>2. CASE job' = [job EXCEPT ![j] = Idle] /\ GivesBack(j)
    <3>1. granted' = granted \ {j} BY <2>2 DEF GivesBack
    <3> QED BY <1>e, <1>f, <1>s, <1>t, <2>0, <2>2, <3>1
  <2> QED BY <1>3, <2>1, <2>2 DEF Check
<1>4. ASSUME NEW j \in Jobs, Unread(j) PROVE FlightInv'
  <2>1. call[j[1]].kind = "lookup" /\ j \notin granted BY <1>4, <1>f DEF Unread
  <2>2. job' = [job EXCEPT ![j] = Idle] /\ UNCHANGED <<call, granted>>
    BY <1>4 DEF Unread
  <2> QED BY <1>e, <1>f, <1>s, <1>t, <2>1, <2>2
<1>5. ASSUME NEW c \in Calls, NEW kind, NEW stage, NEW asks, Ask(c, kind, stage, asks),
             \/ kind \in {"probe", "delay"} /\ stage = "one"
             \/ kind = "sweep" /\ stage = "claim"
             \/ kind = "lookup" /\ stage = "stamped"
      PROVE  FlightInv'
  <2>1. /\ Fresh(kind, stage, asks).kind = kind /\ Fresh(kind, stage, asks).stage = stage
    BY DEF Fresh
  <2>2. /\ call' = [call EXCEPT ![c] = Fresh(kind, stage, asks)] /\ granted' = granted
        /\ \A i \in Jobs : i[1] = c => Ended(i)
    BY <1>5 DEF Ask, Flying, JobsOf
  <2>3. /\ call'[c].kind = kind /\ call'[c].stage = stage
        /\ \A d \in Calls \ {c} : call'[d] = call[d]
    BY <1>t, <2>1, <2>2
  <2>4. KindOf(c)' BY <1>5, <2>3 DEF KindOf
  <2>5. \A i \in Jobs : i[1] # c => (Ended(i)' <=> Ended(i))
    BY <1>5, <1>t DEF Ask, Ended
  <2>6. \A i \in Jobs : i[1] = c /\ ~Ended(i)' => stage = "one" /\ i[2] = 1
    BY <1>5, <1>i DEF Ask, Ended
  <2>7. \A i \in Jobs : i[1] = c /\ ~Ended(i)' => Started(i)'
    BY <1>5, <2>3, <2>6 DEF Started
  <2>8. \A i \in granted' : i \in Jobs /\ ~Ended(i)' /\ i[1] # c /\ i \in granted
    BY <1>f, <1>t, <2>2, <2>5
  <2> QED BY <1>k, <2>3, <2>4, <2>5, <2>7, <2>8
<1>6. ASSUME NEW c \in Calls, Claim(c) PROVE FlightInv'
  <2> DEFINE s == call[c].asks[call[c].next]
             N == Next1(c, "place")
  <2>1. call[c].stage = "claim" /\ UNCHANGED <<job, granted>> BY <1>6 DEF Claim
  <2>2. N \in CallRecord /\ N.kind = "sweep" /\ N.stage \in {"claim", "place"}
    BY <1>f, <1>t, <2>1, NextOne DEF KindOf
  <2>3. ASSUME NEW d \in Calls
        PROVE  LET e == IF d = c THEN N ELSE call[d]
               IN  call'[d].kind = e.kind /\ call'[d].stage = e.stage /\ call'[d].next = e.next
    <3> DEFINE e == IF d = c THEN N ELSE call[d]
    <3>1. \/ call'[d] = [e EXCEPT !.lost = @ \cup {s}]
          \/ call'[d] = e
      BY <1>6, <1>t DEF Claim
    <3>3. e \in CallRecord BY <1>t, <2>2
    <3> HIDE DEF e
    <3>2. call'[d].kind = e.kind /\ call'[d].stage = e.stage /\ call'[d].next = e.next
      BY <3>1, <3>3 DEF CallRecord
    <3> QED BY <3>2 DEF e
  <2> HIDE DEF N
  <2>4. KindOf(c)' BY <2>2, <2>3 DEF KindOf
  <2>5. \A i \in Jobs : Ended(i)' <=> Ended(i) BY <2>1 DEF Ended
  <2>6. \A i \in Jobs : i[1] = c => Ended(i) BY <1>f, <2>1 DEF Started
  <2>7. \A i \in granted' : i \in Jobs /\ ~Ended(i)' /\ i[1] # c /\ i \in granted
    BY <1>f, <1>t, <2>1, <2>5, <2>6
  <2>8. \A d \in Calls \ {c} : /\ call'[d].kind = call[d].kind /\ call'[d].stage = call[d].stage
                               /\ call'[d].next = call[d].next
    BY <2>3
  <2> QED BY <1>k, <2>4, <2>5, <2>6, <2>7, <2>8
<1>7. ASSUME NEW c \in Calls, Place(c) PROVE FlightInv'
  <2> DEFINE N == Next1(c, "wait")
  <2>0. call[c].stage = "place" BY <1>7 DEF Place
  <2>j. PICK j \in Jobs : j = <<c, call[c].next>> BY <1>t, <2>0, JobShape
  <2>1. /\ call[c].stage = "place" /\ call' = [call EXCEPT ![c] = N]
        /\ granted' = granted \/ granted' = granted \cup {j}
    BY <1>7, <2>j DEF Place
  <2>2. j \in Jobs /\ j[1] = c /\ j[2] = call[c].next BY <2>j
  <2>3. /\ N.kind = "sweep"
        /\ N.stage = "wait" \/ (N.stage = "place" /\ N.next = call[c].next + 1)
    BY <1>f, <1>t, <2>1, NextOne DEF KindOf
  <2>4. ~Ended(j)' /\ \A i \in Jobs \ {j} : Ended(i)' <=> Ended(i)
    <3>1. /\ [Idle EXCEPT !.stage = "refused"].stage = "refused"
          /\ [Idle EXCEPT !.stage = "queue", !.requests = 1].stage = "queue"
      BY DEF Idle
    <3>2. /\ job'[j].stage \in {"refused", "queue"}
          /\ \A i \in Jobs \ {j} : job'[i] = job[i]
      BY <1>7, <1>t, <2>j, <3>1 DEF Place
    <3> QED BY <3>2 DEF Ended
  <2>5. call'[c] = N /\ \A d \in Calls \ {c} : call'[d] = call[d] BY <1>t, <2>1
  <2> HIDE DEF N
  <2>6. KindOf(c)' BY <2>3, <2>5 DEF KindOf
  <2>7. ASSUME NEW i \in Jobs, i[1] = c, ~Ended(i)' PROVE Started(i)'
    <3>1. i[2] <= call[c].next
      <4>1. CASE i = j BY <2>2, <4>1, <1>t
      <4>2. CASE i # j
        <5>1. Started(i) BY <1>f, <2>4, <2>7, <4>2
        <5>2. i[2] < call[c].next BY <2>1, <2>7, <5>1 DEF Started
        <5>3. i[2] \in Nat BY JobShape, SlotsAssumption DEF Jobs
        <5> QED BY <1>t, <5>2, <5>3
      <4> QED BY <4>1, <4>2
    <3>2. i[2] \in Nat BY JobShape, SlotsAssumption DEF Jobs
    <3>3. i[2] < call[c].next + 1 BY <1>t, <3>1, <3>2
    <3> QED BY <2>3, <2>5, <2>7, <3>3 DEF Started
  <2>8. \A i \in granted' : /\ i \in Jobs /\ ~Ended(i)'
                            /\ IF i[1] = c THEN call'[c].kind = "sweep" ELSE i \in granted
    BY <1>f, <1>t, <2>1, <2>2, <2>3, <2>4, <2>5
  <2> QED BY <1>k, <2>2, <2>4, <2>5, <2>6, <2>7, <2>8
<1>8. ASSUME NEW c \in Calls, Joined(c) PROVE FlightInv'
  <2>1. /\ call' = [call EXCEPT ![c] = Gone("none")] /\ UNCHANGED <<job, granted>>
        /\ \A i \in Jobs : i[1] = c => Ended(i)
    BY <1>8 DEF Joined, Flying, JobsOf
  <2>2. KindOf(c)' BY <1>g, <1>t, <2>1 DEF KindOf
  <2>3. \A i \in Jobs : Ended(i)' <=> Ended(i) BY <2>1 DEF Ended
  <2>4. \A d \in Calls \ {c} : call'[d] = call[d] BY <1>t, <2>1
  <2>5. \A i \in granted' : i \in Jobs /\ ~Ended(i)' /\ i[1] # c /\ i \in granted
    BY <1>f, <1>t, <2>1, <2>3
  <2> QED BY <1>k, <2>1, <2>2, <2>3, <2>4, <2>5
\* A lookup that asks its next source, or one that returned.
<1>n. ASSUME NEW c \in Calls, call'[c].kind = "lookup", call'[c].stage \in {"race", "idle"},
             call[c].kind = "lookup",
             call'[c].stage = "race" => \A i \in Jobs : i[1] = c /\ ~Ended(i)' => i[2] < call'[c].next,
             \A d \in Calls \ {c} : /\ call'[d].kind = call[d].kind /\ call'[d].stage = call[d].stage
                                    /\ call'[d].next = call[d].next,
             \A j \in Jobs : j[1] # c => (Ended(j)' <=> Ended(j)), granted' = granted
      PROVE  FlightInv'
  <2>1. KindOf(c)' BY <1>n DEF KindOf
  <2>2. \A i \in Jobs : i[1] = c /\ ~Ended(i)' => Started(i)' BY <1>n DEF Started
  <2>3. \A i \in granted' : i \in Jobs /\ ~Ended(i)' /\ i[1] # c /\ i \in granted
    BY <1>f, <1>n, <1>t
  <2> QED BY <1>k, <1>n, <2>1, <2>2, <2>3
<1>m. \A i \in Jobs : i[2] \in Nat
  BY JobShape, SlotsAssumption DEF Jobs
<1>r. ASSUME NEW c \in Calls, call[c].stage = "race", call' = [call EXCEPT ![c].next = @ + 1]
      PROVE  /\ call'[c].kind = "lookup" /\ call[c].kind = "lookup" /\ call'[c].stage = "race"
             /\ call'[c].next = call[c].next + 1
             /\ \A d \in Calls \ {c} : call'[d] = call[d]
             /\ \A i \in Jobs : i[1] = c /\ ~Ended(i) => i[2] < call[c].next
  <2>1. call[c].kind = "lookup" BY <1>f, <1>r DEF KindOf
  <2>2. \A i \in Jobs : i[1] = c /\ ~Ended(i) => i[2] < call[c].next
    BY <1>f, <1>r DEF Started
  <2>3. /\ call'[c].kind = call[c].kind /\ call'[c].stage = call[c].stage
        /\ call'[c].next = call[c].next + 1
    <3>1. call[c] \in CallRecord BY <1>t
    <3> DEFINE r == call[c]
               n == r.next + 1
    <3>2. call'[c] = [r EXCEPT !.next = n] BY <1>r, <1>t
    <3> HIDE DEF n
    <3>3. call'[c].kind = r.kind /\ call'[c].stage = r.stage /\ call'[c].next = n
      BY <3>1, <3>2 DEF CallRecord
    <3> QED BY <3>3 DEF n
  <2>4. \A d \in Calls \ {c} : call'[d] = call[d] BY <1>r, <1>t
  <2> QED BY <1>r, <2>1, <2>2, <2>3, <2>4
<1>q. ASSUME NEW c \in Calls, call[c].stage = "race", call' = [call EXCEPT ![c] = Gone("lookup")],
             \A j \in Jobs : j[1] # c => (Ended(j)' <=> Ended(j)), granted' = granted
      PROVE  FlightInv'
  <2>1. call[c].kind = "lookup" BY <1>f, <1>q DEF KindOf
  <2>2. call'[c].kind = "lookup" /\ call'[c].stage = "idle" BY <1>g, <1>q, <1>t
  <2>3. \A d \in Calls \ {c} : call'[d] = call[d] BY <1>q, <1>t
  <2> QED BY <1>n, <1>q, <2>1, <2>2, <2>3
<1>9. ASSUME NEW c \in Calls, ClaimLookup(c) PROVE FlightInv'
  <2>1. /\ call[c].stage = "stamped" /\ granted' = granted
        /\ job' = [job EXCEPT ![<<c, 1>>].stage = "queue"]
    BY <1>9 DEF ClaimLookup
  <2>2. call[c].kind = "lookup" /\ \A i \in Jobs : i[1] = c => Ended(i)
    BY <1>f, <2>1 DEF KindOf, Started
  <2>3. \A i \in Jobs : i # <<c, 1>> => job'[i] = job[i] BY <1>t, <2>1
  <2>4. \A i \in Jobs : i # <<c, 1>> => (Ended(i)' <=> Ended(i))
    BY <2>3 DEF Ended
  <2>5. \A d \in Calls \ {c} : /\ call'[d].kind = call[d].kind /\ call'[d].stage = call[d].stage
                               /\ call'[d].next = call[d].next
    <3> SUFFICES ASSUME NEW d \in Calls \ {c}
                 PROVE  /\ call'[d].kind = call[d].kind /\ call'[d].stage = call[d].stage
                        /\ call'[d].next = call[d].next
        OBVIOUS
    <3>1. call'[d] = [call[d] EXCEPT !.ctx = "cancelled"] \/ call'[d] = call[d]
      BY <1>9 DEF ClaimLookup
    <3> QED BY <1>t, <3>1 DEF CallRecord
  <2>6. call'[c].kind = "lookup" /\ call'[c].stage = "race" /\ call'[c].next = 2
    <3> DEFINE r == call[c]
    <3>1. call'[c] = [r EXCEPT !.stage = "race", !.next = 2] BY <1>9 DEF ClaimLookup
    <3>2. r \in CallRecord BY <1>t
    <3>3. r.kind = "lookup" BY <2>2
    <3> HIDE DEF r
    <3> QED BY <3>1, <3>2, <3>3 DEF CallRecord
  <2>7. \A i \in Jobs : i[1] = c /\ ~Ended(i)' => i[2] < call'[c].next
    BY <2>2, <2>4, <2>6
  <2>8. \A i \in Jobs : i[1] # c => (Ended(i)' <=> Ended(i)) BY <2>4
  <2> QED BY <1>n, <2>1, <2>2, <2>5, <2>6, <2>7, <2>8
<1>10. ASSUME NEW c \in Calls, Tick(c) PROVE FlightInv'
  <2>1. /\ call[c].stage = "race" /\ call' = [call EXCEPT ![c].next = @ + 1] /\ granted' = granted
        /\ job' = [job EXCEPT ![<<c, call[c].next>>].stage = "queue"]
    BY <1>10 DEF Tick
  <2>2. \A i \in Jobs : i # <<c, call[c].next>> => job'[i] = job[i] BY <1>t, <2>1
  <2>3. \A i \in Jobs : i # <<c, call[c].next>> => (Ended(i)' <=> Ended(i))
    BY <2>2 DEF Ended
  <2>r. /\ call'[c].kind = "lookup" /\ call[c].kind = "lookup" /\ call'[c].stage = "race"
        /\ call'[c].next = call[c].next + 1 /\ call[c].next \in Nat
        /\ \A d \in Calls \ {c} : call'[d] = call[d]
        /\ \A i \in Jobs : i[1] = c /\ ~Ended(i) => i[2] < call[c].next
    BY <1>r, <1>t, <2>1
  <2>4. ASSUME NEW i \in Jobs, i[1] = c, ~Ended(i)' PROVE i[2] < call'[c].next
    <3>1. CASE i = <<c, call[c].next>> BY <2>r, <3>1
    <3>2. CASE i # <<c, call[c].next>> BY <1>m, <2>3, <2>4, <2>r, <3>2
    <3> QED BY <3>1, <3>2
  <2> QED BY <1>n, <2>1, <2>3, <2>4, <2>r
<1>11. ASSUME NEW c \in Calls, NEW j \in JobsOf(c), Receive(c, j) PROVE FlightInv'
  <2>1. j \in Jobs /\ j[1] = c BY DEF JobsOf
  <2>2. call[c].stage = "race" /\ granted' = granted BY <1>11 DEF Receive, Return
  <2>3. CASE job' = [job EXCEPT ![j] = Idle] /\ call' = [call EXCEPT ![c] = Gone("lookup")]
    BY <1>e, <1>q, <2>1, <2>2, <2>3
  <2>4. CASE job' = [job EXCEPT ![j] = Idle] /\ UNCHANGED call
    <3>1. call[c].kind = "lookup" BY <1>f, <2>2 DEF KindOf
    <3>2. \A i \in Jobs : ~Ended(i)' => ~Ended(i) BY <1>e, <2>1, <2>4
    <3>3. \A i \in granted' : ~Ended(i)' BY <1>e, <1>f, <1>t, <2>1, <2>2, <2>4, <3>1
    <3> QED BY <1>s, <2>2, <2>4, <3>2, <3>3
  <2>5. CASE /\ job' = [job EXCEPT ![j] = Idle, ![<<c, call[c].next>>].stage = "queue"]
             /\ call' = [call EXCEPT ![c].next = @ + 1]
    <3>1. \A i \in Jobs : i # <<c, call[c].next>> => (Ended(i)' => Ended(i) \/ i = j)
      BY <1>t, <2>1, <2>5 DEF Ended
    <3>2. \A i \in Jobs : i # <<c, call[c].next>> => (Ended(i) => Ended(i)')
      BY <1>i, <1>t, <2>1, <2>5 DEF Ended
    <3>3. \A i \in Jobs : i[1] # c => (Ended(i)' <=> Ended(i))
      BY <2>1, <3>1, <3>2
    <3>r. /\ call'[c].kind = "lookup" /\ call[c].kind = "lookup" /\ call'[c].stage = "race"
          /\ call'[c].next = call[c].next + 1 /\ call[c].next \in Nat
          /\ \A d \in Calls \ {c} : call'[d] = call[d]
          /\ \A i \in Jobs : i[1] = c /\ ~Ended(i) => i[2] < call[c].next
      BY <1>r, <1>t, <2>2, <2>5
    <3>4. ASSUME NEW i \in Jobs, i[1] = c, ~Ended(i)' PROVE i[2] < call'[c].next
      <4>1. CASE i = <<c, call[c].next>> BY <3>r, <4>1
      <4>2. CASE i # <<c, call[c].next>> BY <1>m, <3>2, <3>4, <3>r, <4>2
      <4> QED BY <4>1, <4>2
    <3> QED BY <1>n, <2>2, <2>5, <3>3, <3>4, <3>r
  <2> QED BY <1>11, <2>3, <2>4, <2>5 DEF Receive, StartsNext, Return
<1>12. ASSUME NEW c \in Calls, GivesUp(c) PROVE FlightInv'
  <2>1. /\ call[c].stage = "race" /\ UNCHANGED <<job, granted>>
        /\ call' = [call EXCEPT ![c] = Gone("lookup")]
    BY <1>12 DEF GivesUp, Return
  <2>2. \A i \in Jobs : Ended(i)' <=> Ended(i) BY <2>1 DEF Ended
  <2> QED BY <1>q, <2>1, <2>2
<1>u. ASSUME \/ UNCHANGED call
             \/ \E c \in Calls : call' = [call EXCEPT ![c].ctx = "late"],
             UNCHANGED <<job, granted>>
      PROVE  FlightInv'
  <2>1. \A d \in Calls : /\ call'[d].kind = call[d].kind /\ call'[d].stage = call[d].stage
                         /\ call'[d].next = call[d].next
    BY <1>t, <1>u DEF CallRecord
  <2>2. \A i \in Jobs : Ended(i)' <=> Ended(i) BY <1>u DEF Ended
  <2> QED BY <1>f, <1>s, <1>t, <1>u, <2>1, <2>2
<1>13. ASSUME NEW c \in Calls, Expire(c) PROVE FlightInv'
  BY <1>13, <1>u DEF Expire
<1>14. CASE BumpEpoch
  BY <1>14, <1>u DEF BumpEpoch
<1>15. CASE UNCHANGED slotsVars
  BY <1>15, <1>u DEF slotsVars
<1>16. ASSUME NEW c \in Calls, Works(c) PROVE FlightInv'
  BY <1>1, <1>2, <1>3, <1>4, <1>6, <1>7, <1>8, <1>9, <1>10, <1>11, <1>12, <1>13, <1>16
     DEF Works, Calling, Jobbing, Flying, JobsOf
<1> QED BY <1>5, <1>14, <1>15, <1>16 DEF SlotsNext

\* Jobs that hold a slot of a request, in which stage.
AtWork == {"piped", "open", "test"}

\* A step that is no request of a job leaves the jobs at work, and the
\* connections, as they are.
Calm ==
    /\ UNCHANGED <<pending, settled>>
    /\ \A i \in Jobs :
           IF job[i].stage \in AtWork
           THEN job'[i].stage = job[i].stage /\ call'[i[1]].kind = call[i[1]].kind
           ELSE job'[i].stage \notin AtWork

LEMMA CalmSteps ==
    ASSUME SlotsTypeInv, FlightInv, [SlotsNext]_slotsVars
    PROVE  Calm \/ \E j \in Jobs : Request(j) /\ ~Ended(j)
<1> USE DEF claimed, conns, Untouched
<1>t. /\ call \in [Calls -> CallRecord]
      /\ job \in [Jobs -> JobRecord]
      /\ \A c \in Calls : call[c].stage \in {"claim", "place"} =>
             call[c].asks \in Asks /\ call[c].next \in DOMAIN call[c].asks
      /\ \A c \in Calls : call[c] \in CallRecord /\ call[c].next \in Nat
  BY DEF SlotsTypeInv, CallRecord
<1>f. /\ \A c \in Calls : KindOf(c)
      /\ \A j \in Jobs : ~Ended(j) => Started(j)
  BY DEF FlightInv
<1>i. Idle \in JobRecord /\ Idle.stage = "none" /\ Idle.stage \notin AtWork
  BY DEF Idle, JobRecord, JobStages, AtWork
<1>w. \A i \in Jobs : Ended(i) => job[i].stage \notin AtWork
  BY DEF Ended, AtWork
\* All jobs stay as they are.
<1>u. ASSUME UNCHANGED <<job, pending, settled>>,
             \A i \in Jobs : ~Ended(i) => call'[i[1]].kind = call[i[1]].kind
      PROVE  Calm
  BY <1>u, <1>w DEF Calm
\* Only jobs that are not at work change.
<1>c. ASSUME NEW S \in SUBSET Jobs,
             \A i \in S : job[i].stage \notin AtWork /\ job'[i].stage \notin AtWork,
             \A i \in Jobs \ S : job'[i] = job[i],
             \A i \in Jobs \ S : ~Ended(i) => call'[i[1]].kind = call[i[1]].kind,
             UNCHANGED <<pending, settled>>
      PROVE  Calm
  BY <1>c, <1>w DEF Calm
<1>d. ASSUME NEW j \in Jobs,
             job[j].stage \notin AtWork /\ job'[j].stage \notin AtWork,
             \A i \in Jobs \ {j} : job'[i] = job[i],
             \A i \in Jobs \ {j} : ~Ended(i) => call'[i[1]].kind = call[i[1]].kind,
             UNCHANGED <<pending, settled>>
      PROVE  Calm
  BY <1>d, <1>w DEF Calm
<1>2. ASSUME NEW j \in Jobs, One(j) PROVE Calm
  <2>1. /\ call[j[1]].stage = "one" /\ job[j].stage = "judge" /\ UNCHANGED <<pending, settled>>
        /\ job' = [job EXCEPT ![j] = Idle] /\ call' = [call EXCEPT ![j[1]] = Gone("none")]
    BY <1>2 DEF One
  <2>2. ~Ended(j) BY <2>1 DEF Ended
  <2>3. ASSUME NEW i \in Jobs, i # j, ~Ended(i) PROVE call'[i[1]].kind = call[i[1]].kind
    <3>1. i[1] # j[1]
      BY <1>f, <2>1, <2>2, <2>3, JobShape DEF Started
    <3> QED BY <1>t, <2>1, <3>1, JobShape
  <2>4. job[j].stage \notin AtWork /\ job'[j].stage \notin AtWork
    BY <1>i, <1>t, <2>1 DEF AtWork
  <2>5. \A i \in Jobs \ {j} : job'[i] = job[i] BY <1>t, <2>1
  <2> QED BY <1>d, <2>1, <2>3, <2>4, <2>5
<1>3. ASSUME NEW j \in Jobs, Check(j) \/ Unread(j) PROVE Calm
  <2>1. UNCHANGED <<call, pending, settled>> BY <1>3 DEF Check, Unread
  <2>2. /\ job[j].stage \in {"refused", "judge"}
        /\ \/ job' = [job EXCEPT ![j] = Idle]
           \/ job' = [job EXCEPT ![j].stage = "queue", ![j].requests = @ + 1]
    BY <1>3 DEF Check, Unread
  <2>3. job'[j].stage \in {"none", "queue"} /\ \A i \in Jobs \ {j} : job'[i] = job[i]
    BY <1>i, <1>t, <2>2 DEF JobRecord
  <2>4. job[j].stage \notin AtWork /\ job'[j].stage \notin AtWork BY <2>2, <2>3 DEF AtWork
  <2> QED BY <1>d, <2>1, <2>3, <2>4
<1>5. ASSUME NEW c \in Calls, NEW kind, NEW stage, NEW asks, Ask(c, kind, stage, asks)
      PROVE  Calm
  <2> DEFINE S == JobsOf(c)
  <2>1. /\ \A i \in S : Ended(i) /\ i \in Jobs
        /\ UNCHANGED <<pending, settled>> /\ call' = [call EXCEPT ![c] = Fresh(kind, stage, asks)]
    BY <1>5 DEF Ask, Flying, JobsOf
  <2>2. \A i \in S : job'[i].stage \in {"none", "queue"}
    BY <1>5, <1>i DEF Ask, JobsOf, Idle
  <2>3. \A i \in Jobs \ S : job'[i] = job[i] /\ i[1] \in Calls \ {c}
    BY <1>5, JobShape DEF Ask, JobsOf
  <2>4. \A i \in Jobs \ S : call'[i[1]].kind = call[i[1]].kind
    BY <1>t, <2>1, <2>3
  <2>5. \A i \in S : job[i].stage \notin AtWork /\ job'[i].stage \notin AtWork
    BY <1>w, <2>1, <2>2 DEF AtWork
  <2>6. S \in SUBSET Jobs BY DEF JobsOf
  <2> HIDE DEF S
  <2> QED BY <1>c, <2>1, <2>3, <2>4, <2>5, <2>6
<1>6. ASSUME NEW c \in Calls, Claim(c) PROVE Calm
  <2> DEFINE s == call[c].asks[call[c].next]
             N == Next1(c, "place")
  <2>1. UNCHANGED <<job, pending, settled>> BY <1>6 DEF Claim
  <2>2. N \in CallRecord /\ N.kind = call[c].kind BY <1>t, NextOne
  <2>3. ASSUME NEW d \in Calls PROVE call'[d].kind = call[d].kind
    <3> DEFINE e == IF d = c THEN N ELSE call[d]
    <3>1. \/ call'[d] = [e EXCEPT !.lost = @ \cup {s}]
          \/ call'[d] = e
      BY <1>6, <1>t DEF Claim
    <3>2. e \in CallRecord /\ e.kind = call[d].kind BY <1>t, <2>2
    <3> HIDE DEF e
    <3> QED BY <3>1, <3>2 DEF CallRecord
  <2> QED BY <1>u, <2>1, <2>3, JobShape
<1>7. ASSUME NEW c \in Calls, Place(c) PROVE Calm
  <2>0. call[c].stage = "place" BY <1>7 DEF Place
  <2>j. PICK j \in Jobs : j = <<c, call[c].next>> BY <1>t, <2>0, JobShape
  <2>1. Ended(j)
    BY <1>f, <1>t, <2>0, <2>j DEF Started
  <2>2. job'[j].stage \in {"refused", "queue"} /\ \A i \in Jobs \ {j} : job'[i] = job[i]
    <3>1. /\ [Idle EXCEPT !.stage = "refused"].stage = "refused"
          /\ [Idle EXCEPT !.stage = "queue", !.requests = 1].stage = "queue"
      BY DEF Idle
    <3> QED BY <1>7, <1>t, <2>j, <3>1 DEF Place
  <2>3. call' = [call EXCEPT ![c] = Next1(c, "wait")] /\ UNCHANGED <<pending, settled>>
    BY <1>7 DEF Place
  <2>4. \A d \in Calls : call'[d].kind = call[d].kind BY <1>t, <2>3, NextOne
  <2>5. job[j].stage \notin AtWork /\ job'[j].stage \notin AtWork BY <1>w, <2>1, <2>2 DEF AtWork
  <2> QED BY <1>d, <2>2, <2>3, <2>4, <2>5, JobShape
<1>8. ASSUME NEW c \in Calls, Joined(c) PROVE Calm
  <2>1. /\ call' = [call EXCEPT ![c] = Gone("none")] /\ UNCHANGED <<job, pending, settled>>
        /\ \A i \in Jobs : i[1] = c => Ended(i)
    BY <1>8 DEF Joined, Flying, JobsOf
  <2>2. \A i \in Jobs : ~Ended(i) => call'[i[1]] = call[i[1]]
    BY <1>t, <2>1, JobShape
  <2> QED BY <1>u, <2>1, <2>2
\* A lookup puts out its next job.
<1>n. ASSUME NEW c \in Calls, NEW n, <<c, n>> \in Jobs => Ended(<<c, n>>),
             job' = [job EXCEPT ![<<c, n>>].stage = "queue"], UNCHANGED <<pending, settled>>,
             \A d \in Calls : call'[d].kind = call[d].kind
      PROVE  Calm
  <2>1. CASE <<c, n>> \in Jobs
    <3>j. PICK j \in Jobs : j = <<c, n>> BY <2>1
    <3>1. job'[j].stage = "queue" /\ \A i \in Jobs \ {j} : job'[i] = job[i]
      BY <1>n, <1>t, <3>j DEF JobRecord
    <3>2. job[j].stage \notin AtWork /\ job'[j].stage \notin AtWork BY <1>n, <1>w, <3>1, <3>j DEF AtWork
    <3> QED BY <1>d, <1>n, <3>1, <3>2, JobShape
  <2>2. CASE <<c, n>> \notin Jobs
    <3>1. job' = job BY <1>n, <1>t, <2>2
    <3> QED BY <1>n, <1>u, <3>1, JobShape
  <2> QED BY <2>1, <2>2
<1>9. ASSUME NEW c \in Calls, ClaimLookup(c) PROVE Calm
  <2>1. /\ call[c].stage = "stamped" /\ UNCHANGED <<pending, settled>>
        /\ job' = [job EXCEPT ![<<c, 1>>].stage = "queue"]
    BY <1>9 DEF ClaimLookup
  <2>2. <<c, 1>> \in Jobs => Ended(<<c, 1>>) BY <1>f, <2>1 DEF Started
  <2>3. ASSUME NEW d \in Calls PROVE call'[d].kind = call[d].kind
    <3>1. \/ call'[d] = [call[d] EXCEPT !.stage = "race", !.next = 2]
          \/ call'[d] = [call[d] EXCEPT !.ctx = "cancelled"]
          \/ call'[d] = call[d]
      BY <1>9 DEF ClaimLookup
    <3>2. call[d] \in CallRecord BY <1>t
    <3> QED BY <3>1, <3>2 DEF CallRecord
  <2> QED BY <1>n, <2>1, <2>2, <2>3
\* The next job of a lookup that still races is not out.
<1>r. ASSUME NEW c \in Calls, call[c].stage = "race", <<c, call[c].next>> \in Jobs
      PROVE  Ended(<<c, call[c].next>>)
  BY <1>f, <1>r, <1>t DEF Started
<1>10. ASSUME NEW c \in Calls, Tick(c) PROVE Calm
  <2>1. /\ call[c].stage = "race" /\ UNCHANGED <<pending, settled>>
        /\ job' = [job EXCEPT ![<<c, call[c].next>>].stage = "queue"]
        /\ call' = [call EXCEPT ![c].next = @ + 1]
    BY <1>10 DEF Tick
  <2>2. \A d \in Calls : call'[d].kind = call[d].kind BY <1>t, <2>1 DEF CallRecord
  <2> QED BY <1>n, <1>r, <2>1, <2>2
<1>g. ASSUME NEW c \in Calls, call[c].stage = "race", call' = [call EXCEPT ![c] = Gone("lookup")]
      PROVE  \A d \in Calls : call'[d].kind = call[d].kind
  BY <1>f, <1>g, <1>t, GoneRecord DEF KindOf
<1>11. ASSUME NEW c \in Calls, NEW j \in JobsOf(c), Receive(c, j) PROVE Calm
  <2>1. /\ j \in Jobs /\ job[j].stage = "judge" /\ call[c].stage = "race"
        /\ UNCHANGED <<pending, settled>>
    BY <1>11 DEF JobsOf, Receive, Return
  <2>2. \/ /\ job' = [job EXCEPT ![j] = Idle]
           /\ UNCHANGED call \/ call' = [call EXCEPT ![c] = Gone("lookup")]
        \/ /\ job' = [job EXCEPT ![j] = Idle, ![<<c, call[c].next>>].stage = "queue"]
           /\ call' = [call EXCEPT ![c].next = @ + 1]
    BY <1>11 DEF Receive, StartsNext, Return
  <2>3. \A d \in Calls : call'[d].kind = call[d].kind
    <3>1. CASE UNCHANGED call BY <3>1
    <3>2. CASE call' = [call EXCEPT ![c] = Gone("lookup")] BY <1>g, <2>1, <3>2
    <3>3. CASE call' = [call EXCEPT ![c].next = @ + 1] BY <1>t, <3>3 DEF CallRecord
    <3> QED BY <2>2, <3>1, <3>2, <3>3
  <2>4. CASE job' = [job EXCEPT ![j] = Idle]
    <3>1. job[j].stage \notin AtWork /\ job'[j].stage \notin AtWork BY <1>i, <1>t, <2>1, <2>4 DEF AtWork
    <3> QED BY <1>d, <1>t, <2>1, <2>3, <2>4, <3>1, JobShape
  <2>5. CASE job' = [job EXCEPT ![j] = Idle, ![<<c, call[c].next>>].stage = "queue"]
    <3> DEFINE k == <<c, call[c].next>>
               S == {j, k} \cap Jobs
    <3>1. \A i \in S : job[i].stage \notin AtWork
      BY <1>r, <1>w, <2>1 DEF AtWork
    <3>2. \A i \in S : job'[i].stage \in {"none", "queue"} BY <1>i, <1>t, <2>1, <2>5 DEF JobRecord
    <3>3. \A i \in S : job'[i].stage \notin AtWork BY <3>2 DEF AtWork
    <3>4. \A i \in Jobs \ S : job'[i] = job[i] BY <1>t, <2>1, <2>5
    <3>5. S \in SUBSET Jobs OBVIOUS
    <3> HIDE DEF S
    <3> QED BY <1>c, <2>1, <2>3, <3>1, <3>3, <3>4, <3>5, JobShape
  <2> QED BY <2>2, <2>4, <2>5
<1>12. ASSUME NEW c \in Calls, GivesUp(c) PROVE Calm
  <2>1. /\ call[c].stage = "race" /\ UNCHANGED <<job, pending, settled>>
        /\ call' = [call EXCEPT ![c] = Gone("lookup")]
    BY <1>12 DEF GivesUp, Return
  <2> QED BY <1>g, <1>u, <2>1, JobShape
<1>13. ASSUME NEW c \in Calls, Expire(c) PROVE Calm
  <2>1. UNCHANGED <<job, pending, settled>> /\ call' = [call EXCEPT ![c].ctx = "late"]
    BY <1>13 DEF Expire
  <2>2. \A d \in Calls : call'[d].kind = call[d].kind BY <1>t, <2>1 DEF CallRecord
  <2> QED BY <1>u, <2>1, <2>2, JobShape
<1>14. CASE BumpEpoch
  BY <1>14, <1>u DEF BumpEpoch
<1>15. CASE UNCHANGED slotsVars
  BY <1>15, <1>u DEF slotsVars
<1>16. ASSUME NEW c \in Calls, Works(c)
       PROVE  Calm \/ \E j \in Jobs : Request(j) /\ ~Ended(j)
  BY <1>2, <1>3, <1>6, <1>7, <1>8, <1>9, <1>10, <1>11, <1>12, <1>13, <1>16
     DEF Works, Calling, Jobbing, Flying, JobsOf
<1> QED BY <1>5, <1>14, <1>15, <1>16 DEF SlotsNext

LEMMA RouteNext ==
    SlotsTypeInv /\ FlightInv /\ RouteInv /\ [SlotsNext]_slotsVars
        => RouteInv'
<1> SUFFICES ASSUME SlotsTypeInv, FlightInv, RouteInv,
                    [SlotsNext]_slotsVars
             PROVE  RouteInv'
    OBVIOUS
<1> USE DEF claimed, conns, Untouched
<1>t. job \in [Jobs -> JobRecord]
  BY DEF SlotsTypeInv
<1>v. /\ pending \subseteq Jobs
      /\ \A i \in Jobs : /\ i \in pending <=> job[i].stage = "piped"
                         /\ job[i].stage = "open" => i \in settled
  BY DEF RouteInv
<1>1. CASE Calm
  BY <1>1, <1>v DEF Calm, RouteInv, AtWork
\* One job moves on, and its connection with it.
<1>2. ASSUME NEW j \in Jobs, NEW to \in JobStages, job'[j].stage = to,
             \A i \in Jobs \ {j} : job'[i] = job[i],
             pending' = IF to = "piped" THEN pending \cup {j} ELSE pending \ {j},
             settled \ {j} \subseteq settled', to = "open" => j \in settled'
      PROVE  RouteInv'
  BY <1>2, <1>v DEF RouteInv
<1>3. ASSUME NEW j \in Jobs, Request(j) PROVE RouteInv'
  <2>g. ASSUME NEW from, NEW to \in JobStages, Goto(j, from, to)
        PROVE  job[j].stage = from /\ job'[j].stage = to /\ \A i \in Jobs \ {j} : job'[i] = job[i]
    BY <1>t, <2>g DEF Goto, JobRecord
  <2>s. {"judge", "open", "piped", "test"} \subseteq JobStages
    BY DEF JobStages
  <2>1. CASE Missing(j) \/ NoSlot(j)
    <3>1. Goto(j, "queue", "judge") /\ pending' = pending /\ settled' = settled
      BY <2>1 DEF Missing, NoSlot
    <3>2. job[j].stage = "queue" BY <3>1 DEF Goto
    <3>3. pending' = pending \ {j} BY <1>v, <3>1, <3>2
    <3> QED BY <1>2, <2>g, <2>s, <3>1, <3>3
  <2>2. CASE DialProxy(j)
    <3>1. Goto(j, "queue", "open") /\ pending' = pending /\ settled' = settled \cup {j}
      BY <2>2 DEF DialProxy, GetSlot
    <3>2. job[j].stage = "queue" BY <3>1 DEF Goto
    <3>3. pending' = pending \ {j} BY <1>v, <3>1, <3>2
    <3> QED BY <1>2, <2>g, <2>s, <3>1, <3>3
  <2>3. CASE DialTunnel(j)
    <3>1. Goto(j, "queue", "piped") /\ pending' = pending \cup {j} /\ settled' = settled
      BY <2>3 DEF DialTunnel, GetSlot, Stored
    <3> QED BY <1>2, <2>g, <2>s, <3>1
  <2>4. CASE TestDelay(j)
    <3>1. Goto(j, "queue", "test") /\ pending' = pending /\ settled' = settled
      BY <2>4 DEF TestDelay, GetSlot
    <3>2. job[j].stage = "queue" BY <3>1 DEF Goto
    <3>3. pending' = pending \ {j} BY <1>v, <3>1, <3>2
    <3> QED BY <1>2, <2>g, <2>s, <3>1, <3>3
  <2>5. CASE Track(j)
    <3>1. Goto(j, "piped", "open") /\ pending' = pending \ {j}
      BY <2>5 DEF Track
    <3>2. j \in pending BY <1>v, <3>1 DEF Goto
    <3>3. settled' = settled \cup {j} BY <2>5, <3>2 DEF Track
    <3> QED BY <1>2, <2>g, <2>s, <3>1, <3>3
  <2>6. ASSUME NEW usable, Ends(j, usable) PROVE RouteInv'
    <3>1. pending' = pending \ {j} /\ settled' = settled \ {j}
      BY <2>6 DEF Ends, Closed
    <3>2. job'[j].stage = "judge" /\ \A i \in Jobs \ {j} : job'[i] = job[i]
      <4> DEFINE u == usable /\ call[j[1]].stage = "race"
      <4>1. job' = [job EXCEPT ![j].stage = "judge", ![j].usable = u] BY <2>6 DEF Ends
      <4> HIDE DEF u
      <4> QED BY <1>t, <4>1 DEF JobRecord
    <3> QED BY <1>2, <2>s, <3>1, <3>2
  <2> QED BY <1>3, <2>1, <2>2, <2>3, <2>4, <2>5, <2>6 DEF Request, Answered, Fails
<1> QED BY <1>1, <1>3, CalmSteps

LEMMA SlotsInvariant ==
    SlotsSpec => [](SlotsTypeInv /\ FlightInv)
<1>1. SlotsInit => SlotsTypeInv /\ FlightInv
  BY SlotsTypeInit, FlightInit
<1>2. SlotsTypeInv /\ FlightInv /\ [SlotsNext]_slotsVars => (SlotsTypeInv /\ FlightInv)'
  BY SlotsTypeNext, FlightNext
<1> QED BY <1>1, <1>2, PTL DEF SlotsSpec

\* A connection that relays has its route, and none that closed waits for one:
\* the wait is put down with the dial and taken away by the tunnel or the close.
THEOREM RoutesSettleHolds == SlotsSpec => []RoutesSettle
<1>1. SlotsInit => RouteInv
  BY DEF SlotsInit, Idle, RouteInv
<1>2. SlotsTypeInv /\ FlightInv /\ RouteInv /\ [SlotsNext]_slotsVars => RouteInv'
  BY RouteNext
<1>3. RouteInv => RoutesSettle
  BY DEF RouteInv, RoutesSettle
<1> QED BY <1>1, <1>2, <1>3, SlotsInvariant, PTL DEF SlotsSpec

\* A step that is no request of a job: a check is granted its slot once, and
\* gives back only one it was granted.
Grants ==
    \/ UNCHANGED <<granted, taken>>
    \/ \E j \in Jobs \ granted : granted' = granted \cup {j} /\ Acquire("check")
    \/ \E j \in granted : granted' = granted \ {j} /\ Release("check")

LEMMA GrantSteps ==
    ASSUME SlotsTypeInv, FlightInv, [SlotsNext]_slotsVars
    PROVE  Grants \/ \E j \in Jobs : Request(j) /\ ~Ended(j)
<1> USE DEF claimed, conns, Untouched
<1>t. \A c \in Calls : /\ call[c].stage \in {"claim", "place"} =>
                            call[c].asks \in Asks /\ call[c].next \in DOMAIN call[c].asks
                       /\ call[c].next \in Nat
  BY DEF SlotsTypeInv, CallRecord
<1>f. /\ \A j \in Jobs : ~Ended(j) => Started(j)
      /\ \A j \in granted : ~Ended(j)
  BY DEF FlightInv
<1>1. ASSUME NEW c \in Calls, Place(c) PROVE Grants
  <2>0. call[c].stage = "place" BY <1>1 DEF Place
  <2>j. PICK j \in Jobs : j = <<c, call[c].next>> BY <1>t, <2>0, JobShape
  <2>1. j \notin granted
    BY <1>f, <1>t, <2>0, <2>j DEF Started
  <2>2. \/ UNCHANGED <<granted, taken>>
        \/ Acquire("check") /\ granted' = granted \cup {j}
    BY <1>1, <2>j DEF Place
  <2> QED BY <2>1, <2>2 DEF Grants
<1>2. ASSUME NEW j \in Jobs, Check(j) PROVE Grants
  BY <1>2 DEF Check, GivesBack, Grants
<1>3. CASE UNCHANGED <<granted, taken>>
  BY <1>3 DEF Grants
<1>4. ASSUME NEW c \in Calls, Works(c)
      PROVE  Grants \/ \E j \in Jobs : Request(j) /\ ~Ended(j)
  <2>1. CASE Calling(c) \/ Expire(c)
    BY <1>1, <1>3, <2>1
       DEF Calling, Claim, Joined, ClaimLookup, Tick, GivesUp,
           Receive, Return, Expire
  <2>2. ASSUME NEW j \in Flying(c), Jobbing(j)
        PROVE  Grants \/ \E i \in Jobs : Request(i) /\ ~Ended(i)
    BY <1>2, <1>3, <2>2 DEF Flying, JobsOf, Jobbing, One, Unread
  <2> QED BY <1>4, <2>1, <2>2 DEF Works
<1> QED BY <1>3, <1>4 DEF SlotsNext, Ask, BumpEpoch, slotsVars

LEMMA CountNext ==
    SlotsTypeInv /\ FlightInv /\ CountInv /\ [SlotsNext]_slotsVars
        => CountInv'
<1> SUFFICES ASSUME SlotsTypeInv, FlightInv, CountInv,
                    [SlotsNext]_slotsVars
             PROVE  CountInv'
    OBVIOUS
<1> USE DEF claimed, conns, Untouched
<1> DEFINE H(p) == Holders(p)
           C(p) == IsFiniteSet(H(p)) /\ taken[p] = Cardinality(H(p)) /\ taken[p] <= Size[p]
<1>t. /\ job \in [Jobs -> JobRecord] /\ granted \subseteq Jobs
      /\ taken \in [Pools -> Nat]
  BY DEF SlotsTypeInv
<1>p. Pools = {"probe", "check", "delay"} /\ Size \in [Pools -> Nat]
  BY SlotsAssumption DEF Pools
<1>c. \A p \in Pools : C(p)
  BY DEF CountInv
<1>h. /\ H("check") = granted /\ H("check")' = granted'
      /\ \A p \in {"probe", "delay"} :
             /\ H(p) = {i \in Jobs : PoolOf(i) = p /\ job[i].stage \in AtWork}
             /\ H(p)' = {i \in Jobs : (PoolOf(i) = p)' /\ job'[i].stage \in AtWork}
  <2>1. H("check") = granted BY <1>t DEF Holders
  <2>2. H("check")' = granted'
    <3>1. granted' \subseteq Jobs BY SlotsTypeNext DEF SlotsTypeInv
    <3> QED BY <3>1 DEF Holders
  <2> QED BY <2>1, <2>2 DEF Holders, AtWork
\* A pool keeps, gains or loses one that holds a slot.
<1>s. ASSUME NEW p \in Pools, H(p)' = H(p), taken'[p] = taken[p] PROVE C(p)'
  BY <1>c, <1>s
<1>a. ASSUME NEW p \in Pools, NEW j, j \notin H(p), H(p)' = H(p) \cup {j}, Acquire(p)
      PROVE  C(p)'
  <2>1. taken'[p] = taken[p] + 1 /\ taken[p] < Size[p] /\ taken[p] \in Nat /\ Size[p] \in Nat
    BY <1>a, <1>p, <1>t DEF Acquire
  <2>2. C(p) BY <1>c
  <2> HIDE DEF H
  <2>3. IsFiniteSet(H(p) \cup {j}) /\ Cardinality(H(p) \cup {j}) = Cardinality(H(p)) + 1
    BY <1>a, <2>2, FS_AddElement
  <2> QED BY <1>a, <2>1, <2>2, <2>3
<1>r. ASSUME NEW p \in Pools, NEW j, j \in H(p), H(p)' = H(p) \ {j}, Release(p)
      PROVE  C(p)'
  <2>1. taken'[p] = taken[p] - 1 /\ taken[p] \in Nat /\ Size[p] \in Nat
    BY <1>p, <1>r, <1>t DEF Release
  <2>2. C(p) BY <1>c
  <2> HIDE DEF H
  <2>3. IsFiniteSet(H(p) \ {j}) /\ Cardinality(H(p) \ {j}) = Cardinality(H(p)) - 1
    BY <1>r, <2>2, FS_RemoveElement
  <2> QED BY <1>r, <2>1, <2>2, <2>3
<1>o. ASSUME NEW p \in Pools, Acquire(p) \/ Release(p)
      PROVE  \A q \in Pools \ {p} : taken'[q] = taken[q]
  BY <1>o, <1>t DEF Acquire, Release
<1>1. CASE Calm /\ Grants
  <2>1. ASSUME NEW p \in {"probe", "delay"} PROVE C(p)'
    <3>0. \A i \in Jobs : (PoolOf(i) = p)' /\ job'[i].stage \in AtWork
                                <=> PoolOf(i) = p /\ job[i].stage \in AtWork
      BY <1>1 DEF Calm, PoolOf
    <3>1. H(p)' = H(p) BY <1>h, <3>0
    <3>2. taken'[p] = taken[p] BY <1>1, <1>o, <1>p DEF Grants
    <3> QED BY <1>p, <1>s, <3>1, <3>2
  <2>2. C("check")'
    BY <1>1, <1>a, <1>h, <1>p, <1>r, <1>s DEF Grants
  <2> HIDE DEF C
  <2>3. \A p \in Pools : C(p)' BY <1>p, <2>1, <2>2
  <2> QED BY <2>3 DEF C, CountInv
<1>2. ASSUME NEW j \in Jobs, Request(j) PROVE CountInv'
  <2>q. PICK q \in {"probe", "delay"} : q = PoolOf(j) /\ q \in Pools
    BY <1>p DEF PoolOf
  <2>u. UNCHANGED <<call, granted>> /\ \A i \in Jobs \ {j} : job'[i] = job[i]
    BY <1>2, <1>t DEF Request, Missing, NoSlot, DialProxy, DialTunnel,
                      TestDelay, Track, Answered, Fails, Ends,
                      GetSlot, Goto
  <2>k. ASSUME NEW p \in Pools \ {q}, taken'[p] = taken[p] PROVE C(p)'
    <3>1. CASE p = "check" BY <1>h, <1>s, <2>k, <2>u, <3>1
    <3>2. CASE p # "check"
      <4>1. \A i \in Jobs : (PoolOf(i) = p)' /\ job'[i].stage \in AtWork
                                  <=> PoolOf(i) = p /\ job[i].stage \in AtWork
        BY <2>k, <2>q, <2>u DEF PoolOf
      <4>2. p \in {"probe", "delay"} BY <1>p, <3>2
      <4>3. H(p)' = H(p) BY <1>h, <4>1, <4>2
      <4> QED BY <1>s, <2>k, <4>3
    <3> QED BY <3>1, <3>2
  <2>c. ASSUME C(q)', \A p \in Pools \ {q} : C(p)' PROVE CountInv'
    <3> HIDE DEF C
    <3>1. \A p \in Pools : C(p)' BY <2>c
    <3> QED BY <3>1 DEF C, CountInv
  <2>1. CASE /\ taken' = taken
             /\ job[j].stage \in AtWork <=> job'[j].stage \in AtWork
    <3>0. \A i \in Jobs : (PoolOf(i) = q)' /\ job'[i].stage \in AtWork
                                <=> PoolOf(i) = q /\ job[i].stage \in AtWork
      BY <2>1, <2>u DEF PoolOf
    <3>1. H(q)' = H(q) BY <1>h, <3>0
    <3>2. C(q)' BY <1>s, <2>1, <2>q, <3>1
    <3>3. \A p \in Pools \ {q} : C(p)' BY <2>1, <2>k
    <3> QED BY <2>c, <3>2, <3>3
  <2>2. CASE Acquire(q) /\ job[j].stage \notin AtWork /\ job'[j].stage \in AtWork
    <3>1. j \notin H(q) /\ H(q)' = H(q) \cup {j} BY <1>h, <2>2, <2>q, <2>u DEF PoolOf
    <3>2. C(q)' BY <1>a, <2>2, <2>q, <3>1
    <3>3. \A p \in Pools \ {q} : C(p)' BY <1>o, <2>2, <2>k, <2>q
    <3> QED BY <2>c, <3>2, <3>3
  <2>3. CASE Release(q) /\ job[j].stage \in AtWork /\ job'[j].stage \notin AtWork
    <3>1. j \in H(q) /\ H(q)' = H(q) \ {j} BY <1>h, <2>3, <2>q, <2>u DEF PoolOf
    <3>2. C(q)' BY <1>r, <2>3, <2>q, <3>1
    <3>3. \A p \in Pools \ {q} : C(p)' BY <1>o, <2>3, <2>k, <2>q
    <3> QED BY <2>c, <3>2, <3>3
  <2>4. CASE Missing(j) \/ NoSlot(j) \/ Track(j)
    BY <1>t, <2>1, <2>4 DEF Missing, NoSlot, Track, Goto, AtWork, JobRecord
  <2>5. ASSUME NEW next \in AtWork, GetSlot(j, next) PROVE CountInv'
    BY <1>t, <2>2, <2>5, <2>q DEF GetSlot, Goto, AtWork, JobRecord
  <2>6. ASSUME NEW usable, Ends(j, usable), job[j].stage \in AtWork PROVE CountInv'
    <3>1. job'[j].stage = "judge"
      <4> DEFINE u == usable /\ call[j[1]].stage = "race"
      <4>1. job' = [job EXCEPT ![j].stage = "judge", ![j].usable = u] BY <2>6 DEF Ends
      <4> HIDE DEF u
      <4> QED BY <1>t, <4>1 DEF JobRecord
    <3> QED BY <2>3, <2>6, <2>q, <3>1 DEF Ends, AtWork
  <2> QED BY <1>2, <2>4, <2>5, <2>6
          DEF Request, DialProxy, DialTunnel, TestDelay, Answered,
              Fails, AtWork
<1> QED BY <1>1, <1>2, CalmSteps, GrantSteps

\* No more work than slots, whoever is refused, cancelled or late, and none is
\* lost: every slot that is taken has one job that will give it back.
THEOREM SlotsOwnedHolds == SlotsSpec => []SlotsOwned
<1>1. SlotsInit => CountInv
  <2> SUFFICES ASSUME SlotsInit, NEW p \in Pools
               PROVE  /\ IsFiniteSet(Holders(p))
                      /\ taken[p] = Cardinality(Holders(p))
                      /\ taken[p] <= Size[p]
      BY DEF CountInv
  <2>1. Holders(p) = {}
    BY DEF SlotsInit, Idle, Holders
  <2>2. taken[p] = 0 /\ Size[p] \in Nat BY SlotsAssumption DEF SlotsInit
  <2> QED BY <2>1, <2>2, FS_EmptySet
<1>2. SlotsTypeInv /\ FlightInv /\ CountInv /\ [SlotsNext]_slotsVars => CountInv'
  BY CountNext
<1>3. CountInv => SlotsOwned
  BY DEF CountInv, SlotsOwned
<1> QED BY <1>1, <1>2, <1>3, SlotsInvariant, PTL DEF SlotsSpec

LEMMA SourcesNext ==
    SlotsTypeInv /\ FlightInv /\ SourcesAsked
        /\ [SlotsNext]_slotsVars => SourcesAsked'
<1> SUFFICES ASSUME SlotsTypeInv, FlightInv, SourcesAsked,
                    [SlotsNext]_slotsVars
             PROVE  SourcesAsked'
    OBVIOUS
<1> USE DEF claimed, conns, Untouched
<1>t. /\ call \in [Calls -> CallRecord]
      /\ job \in [Jobs -> JobRecord]
      /\ \A c \in Calls : call[c] \in CallRecord /\ call[c].next \in Nat \ {0}
  BY DEF SlotsTypeInv, CallRecord
<1>f. \A c \in Calls : KindOf(c)
  BY DEF FlightInv
<1>v. \A c \in Calls : call[c].stage = "race" /\ call[c].ctx = "live"
                       /\ (\A i \in Jobs : i[1] = c => Ended(i)) => call[c].next > Sources
  BY DEF SourcesAsked, Flying, JobsOf
<1>i. Idle.stage = "none"
  BY DEF Idle
<1> DEFINE Same(d) == /\ call'[d].stage = call[d].stage /\ call'[d].next = call[d].next
                      /\ call'[d].ctx = "live" => call[d].ctx = "live"
                      /\ \A i \in Jobs : i[1] = d => (Ended(i)' => Ended(i))
           Out(d) == \E i \in Jobs : i[1] = d /\ ~Ended(i)'
\* A call that races goes on as it was, or has a job out.
<1>k. ASSUME \A d \in Calls : Same(d) \/ call'[d].stage # "race" \/ Out(d) PROVE SourcesAsked'
  <2> SUFFICES ASSUME NEW d \in Calls, call'[d].stage = "race", call'[d].ctx = "live",
                      \A i \in Jobs : i[1] = d => Ended(i)'
               PROVE  call'[d].next > Sources
      BY DEF SourcesAsked, Flying, JobsOf
  <2>1. Same(d) BY <1>k
  <2> QED BY <1>v, <2>1
\* The jobs of one call change, and the others stay.
<1>c. ASSUME NEW c \in Calls, \A d \in Calls \ {c} : call'[d] = call[d],
             \A i \in Jobs : i[1] # c => job'[i] = job[i],
             Same(c) \/ call'[c].stage # "race" \/ Out(c)
      PROVE  SourcesAsked'
  <2>1. ASSUME NEW d \in Calls \ {c} PROVE Same(d)
    BY <1>c, <2>1 DEF Ended
  <2> HIDE DEF Same, Out
  <2> QED BY <1>c, <1>k, <2>1
<1>1. ASSUME NEW j \in Jobs, Request(j) PROVE SourcesAsked'
  <2>1. UNCHANGED call /\ \A i \in Jobs \ {j} : job'[i] = job[i]
    BY <1>1, <1>t DEF Request, Missing, NoSlot, DialProxy, DialTunnel,
                      TestDelay, Track, Answered, Fails, Ends,
                      GetSlot, Goto
  <2>2. job'[j].stage # "none"
    <3>1. CASE \E to \in {"judge", "open", "piped", "test"} : job' = [job EXCEPT ![j].stage = to]
      BY <1>t, <3>1 DEF JobRecord
    <3>2. ASSUME NEW usable, Ends(j, usable) PROVE job'[j].stage # "none"
      <4> DEFINE u == usable /\ call[j[1]].stage = "race"
      <4>1. job' = [job EXCEPT ![j].stage = "judge", ![j].usable = u] BY <3>2 DEF Ends
      <4> HIDE DEF u
      <4> QED BY <1>t, <4>1 DEF JobRecord
    <3> QED BY <1>1, <3>1, <3>2
            DEF Request, Missing, NoSlot, DialProxy, DialTunnel,
                TestDelay, Track, Answered, Fails, GetSlot, Goto
  <2>3. \A i \in Jobs : Ended(i)' => Ended(i)
    BY <2>1, <2>2 DEF Ended
  <2> QED BY <1>k, <2>1, <2>3
<1>2. ASSUME NEW j \in Jobs, One(j) PROVE SourcesAsked'
  <2> DEFINE c == j[1]
  <2>1. /\ c \in Calls /\ job' = [job EXCEPT ![j] = Idle]
        /\ call' = [call EXCEPT ![c] = Gone("none")]
    BY <1>2, JobShape DEF One
  <2>2. call'[c].stage # "race" BY <1>t, <2>1, GoneRecord
  <2>3. \A i \in Jobs : i[1] # c => job'[i] = job[i] BY <1>t, <2>1
  <2>4. \A d \in Calls \ {c} : call'[d] = call[d] BY <1>t, <2>1
  <2> QED BY <1>c, <2>1, <2>2, <2>3, <2>4
<1>3. ASSUME NEW j \in Jobs, Check(j) \/ Unread(j) PROVE SourcesAsked'
  <2> DEFINE c == j[1]
  <2>1. c \in Calls /\ UNCHANGED call BY <1>3, JobShape DEF Check, Unread
  <2>2. call'[c].stage # "race" BY <1>3, <1>f, <2>1 DEF Check, Unread, KindOf
  <2>3. \A i \in Jobs : i[1] # c => job'[i] = job[i]
    BY <1>3, <1>t DEF Check, Unread
  <2> QED BY <1>c, <2>1, <2>2, <2>3
<1>5. ASSUME NEW c \in Calls, NEW kind, NEW stage \in {"one", "claim", "stamped"}, NEW asks,
             Ask(c, kind, stage, asks)
      PROVE  SourcesAsked'
  <2>1. call' = [call EXCEPT ![c] = Fresh(kind, stage, asks)] BY <1>5 DEF Ask
  <2>2. call'[c].stage # "race" BY <1>t, <2>1 DEF Fresh
  <2>3. \A i \in Jobs : i[1] # c => job'[i] = job[i] BY <1>5 DEF Ask
  <2>4. \A d \in Calls \ {c} : call'[d] = call[d] BY <1>t, <2>1
  <2> QED BY <1>c, <2>2, <2>3, <2>4
<1>6. ASSUME NEW c \in Calls, Claim(c) PROVE SourcesAsked'
  <2> DEFINE s == call[c].asks[call[c].next]
             N == Next1(c, "place")
  <2>1. call[c].stage = "claim" /\ UNCHANGED job BY <1>6 DEF Claim
  <2>2. N \in CallRecord /\ N.stage \in {"claim", "place"} BY <1>t, <2>1, NextOne
  <2>3. ASSUME NEW d \in Calls
        PROVE  LET e == IF d = c THEN N ELSE call[d]
               IN  call'[d].ctx = e.ctx /\ call'[d].stage = e.stage /\ call'[d].next = e.next
    <3> DEFINE e == IF d = c THEN N ELSE call[d]
    <3>1. \/ call'[d] = [e EXCEPT !.lost = @ \cup {s}]
          \/ call'[d] = e
      BY <1>6, <1>t DEF Claim
    <3>2. e \in CallRecord BY <1>t, <2>2
    <3> HIDE DEF e
    <3>3. call'[d].ctx = e.ctx /\ call'[d].stage = e.stage /\ call'[d].next = e.next
      BY <3>1, <3>2 DEF CallRecord
    <3> QED BY <3>3 DEF e
  <2> HIDE DEF N
  <2>4. call'[c].stage # "race" BY <2>2, <2>3
  <2>5. \A i \in Jobs : Ended(i)' => Ended(i) BY <2>1 DEF Ended
  <2>6. ASSUME NEW d \in Calls \ {c} PROVE Same(d) BY <2>3, <2>5
  <2> HIDE DEF Same, Out
  <2> QED BY <1>k, <2>4, <2>6
<1>7. ASSUME NEW c \in Calls, Place(c) PROVE SourcesAsked'
  <2>1. call[c].stage = "place" /\ call' = [call EXCEPT ![c] = Next1(c, "wait")]
    BY <1>7 DEF Place
  <2>2. call'[c].stage # "race" BY <1>t, <2>1, NextOne
  <2>3. \A i \in Jobs : i[1] # c => job'[i] = job[i] BY <1>7, <1>t DEF Place
  <2>4. \A d \in Calls \ {c} : call'[d] = call[d] BY <1>t, <2>1
  <2> QED BY <1>c, <2>2, <2>3, <2>4
\* A call returns.
<1>g. ASSUME NEW c \in Calls, NEW kind, call' = [call EXCEPT ![c] = Gone(kind)],
             \A i \in Jobs : i[1] # c => job'[i] = job[i]
      PROVE  SourcesAsked'
  <2>1. call'[c].stage # "race" BY <1>g, <1>t, GoneRecord
  <2>2. \A d \in Calls \ {c} : call'[d] = call[d] BY <1>g, <1>t
  <2> QED BY <1>c, <1>g, <2>1, <2>2
<1>8. ASSUME NEW c \in Calls, Joined(c) PROVE SourcesAsked'
  BY <1>8, <1>g DEF Joined
<1>9. ASSUME NEW c \in Calls, ClaimLookup(c) PROVE SourcesAsked'
  <2>1. job' = [job EXCEPT ![<<c, 1>>].stage = "queue"]
    BY <1>9 DEF ClaimLookup
  <2>j. PICK j \in Jobs : j = <<c, 1>> BY JobShape
  <2>2. job'[j].stage = "queue" /\ \A i \in Jobs \ {j} : job'[i] = job[i]
    BY <1>t, <2>1, <2>j DEF JobRecord
  <2>3. Out(c) BY <2>2, <2>j DEF Ended
  <2>4. \A i \in Jobs : Ended(i)' => Ended(i) BY <2>2 DEF Ended
  <2>5. ASSUME NEW d \in Calls \ {c} PROVE Same(d)
    <3>1. call'[d] = [call[d] EXCEPT !.ctx = "cancelled"] \/ call'[d] = call[d]
      BY <1>9 DEF ClaimLookup
    <3>2. call[d] \in CallRecord BY <1>t
    <3>3. /\ call'[d].stage = call[d].stage /\ call'[d].next = call[d].next
          /\ call'[d].ctx = "live" => call[d].ctx = "live"
      BY <3>1, <3>2 DEF CallRecord
    <3> QED BY <2>4, <3>3
  <2> HIDE DEF Same, Out
  <2> QED BY <1>k, <2>3, <2>5
<1>10. ASSUME NEW c \in Calls, Tick(c) PROVE SourcesAsked'
  <2>1. /\ call[c].next <= Sources /\ call' = [call EXCEPT ![c].next = @ + 1]
        /\ job' = [job EXCEPT ![<<c, call[c].next>>].stage = "queue"]
    BY <1>10 DEF Tick, MayStart
  <2>2. call[c].next \in 1..Sources BY <1>t, <2>1, SlotsAssumption
  <2>j. PICK j \in Jobs : j = <<c, call[c].next>> BY <2>2, JobShape
  <2>3. job'[j].stage = "queue" /\ \A i \in Jobs \ {j} : job'[i] = job[i]
    BY <1>t, <2>1, <2>j DEF JobRecord
  <2>4. Out(c) BY <2>3, <2>j DEF Ended
  <2>5. \A i \in Jobs : i[1] # c => job'[i] = job[i] BY <2>3, <2>j
  <2>6. \A d \in Calls \ {c} : call'[d] = call[d] BY <1>t, <2>1
  <2> HIDE DEF Same, Out
  <2> QED BY <1>c, <2>4, <2>5, <2>6
<1>11. ASSUME NEW c \in Calls, NEW j \in JobsOf(c), Receive(c, j)
       PROVE  SourcesAsked'
  <2>1. j \in Jobs /\ j[1] = c /\ job[j].stage = "judge"
    BY <1>11 DEF JobsOf, Receive
  <2>2. CASE Return(c) /\ job' = [job EXCEPT ![j] = Idle]
    <3>1. \A i \in Jobs : i[1] # c => job'[i] = job[i] BY <1>t, <2>1, <2>2
    <3> QED BY <1>g, <2>2, <3>1 DEF Return
  <2>3. CASE StartsNext(c, j)
    <3>1. CASE MayStart(c, Cardinality(Flying(c)) - 1)
      <4>1. /\ call[c].next <= Sources /\ call' = [call EXCEPT ![c].next = @ + 1]
            /\ job' = [job EXCEPT ![j] = Idle, ![<<c, call[c].next>>].stage = "queue"]
        BY <2>3, <3>1 DEF StartsNext, MayStart
      <4>2. call[c].next \in 1..Sources BY <1>t, <4>1, SlotsAssumption
      <4>k. PICK k \in Jobs : k = <<c, call[c].next>> BY <4>2, JobShape
      <4>3. job'[k].stage = "queue"
        <5> DEFINE g == [job EXCEPT ![j] = Idle]
        <5>1. Idle \in JobRecord BY DEF Idle, JobRecord, JobStages
        <5>2. g \in [Jobs -> JobRecord] BY <1>t, <5>1
        <5>3. job' = [g EXCEPT ![k].stage = "queue"] BY <4>1, <4>k
        <5> HIDE DEF g
        <5> QED BY <5>2, <5>3 DEF JobRecord
      <4>4. Out(c) BY <4>3, <4>k DEF Ended
      <4>5. \A i \in Jobs : i[1] # c => job'[i] = job[i] BY <1>t, <2>1, <4>1, <4>k
      <4>6. \A d \in Calls \ {c} : call'[d] = call[d] BY <1>t, <4>1
      <4> HIDE DEF Same, Out
      <4> QED BY <1>c, <4>4, <4>5, <4>6
    <3>2. CASE ~MayStart(c, Cardinality(Flying(c)) - 1)
      <4>1. job' = [job EXCEPT ![j] = Idle] /\ UNCHANGED call
        BY <2>3, <3>2 DEF StartsNext
      <4>2. CASE Flying(c) = {j}
        <5>1. Cardinality(Flying(c)) = 1 BY <4>2, FS_Singleton
        <5>2. call[c].next > Sources
          BY <1>t, <3>2, <5>1, SlotsAssumption DEF MayStart
        <5> SUFFICES ASSUME NEW d \in Calls, call'[d].stage = "race", call'[d].ctx = "live",
                            \A i \in Jobs : i[1] = d => Ended(i)'
                     PROVE  call'[d].next > Sources
            BY DEF SourcesAsked, Flying, JobsOf
        <5>3. CASE d = c BY <4>1, <5>2, <5>3
        <5>4. CASE d # c BY <1>t, <1>v, <2>1, <4>1, <5>4 DEF Ended
        <5> QED BY <5>3, <5>4
      <4>3. CASE Flying(c) # {j}
        <5>1. j \in Flying(c) BY <2>1 DEF Flying, JobsOf, Ended
        <5>2. PICK i \in Flying(c) : i # j BY <4>3, <5>1
        <5>3. i \in Jobs /\ i[1] = c /\ ~Ended(i)'
          BY <1>t, <4>1, <5>2 DEF Flying, JobsOf, Ended
        <5>4. Out(c) BY <5>3
        <5>5. \A h \in Jobs : h[1] # c => job'[h] = job[h] BY <1>t, <2>1, <4>1
        <5> HIDE DEF Same, Out
        <5> QED BY <1>c, <4>1, <5>4, <5>5
      <4> QED BY <4>2, <4>3
    <3> QED BY <3>1, <3>2
  <2> QED BY <1>11, <2>2, <2>3 DEF Receive
<1>12. ASSUME NEW c \in Calls, GivesUp(c) PROVE SourcesAsked'
  BY <1>12, <1>g DEF GivesUp, Return
<1>u. ASSUME \/ UNCHANGED call
             \/ \E c \in Calls : call' = [call EXCEPT ![c].ctx = "late"],
             UNCHANGED job
      PROVE  SourcesAsked'
  <2>1. \A i \in Jobs : Ended(i)' => Ended(i) BY <1>u DEF Ended
  <2>2. ASSUME NEW d \in Calls
        PROVE  /\ call'[d].stage = call[d].stage /\ call'[d].next = call[d].next
               /\ call'[d].ctx = "live" => call[d].ctx = "live"
    <3>1. call[d] \in CallRecord BY <1>t
    <3>2. call'[d] = [call[d] EXCEPT !.ctx = "late"] \/ call'[d] = call[d] BY <1>t, <1>u
    <3> QED BY <3>1, <3>2 DEF CallRecord
  <2> QED BY <1>k, <2>1, <2>2
<1>13. ASSUME NEW c \in Calls, Expire(c) PROVE SourcesAsked'
  BY <1>13, <1>u DEF Expire
<1>14. CASE BumpEpoch
  BY <1>14, <1>u DEF BumpEpoch
<1>15. CASE UNCHANGED slotsVars
  BY <1>15, <1>u DEF slotsVars
<1>16. ASSUME NEW c \in Calls, Works(c) PROVE SourcesAsked'
  BY <1>1, <1>2, <1>3, <1>6, <1>7, <1>8, <1>9, <1>10, <1>11, <1>12, <1>13, <1>16
     DEF Works, Calling, Jobbing, Flying, JobsOf
<1> QED BY <1>5, <1>14, <1>15, <1>16 DEF SlotsNext

\* A lookup is without an answer only when it asked every source or was out of
\* time: the last job that comes back empty puts out the next.
THEOREM SourcesAskedHolds == SlotsSpec => []SourcesAsked
<1>1. SlotsInit => SourcesAsked
  BY GoneRecord DEF SlotsInit, SourcesAsked
<1>2. SlotsTypeInv /\ FlightInv /\ SourcesAsked /\ [SlotsNext]_slotsVars
          => SourcesAsked'
  BY SourcesNext
<1> QED BY <1>1, <1>2, SlotsInvariant, PTL DEF SlotsSpec

LEMMA CauseNext ==
    SlotsTypeInv /\ FlightInv /\ CauseInv /\ [SlotsNext]_slotsVars
        => CauseInv'
<1> SUFFICES ASSUME SlotsTypeInv, FlightInv, CauseInv,
                    [SlotsNext]_slotsVars
             PROVE  CauseInv'
    OBVIOUS
<1> USE DEF claimed, conns, Untouched
<1>t. /\ call \in [Calls -> CallRecord] /\ epoch \in Nat
      /\ claims \in [Services -> Calls \cup {None}] /\ None \notin Calls
      /\ \A c \in Calls : call[c].stage \in {"claim", "place"} =>
             call[c].asks \in Asks /\ call[c].next \in DOMAIN call[c].asks
      /\ \A c \in Calls : call[c] \in CallRecord /\ call[c].next \in Nat \ {0}
                          /\ call[c].epoch \in Nat
  BY SlotsAssumption DEF SlotsTypeInv, CallRecord
<1>f. \A c \in Calls : KindOf(c)
  BY DEF FlightInv
<1>v. /\ \A c \in Calls : \A s \in Services : Cause(c, s)
      /\ \A c \in Calls : call[c].epoch <= epoch
                          /\ (call[c].ctx = "cancelled" => call[c].epoch < epoch)
  BY DEF CauseInv
\* A service is to a call what it was, or nothing.
<1> DEFINE Keeps(c, s) == /\ claims'[s] = c <=> claims[s] = c
                          /\ Asked(c, s)' <=> Asked(c, s)
                          /\ s \in call'[c].lost <=> s \in call[c].lost
                          /\ call'[c].ctx = "live" => call[c].ctx = "live"
           Blank(c, s) == ~Asked(c, s)' /\ s \notin call'[c].lost /\ claims'[s] # c
           Timely(c)   == /\ call'[c].epoch <= epoch'
                          /\ call'[c].ctx = "cancelled" => call'[c].epoch < epoch'
<1>k. ASSUME \A c \in Calls : Timely(c) /\ \A s \in Services : Keeps(c, s) \/ Blank(c, s)
      PROVE  CauseInv'
  <2>1. ASSUME NEW c \in Calls, NEW s \in Services PROVE Cause(c, s)'
    <3>1. CASE Keeps(c, s) BY <1>v, <3>1 DEF Cause
    <3>2. CASE Blank(c, s) BY <3>2 DEF Cause
    <3> QED BY <1>k, <3>1, <3>2
  <2> QED BY <1>k, <2>1 DEF CauseInv
\* Of a call that is no sweep nothing is claimed or lost.
<1>b. ASSUME NEW c \in Calls, call[c].kind # "sweep" PROVE \A s \in Services : claims[s] # c
  BY <1>b, <1>v DEF Cause, Asked
<1>o. ASSUME NEW c \in Calls, UNCHANGED epoch, call'[c] = call[c], \A s \in Services : claims'[s] = c <=> claims[s] = c
      PROVE  Timely(c) /\ \A s \in Services : Keeps(c, s)
  BY <1>o, <1>v DEF Asked
\* One call goes on, of which nothing is claimed then.
<1>c. ASSUME NEW c \in Calls, \A d \in Calls \ {c} : call'[d] = call[d], UNCHANGED epoch, Timely(c),
             \A s \in Services : (claims'[s] # c) /\ (claims[s] = c \/ claims'[s] = claims[s]),
             \A s \in Services : claims[s] = c => claims'[s] = None,
             call'[c].lost = {}, \A s \in Services : ~Asked(c, s)'
      PROVE  CauseInv'
  <2>1. ASSUME NEW d \in Calls \ {c} PROVE Timely(d) /\ \A s \in Services : Keeps(d, s)
    <3>1. \A s \in Services : claims'[s] = d <=> claims[s] = d BY <1>c, <1>t
    <3> HIDE DEF Keeps, Timely
    <3> QED BY <1>c, <1>o, <3>1
  <2>2. \A s \in Services : Blank(c, s) BY <1>c
  <2> HIDE DEF Keeps, Timely, Blank
  <2> QED BY <1>c, <1>k, <2>1, <2>2
<1>1. CASE UNCHANGED <<call, claims, epoch>>
  <2>1. \A c \in Calls : Timely(c) /\ \A s \in Services : Keeps(c, s) BY <1>1, <1>o
  <2> HIDE DEF Keeps, Timely, Blank
  <2> QED BY <1>k, <2>1
<1>g. ASSUME NEW c \in Calls, NEW kind \in {"none", "lookup"}, call' = [call EXCEPT ![c] = Gone(kind)],
             UNCHANGED epoch, \A s \in Services : claims'[s] = IF claims[s] = c THEN None ELSE claims[s]
      PROVE  CauseInv'
  <2>1. call'[c] = Gone(kind) /\ \A d \in Calls \ {c} : call'[d] = call[d] BY <1>g, <1>t
  <2>2. /\ call'[c].kind # "sweep" /\ call'[c].lost = {} /\ call'[c].epoch = 0 /\ call'[c].ctx = "over"
    BY <2>1, GoneRecord
  <2>3. Timely(c) BY <1>g, <1>t, <2>2
  <2>4. \A s \in Services : ~Asked(c, s)' BY <2>2 DEF Asked
  <2>5. /\ \A s \in Services : (claims'[s] # c) /\ (claims[s] = c \/ claims'[s] = claims[s])
        /\ \A s \in Services : claims[s] = c => claims'[s] = None
    BY <1>g, <1>t
  <2> HIDE DEF Timely
  <2> QED BY <1>c, <1>g, <2>1, <2>2, <2>3, <2>4, <2>5
<1>2. ASSUME NEW j \in Jobs, One(j) PROVE CauseInv'
  <2>1. /\ j[1] \in Calls /\ call[j[1]].stage = "one" /\ UNCHANGED <<claims, epoch>>
        /\ call' = [call EXCEPT ![j[1]] = Gone("none")]
    BY <1>2, JobShape DEF One
  <2>2. \A s \in Services : claims[s] # j[1] BY <1>b, <1>f, <2>1 DEF KindOf
  <2> QED BY <1>g, <2>1, <2>2
<1>3. ASSUME NEW c \in Calls, GivesUp(c) \/ Return(c), call[c].stage = "race" PROVE CauseInv'
  <2>1. /\ UNCHANGED <<claims, epoch>> /\ call' = [call EXCEPT ![c] = Gone("lookup")]
    BY <1>3 DEF GivesUp, Return
  <2>2. \A s \in Services : claims[s] # c BY <1>3, <1>b, <1>f DEF KindOf
  <2> QED BY <1>g, <2>1, <2>2
<1>4. ASSUME NEW c \in Calls, Joined(c) PROVE CauseInv'
  BY <1>4, <1>g DEF Joined, DropsOwn
<1>5. ASSUME NEW c \in Calls, NEW kind, NEW stage, NEW asks \in Asks \cup {<<>>},
             kind = "sweep" => stage = "claim" /\ asks \in Asks,
             Ask(c, kind, stage, asks)
      PROVE  CauseInv'
  <2>1. /\ call[c].stage = "idle" /\ UNCHANGED <<claims, epoch>>
        /\ call' = [call EXCEPT ![c] = Fresh(kind, stage, asks)]
    BY <1>5 DEF Ask
  <2>2. call'[c] = Fresh(kind, stage, asks) /\ \A d \in Calls \ {c} : call'[d] = call[d]
    BY <1>t, <2>1
  <2>3. /\ call'[c].kind = kind /\ call'[c].stage = stage /\ call'[c].asks = asks
        /\ call'[c].next = 1 /\ call'[c].lost = {} /\ call'[c].ctx = "live"
        /\ call'[c].epoch \in {0, epoch}
    BY <2>2 DEF Fresh
  <2>4. \A s \in Services : ~Asked(c, s)'
    BY <1>5, <2>3, JobShape DEF Asked
  <2>5. \A s \in Services : claims[s] # c BY <1>b, <1>f, <2>1 DEF KindOf
  <2>6. Timely(c) BY <1>t, <2>1, <2>3
  <2> HIDE DEF Timely
  <2> QED BY <1>c, <2>1, <2>2, <2>3, <2>4, <2>5, <2>6
<1>6. ASSUME NEW c \in Calls, Claim(c) PROVE CauseInv'
  <2> DEFINE s == call[c].asks[call[c].next]
             n == call[c].next
             N == Next1(c, "place")
  <2>0. call[c].stage = "claim" /\ UNCHANGED epoch BY <1>6 DEF Claim
  <2>1. /\ s \in Services /\ n \in DOMAIN call[c].asks /\ n \in Nat \ {0}
        /\ DOMAIN call[c].asks = 1..Len(call[c].asks) /\ Len(call[c].asks) \in Nat
    BY <1>t, <2>0, JobShape
  <2>2. call[c].kind = "sweep" BY <1>f, <2>0 DEF KindOf
  <2>3. /\ N \in CallRecord /\ N.kind = call[c].kind /\ N.asks = call[c].asks /\ N.ctx = call[c].ctx
        /\ N.epoch = call[c].epoch /\ N.lost = call[c].lost
        /\ IF n = Len(call[c].asks) THEN N.stage = "place" /\ N.next = 1
           ELSE N.stage = "claim" /\ N.next = n + 1
    BY <1>t, <2>0, NextOne
  <2> HIDE DEF N
  \* What c has asked for is one more.
  <2>4. ASSUME NEW u \in Services, call'[c].kind = N.kind, call'[c].asks = N.asks,
               call'[c].stage = N.stage, call'[c].next = N.next
        PROVE  Asked(c, u)' <=> Asked(c, u) \/ u = s
    <3>1. Asked(c, u) <=> \E k \in 1..Len(call[c].asks) : call[c].asks[k] = u /\ k < n
      BY <2>0, <2>1, <2>2 DEF Asked
    <3>2. Asked(c, u)' <=> \E k \in 1..Len(call[c].asks) : call[c].asks[k] = u /\ k < n + 1
      <4>1. CASE n = Len(call[c].asks) BY <2>1, <2>2, <2>3, <2>4, <4>1 DEF Asked
      <4>2. CASE n # Len(call[c].asks) BY <2>1, <2>2, <2>3, <2>4, <4>2 DEF Asked
      <4> QED BY <4>1, <4>2
    <3>3. \A k \in 1..Len(call[c].asks) : k < n + 1 <=> k < n \/ k = n BY <2>1
    <3> QED BY <2>1, <3>1, <3>2, <3>3
  <2>5. CASE FirstOf(c)
    <3>1. claims' = [claims EXCEPT ![s] = c] BY <1>6, <2>5 DEF Claim
    <3>2. ASSUME NEW d \in Calls
          PROVE  LET e == IF d = c THEN N ELSE call[d] IN
                 /\ call'[d].kind = e.kind /\ call'[d].asks = e.asks /\ call'[d].ctx = e.ctx
                 /\ call'[d].epoch = e.epoch /\ call'[d].stage = e.stage /\ call'[d].next = e.next
                 /\ call'[d].lost = IF d = claims[s] THEN e.lost \cup {s} ELSE e.lost
      <4> DEFINE e == IF d = c THEN N ELSE call[d]
      <4>1. call'[d] = IF d = claims[s] THEN [e EXCEPT !.lost = @ \cup {s}] ELSE e
        BY <1>6, <2>5 DEF Claim, N
      <4>2. e \in CallRecord BY <1>t, <2>3
      <4> HIDE DEF e
      <4>3. /\ call'[d].kind = e.kind /\ call'[d].asks = e.asks /\ call'[d].ctx = e.ctx
            /\ call'[d].epoch = e.epoch /\ call'[d].stage = e.stage /\ call'[d].next = e.next
            /\ call'[d].lost = IF d = claims[s] THEN e.lost \cup {s} ELSE e.lost
        BY <4>1, <4>2 DEF CallRecord
      <4> QED BY <4>3 DEF e
    <3>3. ~Asked(c, s)
      BY <2>0, <2>1, <2>5 DEF Asked, FirstOf
    <3>4. claims[s] # c /\ s \notin call[c].lost BY <1>v, <2>1, <3>3 DEF Cause
    <3>5. ASSUME NEW d \in Calls PROVE Timely(d)
      <4>1. call'[d].epoch = call[d].epoch /\ call'[d].ctx = call[d].ctx
        <5>1. CASE d = c BY <2>3, <3>2, <5>1
        <5>2. CASE d # c BY <3>2, <5>2
        <5> QED BY <5>1, <5>2
      <4>2. epoch' = epoch BY <2>0
      <4> QED BY <1>v, <4>1, <4>2
    <3>6. ASSUME NEW u \in Services PROVE Cause(c, u)'
      <4>1. Asked(c, u)' <=> Asked(c, u) \/ u = s BY <2>4, <3>2
      <4>2. call'[c].lost = call[c].lost /\ call'[c].ctx = call[c].ctx BY <2>3, <3>2, <3>4
      <4>3. claims'[u] = IF u = s THEN c ELSE claims[u] BY <1>t, <2>1, <3>1
      <4>4. Cause(c, u) BY <1>v
      <4> QED BY <3>3, <3>4, <4>1, <4>2, <4>3, <4>4 DEF Cause
    <3>7. ASSUME NEW d \in Calls \ {c}, NEW u \in Services PROVE Cause(d, u)'
      <4>1. Asked(d, u)' <=> Asked(d, u) BY <3>2 DEF Asked
      <4>2. call'[d].ctx = call[d].ctx
            /\ call'[d].lost = IF d = claims[s] THEN call[d].lost \cup {s} ELSE call[d].lost
        BY <3>2
      <4>3. claims'[u] = IF u = s THEN c ELSE claims[u] BY <1>t, <2>1, <3>1
      <4>4. Cause(d, u) BY <1>v
      <4> HIDE DEF s
      <4> QED BY <4>1, <4>2, <4>3, <4>4 DEF Cause
    <3> HIDE DEF s, n
    <3> QED BY <3>5, <3>6, <3>7 DEF CauseInv
  <2>6. CASE ~FirstOf(c)
    <3>1. call' = [call EXCEPT ![c] = N] /\ claims' = claims
      BY <1>6, <2>6 DEF Claim, N
    <3>2. call'[c] = N /\ \A d \in Calls \ {c} : call'[d] = call[d] BY <1>t, <3>1
    <3>3. PICK k \in 1..(n - 1) : call[c].asks[k] = s BY <2>6 DEF FirstOf
    <3>4. Asked(c, s) BY <2>0, <2>1, <2>2, <3>3 DEF Asked
    <3>5. ASSUME NEW u \in Services PROVE Keeps(c, u)
      <4>1. Asked(c, u)' <=> Asked(c, u) BY <2>4, <3>2, <3>4
      <4> QED BY <2>3, <3>1, <3>2, <4>1
    <3>6. Timely(c) BY <1>v, <2>0, <2>3, <3>2
    <3>7. ASSUME NEW d \in Calls \ {c} PROVE Timely(d) /\ \A u \in Services : Keeps(d, u)
      BY <1>o, <2>0, <3>1, <3>2
    <3> HIDE DEF Timely, Keeps, Blank
    <3> QED BY <1>k, <3>5, <3>6, <3>7
  <2> QED BY <2>5, <2>6
<1>7. ASSUME NEW c \in Calls, Place(c) PROVE CauseInv'
  <2>1. /\ call[c].stage = "place" /\ UNCHANGED <<claims, epoch>>
        /\ call' = [call EXCEPT ![c] = Next1(c, "wait")]
    BY <1>7 DEF Place
  <2>2. /\ call'[c].kind = call[c].kind /\ call'[c].asks = call[c].asks /\ call'[c].ctx = call[c].ctx
        /\ call'[c].epoch = call[c].epoch /\ call'[c].lost = call[c].lost
        /\ call'[c].stage \in {"place", "wait"}
    BY <1>t, <2>1, NextOne
  <2>3. \A d \in Calls \ {c} : call'[d] = call[d] BY <1>t, <2>1
  <2>4. Timely(c) /\ \A s \in Services : Keeps(c, s) BY <1>v, <2>1, <2>2 DEF Asked
  <2>5. \A d \in Calls \ {c} : Timely(d) /\ \A u \in Services : Keeps(d, u)
    BY <1>o, <2>1, <2>3
  <2> HIDE DEF Timely, Keeps, Blank
  <2> QED BY <1>k, <2>4, <2>5
\* A call loses its time, or a lookup its turn, or goes on to its next source.
<1>e. ASSUME UNCHANGED <<claims, epoch>>,
             \A d \in Calls : /\ call'[d].kind = call[d].kind /\ call'[d].asks = call[d].asks
                              /\ call'[d].epoch = call[d].epoch /\ call'[d].lost = call[d].lost
                              /\ call[d].kind = "sweep" => call'[d].stage = call[d].stage /\ call'[d].next = call[d].next
                              /\ \/ call'[d].ctx = call[d].ctx
                                 \/ call'[d].ctx = "late"
                                 \/ call'[d].ctx = "cancelled" /\ call[d].epoch < epoch
      PROVE  CauseInv'
  <2>1. ASSUME NEW d \in Calls, NEW s \in Services PROVE Keeps(d, s)
    BY <1>e DEF Asked
  <2>2. ASSUME NEW d \in Calls PROVE Timely(d) BY <1>e, <1>v
  <2> HIDE DEF Timely, Keeps, Blank
  <2> QED BY <1>k, <2>1, <2>2
<1>9. ASSUME NEW c \in Calls, ClaimLookup(c) PROVE CauseInv'
  <2>1. UNCHANGED <<claims, epoch>> /\ call[c].kind = "lookup"
    BY <1>9, <1>f DEF ClaimLookup, KindOf
  <2>2. ASSUME NEW d \in Calls
        PROVE  /\ call'[d].kind = call[d].kind /\ call'[d].asks = call[d].asks
               /\ call'[d].epoch = call[d].epoch /\ call'[d].lost = call[d].lost
               /\ call[d].kind = "sweep" => call'[d].stage = call[d].stage /\ call'[d].next = call[d].next
               /\ \/ call'[d].ctx = call[d].ctx
                  \/ call'[d].ctx = "late"
                  \/ call'[d].ctx = "cancelled" /\ call[d].epoch < epoch
    <3>0. call[d] \in CallRecord BY <1>t
    <3>1. CASE d = c
      <4> DEFINE r == call[c]
      <4>1. call'[c] = [r EXCEPT !.stage = "race", !.next = 2] BY <1>9 DEF ClaimLookup
      <4>2. r \in CallRecord /\ r.kind = "lookup" BY <1>t, <2>1
      <4> HIDE DEF r
      <4>3. /\ call'[c].kind = r.kind /\ call'[c].asks = r.asks /\ call'[c].epoch = r.epoch
            /\ call'[c].lost = r.lost /\ call'[c].ctx = r.ctx
        BY <4>1, <4>2 DEF CallRecord
      <4> QED BY <2>1, <3>1, <4>3 DEF r
    <3>2. CASE d # c /\ call'[d] = call[d] BY <3>2
    <3>3. CASE call'[d] = [call[d] EXCEPT !.ctx = "cancelled"] /\ Older(d, c)
      <4>1. call[d].epoch < epoch BY <1>t, <1>v, <3>3 DEF Older
      <4>2. /\ call'[d].kind = call[d].kind /\ call'[d].asks = call[d].asks
            /\ call'[d].epoch = call[d].epoch /\ call'[d].lost = call[d].lost
            /\ call'[d].stage = call[d].stage /\ call'[d].next = call[d].next
            /\ call'[d].ctx = "cancelled"
        BY <3>0, <3>3 DEF CallRecord
      <4> QED BY <4>1, <4>2
    <3> QED BY <1>9, <3>1, <3>2, <3>3 DEF ClaimLookup
  <2> QED BY <1>e, <2>1, <2>2
<1>10. ASSUME NEW c \in Calls, call[c].stage = "race", call' = [call EXCEPT ![c].next = @ + 1],
              UNCHANGED <<claims, epoch>>
       PROVE  CauseInv'
  <2>0. call[c].kind = "lookup" BY <1>10, <1>f DEF KindOf
  <2> DEFINE r == call[c]
             n == r.next + 1
  <2>1. call'[c] = [r EXCEPT !.next = n] /\ \A d \in Calls \ {c} : call'[d] = call[d]
    BY <1>10, <1>t
  <2>2. r \in CallRecord BY <1>t
  <2> HIDE DEF n, r
  <2>3. /\ call'[c].kind = r.kind /\ call'[c].asks = r.asks /\ call'[c].epoch = r.epoch
        /\ call'[c].lost = r.lost /\ call'[c].ctx = r.ctx
    BY <2>1, <2>2 DEF CallRecord
  <2> QED BY <1>e, <1>10, <2>0, <2>1, <2>3 DEF r
<1>11. ASSUME NEW c \in Calls, Tick(c) PROVE CauseInv'
  BY <1>10, <1>11 DEF Tick
<1>12. ASSUME NEW c \in Calls, NEW j \in JobsOf(c), Receive(c, j) PROVE CauseInv'
  BY <1>1, <1>10, <1>12, <1>3 DEF Receive, StartsNext, Return
<1>13. ASSUME NEW c \in Calls, Expire(c) PROVE CauseInv'
  <2>1. UNCHANGED <<claims, epoch>> /\ call' = [call EXCEPT ![c].ctx = "late"]
    BY <1>13 DEF Expire
  <2>2. ASSUME NEW d \in Calls
        PROVE  /\ call'[d].kind = call[d].kind /\ call'[d].asks = call[d].asks
               /\ call'[d].epoch = call[d].epoch /\ call'[d].lost = call[d].lost
               /\ call'[d].stage = call[d].stage /\ call'[d].next = call[d].next
               /\ call'[d].ctx = call[d].ctx \/ call'[d].ctx = "late"
    <3>1. call[d] \in CallRecord BY <1>t
    <3>2. call'[d] = [call[d] EXCEPT !.ctx = "late"] \/ call'[d] = call[d] BY <1>t, <2>1
    <3> QED BY <3>1, <3>2 DEF CallRecord
  <2> QED BY <1>e, <2>1, <2>2
<1>14. CASE BumpEpoch
  <2>1. epoch' = epoch + 1 /\ UNCHANGED <<call, claims>> BY <1>14 DEF BumpEpoch
  <2>2. \A c \in Calls : Timely(c) BY <1>t, <1>v, <2>1
  <2>3. ASSUME NEW c \in Calls, NEW s \in Services PROVE Keeps(c, s) BY <2>1 DEF Asked
  <2> HIDE DEF Timely, Keeps, Blank
  <2> QED BY <1>k, <2>2, <2>3
<1>15. CASE UNCHANGED slotsVars
  BY <1>1, <1>15 DEF slotsVars
<1>16. ASSUME NEW c \in Calls, Works(c) PROVE CauseInv'
  <2>1. CASE Calling(c) \/ Expire(c)
    BY <1>3, <1>4, <1>6, <1>7, <1>9, <1>11, <1>12, <1>13, <2>1 DEF Calling, GivesUp
  <2>2. ASSUME NEW j \in Jobs, Request(j) \/ Check(j) \/ Unread(j) PROVE CauseInv'
    <3>1. UNCHANGED <<call, claims, epoch>>
      BY <2>2 DEF Request, Missing, NoSlot, DialProxy, DialTunnel,
                  TestDelay, Track, Answered, Fails, Ends,
                  GetSlot, Check, Unread
    <3> QED BY <1>1, <3>1
  <2> QED BY <1>2, <1>16, <2>1, <2>2 DEF Works, Jobbing, Flying, JobsOf
<1> QED BY <1>5, <1>14, <1>15, <1>16 DEF SlotsNext

LEMMA CauseHolds ==
    SlotsSpec => []CauseInv
<1>1. SlotsInit => CauseInv
  <2> SUFFICES ASSUME SlotsInit, NEW c \in Calls
               PROVE  /\ \A s \in Services : Cause(c, s)
                      /\ call[c].epoch <= epoch
                      /\ call[c].ctx = "cancelled" => call[c].epoch < epoch
      BY DEF CauseInv
  <2>1. /\ call[c].kind = "none" /\ call[c].lost = {} /\ call[c].epoch = 0 /\ call[c].ctx = "over"
        /\ epoch = 0
    BY GoneRecord DEF SlotsInit
  <2>2. \A s \in Services : claims[s] # c BY SlotsAssumption DEF SlotsInit
  <2> QED BY <2>1, <2>2 DEF Cause, Asked
<1>2. SlotsTypeInv /\ FlightInv /\ CauseInv /\ [SlotsNext]_slotsVars => CauseInv'
  BY CauseNext
<1> QED BY <1>1, <1>2, SlotsInvariant, PTL DEF SlotsSpec

\* A service has one check that is not cancelled, that of the call that asked
\* last, while older sweeps release their claims.
THEOREM OneLiveCheckHolds == SlotsSpec => []OneLiveCheck
<1>1. CauseInv => OneLiveCheck
  BY DEF CauseInv, Cause, Asked, OneLiveCheck, Holds
<1> QED BY <1>1, CauseHolds, PTL

\* Nothing is cancelled that the host still asks for: a check only when its
\* service was asked again, a lookup only when the epoch of the route moved.
THEOREM CancelledForCauseHolds == SlotsSpec => []CancelledForCause
<1>1. SlotsTypeInv /\ CauseInv => CancelledForCause
  BY DEF SlotsTypeInv, CallRecord, CauseInv, Cause, CancelledForCause
<1> QED BY <1>1, CauseHolds, SlotsInvariant, PTL
=============================================================================
