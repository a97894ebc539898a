---------------------------- MODULE RouteWatchProofs ----------------------------
(***************************************************************************)
(* Proofs about the route tracker, for every number of goroutines, routes  *)
(* and calls: the types, the host's latest word winning (FollowsLatest),   *)
(* and the order and completeness of what is published.                    *)
(***************************************************************************)
EXTENDS RouteWatch, TLAPS

\* Goroutines that hold selectMu between Lock and the end of the refresh.
Inside(w) == pc[w] \in {"read", "count", "publish"}

LEMMA LargerIsMax ==
    ASSUME NEW a \in Nat, NEW b \in Nat
    PROVE  /\ Larger(a, b) \in Nat
           /\ a <= b => Larger(a, b) = b
           /\ b <= a => Larger(a, b) = a
BY DEF Larger

(***************************************************************************)
(* TypeOK, strengthened by what the refresh read before it compares and by *)
(* who gets to the second part of handleWatchRoute.                        *)
(***************************************************************************)
TypeInv == /\ TypeOK
           /\ \A w \in Goroutines : /\ pc[w] = "count" => seen[w] \in Routes
                                    /\ pc[w] = "watch" => op[w] # "refresh"

LEMMA TypeInit == Init => TypeInv
<1> SUFFICES ASSUME Init PROVE TypeInv
    OBVIOUS
<1>1. published \in Seq(States) /\ \A w \in Goroutines : state[w] \in States
  BY DEF Init, States, Stamp
<1> QED BY <1>1 DEF Init, TypeInv, TypeOK, Labels, Ops, Changes

LEMMA TypeNext == TypeInv /\ [Next]_vars => TypeInv'
<1> SUFFICES ASSUME TypeInv, [Next]_vars PROVE TypeInv'
    OBVIOUS
<1> USE DEF TypeInv, TypeOK, Labels, Ops, Changes, tracker, locals, history, world, host
<1>st. \A e, v \in Nat : Stamp(e, v) \in States
  BY DEF Stamp, States
<1>stop. ASSUME StopWatch
         PROVE  /\ methodCallSeq' \in Nat /\ watchSeq' \in Nat /\ latestSeq' \in Nat
                /\ watched' \in BOOLEAN /\ polling' \in BOOLEAN /\ latest' \in BOOLEAN
  <2>1. methodCallSeq + 1 \in Nat OBVIOUS
  <2>2. Larger(watchSeq, methodCallSeq + 1) \in Nat BY <2>1, LargerIsMax
  <2> QED BY <1>stop, <2>1, <2>2 DEF StopWatch
<1>leave. ASSUME NEW w \in Goroutines, Leave(w)
          PROVE  /\ pc' \in [Goroutines -> Labels] /\ pc'[w] # "count"
                 /\ pc'[w] = "watch" => op[w] # "refresh"
                 /\ seen' \in [Goroutines -> Routes \cup {None}]
                 /\ change' \in [Goroutines -> Changes]
                 /\ state' \in [Goroutines -> States]
                 /\ \A v \in Goroutines \ {w} : pc'[v] = pc[v] /\ seen'[v] = seen[v]
  <2>1. Stamp(0, 0) \in States BY <1>st
  <2>2. IF op[w] = "refresh" THEN pc'[w] = "idle" ELSE pc'[w] = "watch"
    BY <1>leave DEF Leave, Goto
  <2> QED BY <1>leave, <2>1, <2>2 DEF Leave, Goto
<1>1. CASE Drift BY <1>1 DEF Drift
<1>2. CASE Poll
  <2>1. Poller \in Goroutines BY DEF Goroutines
  <2> QED BY <1>2, <2>1 DEF Poll, Refresh, Start, Goto
<1>3. CASE Detach BY <1>3 DEF Detach
<1>4. CASE DetachWatch BY <1>4, <1>stop DEF DetachWatch, StopWatch
<1>5. CASE Attach BY <1>5 DEF Attach
<1>6. CASE Shutdown BY <1>6, <1>stop DEF Shutdown, StopWatch
<1>7. CASE \E r \in BOOLEAN : SetRunning(r) BY <1>7 DEF SetRunning
<1>8. ASSUME NEW w \in Goroutines, Step(w) PROVE TypeInv'
  <2>1. CASE Lock(w) BY <2>1 DEF Lock, Goto
  <2>2. CASE Read(w) BY <2>2 DEF Read, Found, Goto
  <2>3. CASE Count(w)
    <3>1. /\ known' \in Routes /\ epoch' \in Nat /\ version' \in Nat
      BY <2>3 DEF Count
    <3>2. Stamp(epoch', version') \in States BY <3>1, <1>st
    <3>3. CASE Leave(w) /\ selectMu' = None
      BY <2>3, <3>1, <3>3, <1>leave DEF Count
    <3>4. CASE /\ state' = [state EXCEPT ![w] = Stamp(epoch', version')]
               /\ Goto(w, "publish") /\ HeldWhilePublishing
               /\ UNCHANGED <<seen, change>>
      BY <2>3, <3>1, <3>2, <3>4 DEF Count, Goto, HeldWhilePublishing
    <3> QED BY <2>3, <3>3, <3>4 DEF Count
  <2>4. CASE Publish(w)
    <3>1. state[w] \in States /\ state[w].version \in Nat BY DEF States
    <3>2. Larger(told, state[w].version) \in Nat BY <3>1, LargerIsMax
    <3>3. Append(published, state[w]) \in Seq(States)
      <4>1. published \in Seq(States) /\ state[w] \in States BY <3>1
      <4> HIDE DEF TypeInv, TypeOK
      <4> QED BY <4>1
    <3>4. told' \in Nat /\ published' \in Seq(States)
      BY <2>4, <3>2, <3>3 DEF Publish
    <3> QED BY <2>4, <3>4, <1>leave DEF Publish
  <2>5. CASE Watch(w)
    <3>1. Larger(told, version) \in Nat BY LargerIsMax
    <3>2. told' \in Nat /\ watchSeq' \in Nat BY <2>5, <3>1 DEF Watch
    <3>3. watched' \in BOOLEAN BY <2>5 DEF Watch
    <3>4. polling' \in BOOLEAN BY <2>5 DEF Watch, PollFor
    <3>5. heard' \in BOOLEAN BY <2>5 DEF Watch
    <3> QED BY <2>5, <3>2, <3>3, <3>4, <3>5 DEF Watch, Goto
  <2> QED BY <1>8, <2>1, <2>2, <2>3, <2>4, <2>5 DEF Step
<1>9. ASSUME NEW w \in Workers, NEW kind \in Changes, Refresh(w, kind) PROVE TypeInv'
  <2>1. w \in Goroutines BY DEF Goroutines
  <2> QED BY <1>9, <2>1 DEF Refresh, Start, Goto
<1>10. ASSUME NEW w \in Workers, NEW watch \in BOOLEAN, Dispatch(w, watch) PROVE TypeInv'
  <2>1. w \in Goroutines BY DEF Goroutines
  <2> QED BY <1>10, <2>1 DEF Dispatch, Start, Goto
<1>11. CASE UNCHANGED vars BY <1>11 DEF vars
<1> QED BY <1>1, <1>2, <1>3, <1>4, <1>5, <1>6, <1>7, <1>8, <1>9, <1>10, <1>11 DEF Next

\* Every variable keeps its type, whatever refreshes, watch calls and engines do.
THEOREM TypeCorrect == Spec => []TypeOK
<1>1. TypeInv => TypeOK BY DEF TypeInv
<1> QED BY <1>1, TypeInit, TypeNext, PTL DEF Spec

(***************************************************************************)
(* FollowsLatest.  Whoever holds the highest place decides: either the     *)
(* watch already obeys the call or stop with that place, or the call is    *)
(* still under way, and every other call is outranked by it.               *)
(***************************************************************************)
Asks(w) == (op[w] = "watch") = latest

FollowInv ==
    /\ latestSeq = methodCallSeq
    /\ watchSeq <= latestSeq
    /\ watchSeq = latestSeq => watched = latest /\ polling = latest
    /\ watchSeq # latestSeq =>
          \E w \in Goroutines : Waiting(w) /\ seq[w] = latestSeq /\ Asks(w)
    /\ \A w \in Goroutines :
          Waiting(w) => seq[w] <= latestSeq /\ (seq[w] = latestSeq => Asks(w))

LEMMA FollowInit == Init => FollowInv
<1> SUFFICES ASSUME Init PROVE FollowInv
    OBVIOUS
<1>1. \A w \in Goroutines : ~Waiting(w) BY DEF Init, Waiting
<1>2. /\ latestSeq = 0 /\ methodCallSeq = 0 /\ watchSeq = 0
      /\ watched = latest /\ polling = latest
  BY DEF Init
<1> QED BY <1>1, <1>2 DEF FollowInv

\* What leaves the watch and its calls alone leaves FollowInv alone.
LEMMA FollowKept ==
    ASSUME FollowInv,
           UNCHANGED <<watched, watchSeq, polling, methodCallSeq, latestSeq, latest, seq>>,
           \A w \in Goroutines : (Waiting(w)' <=> Waiting(w)) /\ (Waiting(w) => op'[w] = op[w])
    PROVE  FollowInv'
<1>1. \A w \in Goroutines : Waiting(w) => (Asks(w)' <=> Asks(w))
  BY DEF Asks
<1>2. watchSeq' # latestSeq' =>
         \E w \in Goroutines : Waiting(w)' /\ seq'[w] = latestSeq' /\ Asks(w)'
  BY <1>1 DEF FollowInv
<1>3. \A w \in Goroutines :
         Waiting(w)' => seq'[w] <= latestSeq' /\ (seq'[w] = latestSeq' => Asks(w)')
  BY <1>1 DEF FollowInv
<1> QED BY <1>2, <1>3 DEF FollowInv

LEMMA FollowStop ==
    ASSUME TypeInv, FollowInv, StopWatch, UNCHANGED <<pc, op, seq>>
    PROVE  FollowInv'
<1>1. methodCallSeq \in Nat /\ watchSeq \in Nat /\ seq \in [Goroutines -> Nat]
  BY DEF TypeInv, TypeOK
<1>2. watchSeq <= methodCallSeq + 1 BY <1>1 DEF FollowInv
<1>3. Larger(watchSeq, methodCallSeq + 1) = methodCallSeq + 1
  BY <1>1, <1>2, LargerIsMax
<1>4. /\ latestSeq' = methodCallSeq' /\ watchSeq' = latestSeq'
      /\ latestSeq' = methodCallSeq + 1
      /\ watched' = latest' /\ polling' = latest'
  BY <1>3 DEF StopWatch
<1>5. ASSUME NEW w \in Goroutines, Waiting(w)'
      PROVE  seq'[w] <= latestSeq' /\ seq'[w] # latestSeq'
  <2>1. Waiting(w) BY <1>5 DEF Waiting
  <2>2. seq[w] <= methodCallSeq /\ seq[w] \in Nat BY <2>1, <1>1 DEF FollowInv
  <2> QED BY <2>2, <1>1, <1>4
<1> QED BY <1>1, <1>4, <1>5 DEF FollowInv

LEMMA FollowNext == TypeInv /\ FollowInv /\ [Next]_vars => FollowInv'
<1> SUFFICES ASSUME TypeInv, FollowInv, [Next]_vars PROVE FollowInv'
    OBVIOUS
<1> USE DEF tracker, locals, history, world, host
<1>t. /\ methodCallSeq \in Nat /\ watchSeq \in Nat /\ seq \in [Goroutines -> Nat]
      /\ pc \in [Goroutines -> Labels] /\ op \in [Goroutines -> Ops]
  BY DEF TypeInv, TypeOK
<1>1. CASE Drift BY <1>1, FollowKept DEF Drift, Waiting
<1>r. ASSUME NEW w \in Goroutines, NEW kind \in Changes, Refresh(w, kind)
      PROVE  FollowInv'
  <2>1. \A v \in Goroutines : (Waiting(v)' <=> Waiting(v)) /\ (Waiting(v) => op'[v] = op[v])
    BY <1>r, <1>t DEF Refresh, Start, Goto, Waiting
  <2> QED BY <1>r, <2>1, FollowKept DEF Refresh, Start
<1>2. CASE Poll BY <1>2, <1>r DEF Poll, Goroutines, Changes
<1>3. CASE Detach BY <1>3, FollowKept DEF Detach, Waiting
<1>4. CASE DetachWatch BY <1>4, FollowStop DEF DetachWatch
<1>5. CASE Attach BY <1>5, FollowKept DEF Attach, Waiting
<1>6. CASE Shutdown BY <1>6, FollowStop DEF Shutdown
<1>7. CASE \E r \in BOOLEAN : SetRunning(r) BY <1>7, FollowKept DEF SetRunning, Waiting
<1>8. ASSUME NEW w \in Goroutines, Step(w) PROVE FollowInv'
  <2>1. CASE Lock(w) \/ Read(w) \/ Count(w) \/ Publish(w)
    <3>1. \A v \in Goroutines : (Waiting(v)' <=> Waiting(v)) /\ op'[v] = op[v]
      BY <2>1, <1>t DEF Lock, Read, Count, Publish, Leave, Goto, Waiting, Labels
    <3>2. UNCHANGED <<watched, watchSeq, polling, methodCallSeq, latestSeq, latest, seq>>
      BY <2>1 DEF Lock, Read, Count, Publish
    <3> QED BY <3>1, <3>2, FollowKept
  <2>2. CASE Watch(w)
    <3>1. /\ ~Waiting(w)'
          /\ \A v \in Goroutines \ {w} :
                (Waiting(v)' <=> Waiting(v)) /\ seq'[v] = seq[v] /\ op'[v] = op[v]
          /\ UNCHANGED <<methodCallSeq, latestSeq, latest>>
      BY <2>2, <1>t DEF Watch, Goto, Waiting
    <3>2. CASE Outranked(w)
      <4>1. UNCHANGED <<watchSeq, watched, polling>>
        BY <2>2, <3>2 DEF Watch
      <4>2. seq[w] # latestSeq
        BY <3>2, <1>t DEF Outranked, FollowInv
      <4> QED BY <3>1, <4>1, <4>2 DEF FollowInv, Asks
    <3>3. CASE ~Outranked(w)
      <4>1. watchSeq' = seq[w] /\ watched' = (op[w] = "watch") /\ polling' = (op[w] = "watch")
        BY <2>2, <3>3 DEF Watch, PollFor
      <4>2. /\ watchSeq <= seq[w] /\ seq[w] <= latestSeq
            /\ seq[w] = latestSeq => Asks(w)
        <5>1. pc[w] = "watch" BY <2>2 DEF Watch
        <5>2. op[w] # "refresh" BY <5>1 DEF TypeInv
        <5> QED BY <5>1, <5>2, <3>3, <1>t DEF FollowInv, Waiting, Outranked
      <4>3. ~(seq[w] = latestSeq) => watchSeq # latestSeq
        BY <4>2, <1>t DEF FollowInv
      <4> QED BY <3>1, <4>1, <4>2, <4>3 DEF FollowInv, Asks
    <3> QED BY <3>2, <3>3
  <2> QED BY <1>8, <2>1, <2>2 DEF Step
<1>10. ASSUME NEW w \in Workers, NEW watch \in BOOLEAN, Dispatch(w, watch) PROVE FollowInv'
  <2>1. w \in Goroutines BY DEF Goroutines
  <2>2. /\ latestSeq' = methodCallSeq + 1 /\ methodCallSeq' = methodCallSeq + 1
        /\ latest' = watch /\ seq'[w] = methodCallSeq + 1
        /\ op'[w] = (IF watch THEN "watch" ELSE "unwatch") /\ pc'[w] = "lock"
        /\ UNCHANGED <<watchSeq, watched, polling>>
    BY <1>10, <1>t, <2>1 DEF Dispatch, Start, Goto
  <2>3. Waiting(w)' /\ seq'[w] = latestSeq' /\ Asks(w)'
    BY <2>2 DEF Waiting, Asks
  <2>4. \A v \in Goroutines \ {w} :
           (Waiting(v)' <=> Waiting(v)) /\ seq'[v] = seq[v]
    BY <1>10, <1>t DEF Dispatch, Start, Goto, Waiting
  <2>5. \A v \in Goroutines \ {w} : Waiting(v)' => seq'[v] <= methodCallSeq
    BY <2>4 DEF FollowInv
  <2>6. watchSeq' < latestSeq'
    BY <2>2, <1>t DEF FollowInv
  <2>7. \A v \in Goroutines :
           Waiting(v)' => seq'[v] <= latestSeq' /\ (seq'[v] = latestSeq' => Asks(v)')
    BY <2>1, <2>2, <2>3, <2>4, <2>5, <1>t
  <2> QED BY <2>1, <2>2, <2>3, <2>6, <2>7, <1>t DEF FollowInv
<1>11. CASE UNCHANGED vars BY <1>11, FollowKept DEF vars, Waiting
<1>9. ASSUME NEW w \in Workers, NEW kind \in Changes, Refresh(w, kind) PROVE FollowInv'
  BY <1>9, <1>r DEF Goroutines
<1> QED BY <1>1, <1>2, <1>3, <1>4, <1>5, <1>6, <1>7, <1>8, <1>9, <1>10, <1>11 DEF Next

LEMMA FollowImplies == FollowInv => FollowsLatest
BY DEF FollowInv, FollowsLatest

\* Whatever order the watch calls run in, and whenever an engine goes away, the
\* watch of handleWatchRoute and stopRouteWatch ends up at the host's last word.
THEOREM FollowsLatestHolds == Spec => []FollowsLatest
<1>1. Init => TypeInv /\ FollowInv BY TypeInit, FollowInit
<1>2. TypeInv /\ FollowInv /\ [Next]_vars => (TypeInv /\ FollowInv)'
  BY TypeNext, FollowNext
<1> QED BY <1>1, <1>2, FollowImplies, PTL DEF Spec

(***************************************************************************)
(* PublishedInOrder and NothingMissed.  Only the holder of selectMu counts *)
(* or publishes, so the state a goroutine carries to the queue is still    *)
(* the tracker's, and is newer than all that was published.                *)
(***************************************************************************)
Mutex == \A w \in Goroutines : Inside(w) => selectMu = w

Carries ==
    \A w \in Goroutines : pc[w] = "publish" =>
        /\ state[w] = Stamp(epoch, version)
        /\ \A i \in 1..Len(published) : published[i].version < version

PublishInv ==
    /\ Mutex
    /\ Carries
    /\ told <= version
    /\ heard => listening
    /\ \A i \in 1..Len(published) :
          published[i].version <= version /\ published[i].epoch <= epoch
    /\ PublishedInOrder
    /\ NothingMissed

LEMMA PublishInit == Init => PublishInv
<1> SUFFICES ASSUME Init PROVE PublishInv
    OBVIOUS
<1>1. \A w \in Goroutines : pc[w] = "idle" BY DEF Init
<1>2. /\ Len(published) = 0 /\ told = 0 /\ version = 0 /\ heard = FALSE
  BY DEF Init
<1> QED BY <1>1, <1>2 DEF PublishInv, Mutex, Inside, Carries, PublishedInOrder, NothingMissed

\* What neither counts, publishes, nor takes or frees selectMu.
LEMMA PublishKept ==
    ASSUME PublishInv,
           UNCHANGED <<epoch, version, told, published, selectMu, state>>,
           \A w \in Goroutines : Inside(w)' => pc'[w] = pc[w],
           \A w \in Goroutines : pc[w] = "publish" => pc'[w] = "publish",
           watched' => watched, heard' => heard, heard' => listening'
    PROVE  PublishInv'
<1>1. Mutex' BY DEF PublishInv, Mutex, Inside
<1>2. Carries' BY DEF PublishInv, Carries, Inside
<1>3. PublishedInOrder' BY DEF PublishInv, PublishedInOrder
<1>4. NothingMissed' BY DEF PublishInv, NothingMissed
<1> QED BY <1>1, <1>2, <1>3, <1>4 DEF PublishInv

\* The section of refreshRouteLocked under currentRoute.mu.
LEMMA PublishCount ==
    ASSUME TypeInv, PublishInv, NEW w \in Goroutines, Count(w)
    PROVE  PublishInv'
<1> USE DEF history, host, world
<1>t. /\ pc \in [Goroutines -> Labels] /\ state \in [Goroutines -> States]
      /\ epoch \in Nat /\ version \in Nat /\ told \in Nat
      /\ Len(published) \in Nat
      /\ \A i \in 1..Len(published) : published[i] \in States
  BY DEF TypeInv, TypeOK
<1>e. \A i \in 1..Len(published) :
         published[i].version \in Nat /\ published[i].epoch \in Nat
  BY <1>t DEF States
<1>1. \A v \in Goroutines \ {w} : ~Inside(v)
  BY DEF PublishInv, Mutex, Inside, Count
<1>2. \A v \in Goroutines \ {w} : pc'[v] = pc[v] /\ ~Inside(v)'
  BY <1>t, <1>1 DEF Count, Leave, Goto, Inside
<1>3. /\ epoch <= epoch' /\ version <= version' /\ epoch' \in Nat /\ version' \in Nat
      /\ Announced(Observed(w)) => version < version'
      /\ ~Announced(Observed(w)) => version' = version \/ ~watched
  BY <1>t DEF Count, Announced
<1>4. UNCHANGED <<told, published, watched, heard, listening>>
  BY DEF Count
<1>5. CASE Announced(Observed(w))
  <2>1. /\ state'[w] = Stamp(epoch', version') /\ pc'[w] = "publish"
        /\ UNCHANGED selectMu
    BY <1>5, <1>t DEF Count, Goto, HeldWhilePublishing
  <2>2. Mutex'
    BY <1>2, <2>1 DEF PublishInv, Mutex, Inside, Count
  <2>3. Carries'
    <3>1. \A i \in 1..Len(published') : published'[i].version < version'
      BY <1>3, <1>4, <1>5, <1>t, <1>e DEF PublishInv
    <3>2. Stamp(epoch, version)' = Stamp(epoch', version') OBVIOUS
    <3> QED BY <3>1, <3>2, <1>2, <2>1 DEF Carries, Inside
  <2>4. PublishedInOrder' BY <1>4 DEF PublishInv, PublishedInOrder
  <2>5. NothingMissed' BY <2>1 DEF NothingMissed
  <2> QED BY <2>2, <2>3, <2>4, <2>5, <1>3, <1>4, <1>t, <1>e DEF PublishInv
<1>6. CASE ~Announced(Observed(w))
  <2>1. ~Inside(w)'
    BY <1>6, <1>t DEF Count, Leave, Goto, Inside
  <2>2. Mutex' /\ Carries' BY <1>2, <2>1 DEF Mutex, Carries, Inside
  <2>3. PublishedInOrder' BY <1>4 DEF PublishInv, PublishedInOrder
  <2>4. pc[w] = "count" BY DEF Count
  <2>5. NothingMissed'
    BY <1>1, <1>3, <1>4, <1>6, <2>4 DEF PublishInv, NothingMissed, Inside
  <2> QED BY <2>2, <2>3, <2>5, <1>3, <1>4, <1>t, <1>e DEF PublishInv
<1> QED BY <1>5, <1>6

LEMMA PublishPublish ==
    ASSUME TypeInv, PublishInv, NEW w \in Goroutines, Publish(w)
    PROVE  PublishInv'
<1> USE DEF tracker
<1>t. /\ pc \in [Goroutines -> Labels] /\ epoch \in Nat /\ version \in Nat /\ told \in Nat
      /\ Len(published) \in Nat /\ published \in Seq(States)
      /\ \A i \in 1..Len(published) : published[i] \in States
  BY DEF TypeInv, TypeOK
<1>0. pc[w] = "publish" BY DEF Publish
<1>1. /\ state[w] = Stamp(epoch, version)
      /\ \A i \in 1..Len(published) : published[i].version < version
  BY <1>0 DEF PublishInv, Carries
<1>2. \A v \in Goroutines \ {w} : pc'[v] = pc[v] /\ ~Inside(v) /\ ~Inside(v)'
  BY <1>0, <1>t DEF PublishInv, Mutex, Inside, Publish, Leave, Goto
<1>3. ~Inside(w)'
  BY <1>t DEF Publish, Leave, Goto, Inside
<1>4. Mutex' /\ Carries' BY <1>2, <1>3 DEF Mutex, Carries, Inside
<1>5. UNCHANGED <<epoch, version, watched, heard>> /\ (heard' => listening')
  BY DEF Publish, host, PublishInv
<1>6. CASE /\ listening
           /\ published' = Append(published, state[w])
           /\ told' = Larger(told, state[w].version)
  <2>1. state[w].version = version /\ state[w].epoch = epoch
    BY <1>1 DEF Stamp
  <2>2. told' = version
    <3>1. told <= version BY DEF PublishInv
    <3> QED BY <1>6, <2>1, <3>1, <1>t, LargerIsMax
  <2>3. state[w] \in States BY DEF TypeInv, TypeOK
  <2>4. /\ Len(published') = Len(published) + 1
        /\ published'[Len(published) + 1] = state[w]
        /\ \A i \in 1..Len(published) : published'[i] = published[i]
    BY <1>6, <1>t, <2>3
  <2>5. \A i \in 1..Len(published') :
           published'[i].version <= version /\ published'[i].epoch <= epoch
    BY <2>1, <2>4, <1>t DEF PublishInv
  <2>6. PublishedInOrder'
    <3> SUFFICES ASSUME NEW i \in 1..(Len(published') - 1)
                 PROVE  /\ published'[i].version < published'[i + 1].version
                        /\ published'[i].epoch <= published'[i + 1].epoch
        BY DEF PublishedInOrder
    <3>1. CASE i = Len(published)
      BY <3>1, <2>1, <2>4, <1>1, <1>t DEF PublishInv
    <3>2. CASE i \in 1..(Len(published) - 1)
      BY <3>2, <2>4, <1>t DEF PublishInv, PublishedInOrder
    <3> QED BY <3>1, <3>2, <2>4, <1>t
  <2>7. NothingMissed' BY <2>2, <1>5 DEF NothingMissed
  <2> QED BY <1>4, <1>5, <2>2, <2>5, <2>6, <2>7, <1>t DEF PublishInv
<1>7. CASE ~listening /\ UNCHANGED <<published, told>>
  <2>1. ~heard' BY <1>5, <1>7 DEF PublishInv
  <2>2. NothingMissed' BY <2>1 DEF NothingMissed
  <2>3. PublishedInOrder' BY <1>7 DEF PublishInv, PublishedInOrder
  <2> QED BY <1>4, <1>5, <1>7, <2>2, <2>3 DEF PublishInv
<1> QED BY <1>6, <1>7 DEF Publish

LEMMA PublishWatch ==
    ASSUME TypeInv, PublishInv, NEW w \in Goroutines, Watch(w)
    PROVE  PublishInv'
<1> USE DEF history, host, world
<1>t. pc \in [Goroutines -> Labels] /\ version \in Nat /\ told \in Nat
  BY DEF TypeInv, TypeOK
<1>1. told' = version
  <2>1. told <= version BY DEF PublishInv
  <2> QED BY <2>1, <1>t, LargerIsMax DEF Watch
<1>2. \A v \in Goroutines : Inside(v)' => v # w /\ pc'[v] = pc[v]
  BY <1>t DEF Watch, Goto, Inside
<1>3. UNCHANGED <<epoch, version, published, selectMu, state, listening>>
  BY DEF Watch
<1>4. heard' => listening'
  <2>1. CASE UNCHANGED heard BY <2>1, <1>3 DEF PublishInv
  <2>2. CASE heard' = listening BY <2>2, <1>3
  <2> QED BY <2>1, <2>2 DEF Watch
<1>5. Mutex' BY <1>2, <1>3 DEF PublishInv, Mutex, Inside
<1>6. Carries' BY <1>2, <1>3 DEF PublishInv, Carries, Inside
<1>7. PublishedInOrder' BY <1>3 DEF PublishInv, PublishedInOrder
<1>8. NothingMissed' BY <1>1, <1>3 DEF NothingMissed
<1> QED BY <1>1, <1>3, <1>4, <1>5, <1>6, <1>7, <1>8, <1>t DEF PublishInv

\* Starting a call, and the stops.
LEMMA PublishStart ==
    ASSUME TypeInv, PublishInv, NEW w \in Goroutines, NEW call, NEW kind, Start(w, call, kind),
           UNCHANGED <<epoch, version, watched, selectMu>>
    PROVE  PublishInv'
<1>t. pc \in [Goroutines -> Labels] BY DEF TypeInv, TypeOK
<1>1. \A v \in Goroutines : /\ Inside(v)' => pc'[v] = pc[v]
                            /\ pc[v] = "publish" => pc'[v] = "publish"
  BY <1>t DEF Start, Goto, Inside
<1>2. UNCHANGED <<told, published, state, heard, listening>> BY DEF Start
<1> QED BY <1>1, <1>2, PublishKept DEF PublishInv

LEMMA PublishNext == TypeInv /\ PublishInv /\ [Next]_vars => PublishInv'
<1> SUFFICES ASSUME TypeInv, PublishInv, [Next]_vars PROVE PublishInv'
    OBVIOUS
<1> USE DEF tracker, locals, history, world, host
<1>t. pc \in [Goroutines -> Labels] BY DEF TypeInv, TypeOK
<1>k. ASSUME UNCHANGED <<epoch, version, told, published, selectMu, state, pc>>,
             watched' => watched, heard' => heard, heard' => listening'
      PROVE  PublishInv'
  BY <1>k, PublishKept
<1>h. heard => listening BY DEF PublishInv
<1>1. CASE Drift BY <1>1, <1>h, <1>k DEF Drift
<1>r. ASSUME NEW w \in Goroutines, NEW kind \in Changes, Refresh(w, kind)
      PROVE  PublishInv'
  <2>1. Start(w, "refresh", kind) BY <1>r DEF Refresh
  <2> QED BY <2>1, PublishStart DEF Start
<1>2. CASE Poll BY <1>2, <1>r DEF Poll, Goroutines, Changes
<1>3. CASE Detach BY <1>3, <1>k DEF Detach
<1>4. CASE DetachWatch BY <1>4, <1>h, <1>k DEF DetachWatch, StopWatch
<1>5. CASE Attach BY <1>5, <1>k DEF Attach
<1>6. CASE Shutdown BY <1>6, <1>h, <1>k DEF Shutdown, StopWatch
<1>7. CASE \E r \in BOOLEAN : SetRunning(r) BY <1>7, <1>h, <1>k DEF SetRunning
<1>8. ASSUME NEW w \in Goroutines, Step(w) PROVE PublishInv'
  <2>1. CASE Lock(w)
    <3>1. \A v \in Goroutines : ~Inside(v)
      <4>1. selectMu = None /\ None \notin Goroutines BY <2>1, RouteAssumption DEF Lock
      <4> QED BY <4>1 DEF PublishInv, Mutex
    <3>2. /\ pc'[w] = "read" /\ selectMu' = w
          /\ \A v \in Goroutines \ {w} : pc'[v] = pc[v]
      BY <2>1, <1>t DEF Lock, Goto
    <3>3. UNCHANGED <<epoch, version, told, published, watched, heard, listening>>
      BY <2>1 DEF Lock
    <3>4. Mutex' /\ Carries' BY <3>1, <3>2 DEF Mutex, Carries, Inside
    <3>5. PublishedInOrder' BY <3>3 DEF PublishInv, PublishedInOrder
    <3>6. NothingMissed' BY <3>1, <3>3 DEF PublishInv, NothingMissed, Inside
    <3> QED BY <3>3, <3>4, <3>5, <3>6 DEF PublishInv
  <2>2. CASE Read(w)
    <3>1. pc[w] = "read" /\ pc'[w] = "count" /\ \A v \in Goroutines \ {w} : pc'[v] = pc[v]
      BY <2>2, <1>t DEF Read, Goto
    <3>2. UNCHANGED <<epoch, version, told, published, watched, heard, listening, selectMu, state>>
      BY <2>2 DEF Read
    <3>3. Mutex' BY <3>1, <3>2 DEF PublishInv, Mutex, Inside
    <3>4. Carries' BY <3>1, <3>2 DEF PublishInv, Carries
    <3>5. PublishedInOrder' BY <3>2 DEF PublishInv, PublishedInOrder
    <3>6. NothingMissed' BY <3>1, <3>2 DEF PublishInv, NothingMissed
    <3> QED BY <3>2, <3>3, <3>4, <3>5, <3>6 DEF PublishInv
  <2> QED BY <1>8, <2>1, <2>2, PublishCount, PublishPublish, PublishWatch DEF Step
<1>9. ASSUME NEW w \in Workers, NEW kind \in Changes, Refresh(w, kind) PROVE PublishInv'
  BY <1>9, <1>r DEF Goroutines
<1>10. ASSUME NEW w \in Workers, NEW watch \in BOOLEAN, Dispatch(w, watch) PROVE PublishInv'
  <2>1. w \in Goroutines BY DEF Goroutines
  <2>2. \E call : Start(w, call, "unchanged") BY <1>10 DEF Dispatch
  <2> QED BY <2>1, <2>2, PublishStart DEF Start
<1>11. CASE UNCHANGED vars BY <1>11, <1>h, <1>k DEF vars
<1> QED BY <1>1, <1>2, <1>3, <1>4, <1>5, <1>6, <1>7, <1>8, <1>9, <1>10, <1>11 DEF Next

\* refreshRouteLocked publishes under selectMu what it counted under it, so the
\* states reach the queue in the order of their versions and epochs.
THEOREM PublishedInOrderHolds == Spec => []PublishedInOrder
<1>1. Init => TypeInv /\ PublishInv BY TypeInit, PublishInit
<1>2. TypeInv /\ PublishInv /\ [Next]_vars => (TypeInv /\ PublishInv)'
  BY TypeNext, PublishNext
<1>3. PublishInv => PublishedInOrder BY DEF PublishInv
<1> QED BY <1>1, <1>2, <1>3, PTL DEF Spec

\* The answer of handleWatchRoute and the events after it leave no change out
\* for a listener that was granted the watch.
THEOREM NothingMissedHolds == Spec => []NothingMissed
<1>1. Init => TypeInv /\ PublishInv BY TypeInit, PublishInit
<1>2. TypeInv /\ PublishInv /\ [Next]_vars => (TypeInv /\ PublishInv)'
  BY TypeNext, PublishNext
<1>3. PublishInv => NothingMissed BY DEF PublishInv
<1> QED BY <1>1, <1>2, <1>3, PTL DEF Spec
=============================================================================
