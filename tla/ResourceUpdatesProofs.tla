------------------------ MODULE ResourceUpdatesProofs ------------------------
(***************************************************************************)
(* Proofs about ResourceUpdates: for any number of resources and requests, *)
(* a claim says who holds it and no two requests update one resource.      *)
(***************************************************************************)
EXTENDS ResourceUpdates, TLAPS

\* The fields the claims depend on have their types.
ClaimType ==
    /\ claims \in [Keys -> {"free", "manual", "hook"}]
    /\ key \in [Calls -> Keys]
    /\ run \in [Calls -> Busy \cup {"none"}]
    /\ auto \in [Geos -> {"none", "updating", "told"}]

\* A claim is the exact record of who updates, for one key.
ClaimTrue(k) ==
    /\ claims[k] = "manual" <=> Updates(k) # {}
    /\ claims[k] = "hook" => k \in Geos /\ auto[k] = "updating"

Alone(k) == \A c, d \in Updates(k) : c = d

ClaimInv == ClaimType /\ \A k \in Keys : ClaimTrue(k) /\ Alone(k)

---------------------------------------------------------------------------
\* A step that moves no update and no claim keeps what the claims say.
LEMMA SameUpdates ==
    ASSUME ClaimInv, UNCHANGED <<claims, auto>>,
           key' \in [Calls -> Keys], run' \in [Calls -> Busy \cup {"none"}],
           \A k \in Keys : Updates(k)' = Updates(k)
    PROVE  ClaimInv'
<1>1. ClaimType'
  BY DEF ClaimInv, ClaimType
<1>2. ASSUME NEW k \in Keys PROVE ClaimTrue(k)' /\ Alone(k)'
  <2>1. ClaimTrue(k) /\ Alone(k) /\ Updates(k)' = Updates(k)
    BY <1>2 DEF ClaimInv
  <2>2. ClaimTrue(k)'
    BY <2>1 DEF ClaimTrue
  <2>3. Alone(k)'
    BY <2>1 DEF Alone
  <2> QED BY <2>2, <2>3
<1> QED BY <1>1, <1>2 DEF ClaimInv

\* An update that goes from one of its steps to the next is still that update.
LEMMA Going ==
    ASSUME ClaimInv, NEW c \in Calls, NEW r \in Busy, run[c] \in Busy,
           run' = [run EXCEPT ![c] = r], UNCHANGED key
    PROVE  /\ run' \in [Calls -> Busy \cup {"none"}]
           /\ \A k \in Keys : Updates(k)' = Updates(k)
BY DEF ClaimInv, ClaimType, Updates

\* The update of a request holds its key's claim by hand, so a hook neither
\* takes nor gives back anything under it.
LEMMA HeldByHand ==
    ASSUME ClaimInv, NEW c \in Calls, run[c] \in Busy
    PROVE  /\ key[c] \in Keys /\ claims[key[c]] = "manual"
           /\ claims[key[c]] # "free" /\ claims[key[c]] # "hook"
<1>1. key[c] \in Keys /\ c \in Updates(key[c])
  BY DEF ClaimInv, ClaimType, Updates
<1> QED BY <1>1 DEF ClaimInv, ClaimTrue

LEMMA InitClaimInv == Init => ClaimInv
<1> SUFFICES ASSUME Init PROVE ClaimInv
  OBVIOUS
<1>1. ClaimType
  BY UpdateAssumption DEF Init, ClaimType
<1>2. ASSUME NEW k \in Keys PROVE ClaimTrue(k) /\ Alone(k)
  <2>1. Updates(k) = {}
    BY DEF Init, Updates, Busy
  <2>2. claims[k] = "free"
    BY <1>2 DEF Init
  <2> QED BY <2>1, <2>2 DEF ClaimTrue, Alone
<1> QED BY <1>1, <1>2 DEF ClaimInv

\* A request's own steps.
LEMMA GoesClaimInv ==
    ASSUME ClaimInv, NEW c \in Calls, Goes(c)
    PROVE  ClaimInv'
<1>1. CASE Claim(c)
  <2>1. /\ key[c] \in Keys /\ claims[key[c]] = "free" /\ run[c] = "none"
        /\ claims' = [claims EXCEPT ![key[c]] = "manual"]
        /\ run' = [run EXCEPT ![c] = "claimed"]
        /\ UNCHANGED <<auto, key>>
    BY <1>1 DEF Claim, ClaimAs, Free, ClaimInv, ClaimType
  <2>2. ClaimType'
    BY <2>1 DEF ClaimInv, ClaimType, Busy
  <2>3. Updates(key[c]) = {}
    BY <2>1 DEF ClaimInv, ClaimTrue
  <2>4. Updates(key[c])' = {c}
    BY <2>1, <2>3 DEF Updates, Busy, ClaimInv, ClaimType
  <2>5. ASSUME NEW k \in Keys, k # key[c] PROVE Updates(k)' = Updates(k) /\ claims'[k] = claims[k]
    BY <2>1, <2>5 DEF Updates, ClaimInv, ClaimType
  <2>6. ASSUME NEW k \in Keys PROVE ClaimTrue(k)' /\ Alone(k)'
    <3>1. CASE k = key[c]
      <4>1. claims'[k] = "manual"
        BY <2>1, <3>1 DEF ClaimInv, ClaimType
      <4>2. Updates(k)' = {c}
        BY <2>1, <2>4, <3>1
      <4> QED BY <4>1, <4>2 DEF ClaimTrue, Alone
    <3>2. CASE k # key[c]
      <4>1. ClaimTrue(k) /\ Alone(k) /\ UNCHANGED auto
        BY <2>1, <2>6 DEF ClaimInv
      <4>2. ClaimTrue(k)'
        BY <2>5, <3>2, <4>1 DEF ClaimTrue
      <4>3. Alone(k)'
        BY <2>5, <3>2, <4>1 DEF Alone
      <4> QED BY <4>2, <4>3
    <3> QED BY <3>1, <3>2
  <2> QED BY <2>2, <2>6 DEF ClaimInv
<1>2. CASE Refuse(c)
  <2>1. UNCHANGED <<claims, auto, key, run>>
    BY <1>2 DEF Refuse, core
  <2>2. \A k \in Keys : Updates(k)' = Updates(k)
    BY <2>1 DEF Updates
  <2>3. key' \in [Calls -> Keys] /\ run' \in [Calls -> Busy \cup {"none"}]
    BY <2>1 DEF ClaimInv, ClaimType
  <2> QED BY <2>1, <2>2, <2>3, SameUpdates
<1>3. CASE BeginManual(c)
  <2>1. run[c] \in Busy /\ run' = [run EXCEPT ![c] = "updating"] /\ UNCHANGED <<auto, key>>
    BY <1>3 DEF BeginManual, Busy
  <2>2. claims[key[c]] # "free"
    BY <2>1, HeldByHand
  <2>3. UNCHANGED claims
    BY <1>3, <2>2 DEF BeginManual, Begin, ClaimAs, Free
  <2>4. key' \in [Calls -> Keys]
    BY <2>1 DEF ClaimInv, ClaimType
  <2> QED BY <2>1, <2>3, <2>4, Going, SameUpdates DEF Busy
<1>4. CASE EndProvider(c) \/ RefreshRoute(c) \/ TellGeo(c)
  <2>1. /\ run[c] \in Busy /\ UNCHANGED <<claims, auto, key>>
        /\ \E r \in Busy : run' = [run EXCEPT ![c] = r]
    BY <1>4 DEF EndProvider, RefreshRoute, TellGeo, ReroutesNext, Busy
  <2>2. key' \in [Calls -> Keys]
    BY <2>1 DEF ClaimInv, ClaimType
  <2> QED BY <2>1, <2>2, Going, SameUpdates
<1>5. CASE EndGeo(c)
  <2>1. run[c] \in Busy /\ run' = [run EXCEPT ![c] = "written"] /\ UNCHANGED <<auto, key>>
    BY <1>5 DEF EndGeo, Busy
  <2>2. claims[key[c]] # "hook"
    BY <2>1, HeldByHand
  <2>3. UNCHANGED claims
    BY <1>5, <2>2 DEF EndGeo, Release, ReleaseHook
  <2>4. key' \in [Calls -> Keys]
    BY <2>1 DEF ClaimInv, ClaimType
  <2> QED BY <2>1, <2>3, <2>4, Going, SameUpdates DEF Busy
<1>6. CASE GiveBack(c)
  <2>1. /\ run[c] \in Busy
        /\ claims' = [claims EXCEPT ![key[c]] = "free"]
        /\ run' = [run EXCEPT ![c] = "none"]
        /\ UNCHANGED <<auto, key>>
    BY <1>6 DEF GiveBack, Busy
  <2>2. key[c] \in Keys /\ c \in Updates(key[c])
    BY <2>1 DEF ClaimInv, ClaimType, Updates
  <2>3. ClaimType'
    BY <2>1, <2>2 DEF ClaimInv, ClaimType
  <2>4. Updates(key[c])' = {}
    <3>1. \A d \in Updates(key[c]) : d = c
      BY <2>2 DEF ClaimInv, Alone
    <3>2. ASSUME NEW d \in Calls, run'[d] \in Busy, key'[d] = key[c] PROVE FALSE
      <4>1. d # c
        BY <2>1, <3>2 DEF ClaimInv, ClaimType, Busy
      <4>2. d \in Updates(key[c])
        BY <2>1, <3>2, <4>1 DEF ClaimInv, ClaimType, Updates
      <4> QED BY <3>1, <4>1, <4>2
    <3>3. key'[c] = key[c]
      BY <2>1
    <3> QED BY <3>2, <3>3 DEF Updates
  <2>5. ASSUME NEW k \in Keys, k # key[c] PROVE Updates(k)' = Updates(k) /\ claims'[k] = claims[k]
    BY <2>1, <2>5 DEF Updates, ClaimInv, ClaimType
  <2>6. ASSUME NEW k \in Keys PROVE ClaimTrue(k)' /\ Alone(k)'
    <3>1. CASE k = key[c]
      <4>1. claims'[k] = "free"
        BY <2>1, <3>1 DEF ClaimInv, ClaimType
      <4>2. Updates(k)' = {}
        BY <2>1, <2>4, <3>1
      <4> QED BY <4>1, <4>2 DEF ClaimTrue, Alone
    <3>2. CASE k # key[c]
      <4>1. ClaimTrue(k) /\ Alone(k) /\ UNCHANGED auto
        BY <2>1, <2>6 DEF ClaimInv
      <4>2. ClaimTrue(k)'
        BY <2>5, <3>2, <4>1 DEF ClaimTrue
      <4>3. Alone(k)'
        BY <2>5, <3>2, <4>1 DEF Alone
      <4> QED BY <4>2, <4>3
    <3> QED BY <3>1, <3>2
  <2> QED BY <2>3, <2>6 DEF ClaimInv
<1> QED BY <1>1, <1>2, <1>3, <1>4, <1>5, <1>6 DEF Goes

\* mihomo's own updates, through the hook.
LEMMA AutoClaimInv ==
    ASSUME ClaimInv, NEW g \in Geos, BeginAuto(g) \/ Ends(g)
    PROVE  ClaimInv'
<1>0. g \in Keys /\ UNCHANGED <<key, run>> /\ \A k \in Keys : Updates(k)' = Updates(k)
  BY DEF Keys, BeginAuto, Ends, EndAuto, TellAuto, Updates
<1>1. CASE BeginAuto(g)
  <2>1. /\ auto' = [auto EXCEPT ![g] = "updating"]
        /\ claims' = IF claims[g] = "free" THEN [claims EXCEPT ![g] = "hook"] ELSE claims
    BY <1>1 DEF BeginAuto, Begin, ClaimAs, Free
  <2>2. ClaimType'
    BY <1>0, <2>1 DEF ClaimInv, ClaimType
  <2>3. ASSUME NEW k \in Keys PROVE ClaimTrue(k)' /\ Alone(k)'
    <3>1. ClaimTrue(k) /\ Alone(k) /\ Updates(k)' = Updates(k)
      BY <1>0, <2>3 DEF ClaimInv
    <3>2. /\ claims'[k] = "manual" <=> claims[k] = "manual"
          /\ claims'[k] = "hook" => claims[k] = "hook" \/ k = g
          /\ k \in Geos /\ (auto[k] = "updating" \/ k = g) => auto'[k] = "updating"
      BY <1>0, <2>1, <2>3 DEF ClaimInv, ClaimType
    <3>3. ClaimTrue(k)'
      BY <3>1, <3>2 DEF ClaimTrue
    <3>4. Alone(k)'
      BY <3>1 DEF Alone
    <3> QED BY <3>3, <3>4
  <2> QED BY <2>2, <2>3 DEF ClaimInv
<1>2. CASE EndAuto(g)
  <2>1. /\ auto' = [auto EXCEPT ![g] = "told"]
        /\ claims' = IF claims[g] = "hook" THEN [claims EXCEPT ![g] = "free"] ELSE claims
    BY <1>2 DEF EndAuto, Release, ReleaseHook
  <2>2. ClaimType'
    BY <1>0, <2>1 DEF ClaimInv, ClaimType
  <2>3. ASSUME NEW k \in Keys PROVE ClaimTrue(k)' /\ Alone(k)'
    <3>1. ClaimTrue(k) /\ Alone(k) /\ Updates(k)' = Updates(k)
      BY <1>0, <2>3 DEF ClaimInv
    <3>2. /\ claims'[k] = "manual" <=> claims[k] = "manual"
          /\ claims'[k] = "hook" => claims[k] = "hook" /\ k # g
          /\ k \in Geos /\ k # g => auto'[k] = auto[k]
      BY <1>0, <2>1, <2>3 DEF ClaimInv, ClaimType
    <3>3. ClaimTrue(k)'
      BY <3>1, <3>2 DEF ClaimTrue
    <3>4. Alone(k)'
      BY <3>1 DEF Alone
    <3> QED BY <3>3, <3>4
  <2> QED BY <2>2, <2>3 DEF ClaimInv
<1>3. CASE TellAuto(g)
  <2>1. /\ auto[g] = "told" /\ auto' = [auto EXCEPT ![g] = "none"]
        /\ UNCHANGED claims
    BY <1>3 DEF TellAuto
  <2>2. ClaimType'
    BY <1>0, <2>1 DEF ClaimInv, ClaimType
  <2>3. ASSUME NEW k \in Keys PROVE ClaimTrue(k)' /\ Alone(k)'
    <3>1. ClaimTrue(k) /\ Alone(k) /\ Updates(k)' = Updates(k)
      BY <1>0, <2>3 DEF ClaimInv
    <3>2. k \in Geos /\ auto[k] = "updating" => auto'[k] = "updating"
      BY <2>1 DEF ClaimInv, ClaimType
    <3>3. ClaimTrue(k)'
      BY <2>1, <3>1, <3>2 DEF ClaimTrue
    <3>4. Alone(k)'
      BY <3>1 DEF Alone
    <3> QED BY <3>3, <3>4
  <2> QED BY <2>2, <2>3 DEF ClaimInv
<1> QED BY <1>1, <1>2, <1>3 DEF Ends

LEMMA NextClaimInv == ClaimInv /\ [Next]_vars => ClaimInv'
<1> SUFFICES ASSUME ClaimInv, [Next]_vars PROVE ClaimInv'
  OBVIOUS
<1>1. ASSUME NEW c \in Calls, Goes(c) PROVE ClaimInv'
  BY <1>1, GoesClaimInv
<1>2. ASSUME NEW c \in Calls, NEW k \in Keys, Ask(c, k) PROVE ClaimInv'
  <2>1. run[c] = "none" /\ key' = [key EXCEPT ![c] = k] /\ UNCHANGED <<claims, auto, run>>
    BY <1>2 DEF Ask, core
  <2>2. key' \in [Calls -> Keys] /\ run' \in [Calls -> Busy \cup {"none"}]
    BY <2>1 DEF ClaimInv, ClaimType
  <2>3. \A j \in Keys : Updates(j)' = Updates(j)
    BY <2>1 DEF Updates, Busy, ClaimInv, ClaimType
  <2> QED BY <2>1, <2>2, <2>3, SameUpdates
<1>3. ASSUME \/ \E c \in Calls : Answered(c)
             \/ Hear
             \/ UNCHANGED vars
      PROVE  ClaimInv'
  <2>1. UNCHANGED <<claims, auto, key, run>>
    BY <1>3 DEF Answered, Hear, vars, core
  <2>2. \A k \in Keys : Updates(k)' = Updates(k)
    BY <2>1 DEF Updates
  <2>3. key' \in [Calls -> Keys] /\ run' \in [Calls -> Busy \cup {"none"}]
    BY <2>1 DEF ClaimInv, ClaimType
  <2> QED BY <2>1, <2>2, <2>3, SameUpdates
<1>4. ASSUME NEW g \in Geos, BeginAuto(g) \/ Ends(g) PROVE ClaimInv'
  BY <1>4, AutoClaimInv
<1>5. CASE CoreLost
  <2>1. ClaimType'
    BY <1>5 DEF CoreLost, ClaimInv, ClaimType
  <2>2. ASSUME NEW k \in Keys PROVE ClaimTrue(k)' /\ Alone(k)'
    <3>1. Updates(k)' = {}
      BY <1>5 DEF CoreLost, Updates, Busy
    <3>2. claims'[k] = "free"
      BY <1>5, <2>2 DEF CoreLost
    <3> QED BY <3>1, <3>2 DEF ClaimTrue, Alone
  <2> QED BY <2>1, <2>2 DEF ClaimInv
<1> QED BY <1>1, <1>2, <1>3, <1>4, <1>5 DEF Next

LEMMA AlwaysClaimInv == Spec => []ClaimInv
<1> QED BY InitClaimInv, NextClaimInv, PTL DEF Spec

---------------------------------------------------------------------------
\* Two requests never update one resource at once, however many resources,
\* requests and automatic updates there are (handleUpdateGeoData,
\* updateExternalProvider, onGeoUpdate).
THEOREM OneManualHolds == Spec => []OneManual
<1>1. ClaimInv => OneManual
  BY DEF ClaimInv, Alone, OneManual
<1> QED BY <1>1, AlwaysClaimInv, PTL

\* No claim is leaked or stolen: it is held by hand exactly while a request
\* updates, and by the hook only while mihomo does (releaseUpdate,
\* releaseHookUpdate).
THEOREM ClaimsTrueHolds == Spec => []ClaimsTrue
<1>1. ClaimInv => ClaimsTrue
  BY DEF ClaimInv, ClaimTrue, ClaimsTrue
<1> QED BY <1>1, AlwaysClaimInv, PTL
=============================================================================
