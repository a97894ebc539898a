--------------------------- MODULE RoutedProbeProofs ---------------------------
(***************************************************************************)
(* Proofs about the answers that describe the route, for any proxies, any  *)
(* number of moves and any overlap of probes, checks and route events: a   *)
(* target that loads is never stuck (NeverStuckLoading), and an answer     *)
(* with the Core's counters of now is true (StampsAreTrue).                *)
(***************************************************************************)
EXTENDS RoutedProbe, FiniteSetTheorems, TLAPS

(***************************************************************************)
(* What a target, a probe and the tracker hold.                            *)
(***************************************************************************)
Entries == {Empty, Probing} \cup Answers
Hosts ==
    [entry : Entries, due : Dues \cup {None}, inFlight : Nat \cup {None},
     landed : Answers \cup {None}, unverified : BOOLEAN, staleUnder : Routes \cup {None},
     settle : BOOLEAN, cooling : BOOLEAN, check : Checks \cup {None}, reverify : BOOLEAN]
\* A probe has its stamp from its first step at the Core on.
Probes ==
    [run : Nat, he : Nat, stage : {"sent"}, stamp : {None}, via : Places, ok : BOOLEAN]
    \cup [run : Nat, he : Nat, stage : {"began", "left", "done"}, stamp : Stamps, via : Places,
          ok : BOOLEAN]

\* The Core and the tracker; only a Core that is up answers and tells.
WorldInv ==
    /\ core \in [up : BOOLEAN, epoch : Nat, version : Nat, watched : BOOLEAN, pick : Names,
                 known : Names, behind : [Names -> Servers], loaded : BOOLEAN,
                 missed : BOOLEAN]
    /\ route \in Routes
    /\ watching \in BOOLEAN /\ visible \in BOOLEAN
    /\ sync \in [stage : {"none", "asked", "answered"}, valid : BOOLEAN, again : BOOLEAN,
                 ce : Nat, rv : Nat]
    /\ events \in Seq([ce : Nat, rv : Nat])
    /\ route.live => route.synced
    /\ route.synced \/ sync.stage = "answered" \/ events # <<>> => core.up

(***************************************************************************)
(* What settles a target, by parts: a re-probe that may be dropped is of a *)
(* watched target, an answer that is held back is being asked about or     *)
(* will be, and one of them or a probe stands behind a target that loads.  *)
(***************************************************************************)
DueOk(h, w) == h.due # None /\ ~h.due.forced => w
LandedOk(h) ==
    h.landed # None =>
        /\ h.inFlight = None
        /\ h.unverified \/ (h.check # None /\ h.check.of = h.landed.stamp)
LoadOk(h) ==
    h.entry.phase = "probing" => h.inFlight # None \/ h.due # None \/ h.landed # None
Loads(h, w) == h \in Hosts /\ DueOk(h, w) /\ LandedOk(h) /\ LoadOk(h)
Out(h, out) == h.inFlight # None => \E p \in out : p.run = h.inFlight

LoadInv ==
    /\ Loads(host, watching) /\ Out(host, probes)
    /\ probes \subseteq Probes /\ IsFiniteSet(probes)

(***************************************************************************)
(* What stamps say.  r and c are the host's route and the Core: an answer  *)
(* of the network of r is of counters that the Core of c has reached, and  *)
(* true when they are its present ones: nothing moved unread since they    *)
(* were counted, nor came back unread.                                     *)
(***************************************************************************)
Reached(ce, rv, c)  == ce <= c.epoch /\ rv <= c.version
Present(ce, rv, c)  == ce = c.epoch /\ rv = c.version /\ Read(c) /\ ~c.missed
IsTrue(stamp, via, r, c) ==
    /\ via \in Exits /\ stamp.hit \in Exits /\ via.name = stamp.hit.name /\ stamp.he <= r.he
    /\ r.synced /\ stamp.he = r.he =>
           /\ Reached(stamp.ce, stamp.rv, c)
           /\ Present(stamp.ce, stamp.rv, c) => stamp.hit = Exit(c)
TrueEntry(e, r, c) == e.phase = "fresh" => IsTrue(e.stamp, e.via, r, c)
Shows(h, r, c) ==
    /\ TrueEntry(h.entry, r, c)
    /\ h.landed # None => TrueEntry(h.landed, r, c)
TrueCheck(k, c) ==
    /\ c.up
    /\ k.stage # "asked" => Reached(k.ce, k.rv, c)
    /\ k.stage = "checked" /\ k.held /\ Present(k.ce, k.rv, c) => k.of.hit = Exit(c)
TrueProbe(p, r, c) ==
    /\ p.stage # "done" => c.up /\ p.he <= r.he
    /\ p.stage \in {"began", "left"} =>
           p.stamp.he = p.he /\ Reached(p.stamp.ce, p.stamp.rv, c)
    /\ p.stage = "left" /\ p.ok =>
           /\ p.via \in Exits
           /\ Present(p.stamp.ce, p.stamp.rv, c) => p.via = Exit(c)
    /\ p.stage = "done" /\ p.ok => IsTrue(p.stamp, p.via, r, c)

Truths(h, out, r, c) ==
    /\ Shows(h, r, c)
    /\ h.check # None => TrueCheck(h.check, c)
    /\ \A p \in out : TrueProbe(p, r, c)

StampInv == Truths(host, probes, route, core)

---------------------------------------------------------------------------

\* None is no answer, re-probe, check or number, and what is shown has a stamp.
LEMMA NoneApart ==
    /\ None \notin Exits /\ None \notin Nat /\ None \notin Stamps /\ None \notin Answers
    /\ None \notin Dues /\ None \notin Checks /\ None \notin Routes
BY ProbeAssumption

LEMMA EntryShapes ==
    /\ Empty \in Entries /\ Probing \in Entries
    /\ Empty.phase = "empty" /\ Probing.phase = "probing" /\ Empty # Probing
    /\ Empty.stamp = None /\ Probing.stamp = None
    /\ \A e \in Entries : e \in {Empty, Probing} \/ e \in Answers
    /\ \A e \in Answers : /\ e.phase \in {"fresh", "failed"} /\ e.stamp \in Stamps
                          /\ e.via \in Places /\ e.stamp # None /\ e # Empty /\ e # None
BY NoneApart DEF Entries, Empty, Probing, Entry, Answers

\* What a handler that judges no answer leaves of a target's answers.
Calm(h, g) ==
    /\ g.entry \in {h.entry, Empty, Probing}
    /\ g.landed \in {h.landed, None}
    /\ g.inFlight \in {h.inFlight, None}

LEMMA CalmTwice ==
    ASSUME NEW h, NEW g, NEW f, Calm(h, g), Calm(g, f)
    PROVE  Calm(h, f)
BY DEF Calm

LEMMA InvalidateLoads ==
    ASSUME NEW h \in Hosts, NEW w \in BOOLEAN, DueOk(h, w)
    PROVE  /\ Loads(Invalidate(h, w), w) /\ Calm(h, Invalidate(h, w))
           /\ Invalidate(h, w).check = h.check
<1>1. CASE w
  <2>1. Due(FALSE, TRUE, TRUE) \in Dues /\ ~Due(FALSE, TRUE, TRUE).forced
    BY DEF Due, Dues
  <2> DEFINE g == [h EXCEPT !.landed = None, !.unverified = FALSE, !.entry = Probing,
                            !.due = Due(FALSE, TRUE, TRUE), !.settle = TRUE, !.cooling = FALSE]
  <2>2. Invalidate(h, w) = g
    BY <1>1 DEF Invalidate, Hosts
  <2>3. /\ g \in Hosts /\ g.landed = None /\ g.due = Due(FALSE, TRUE, TRUE)
        /\ g.entry = Probing /\ g.check = h.check /\ g.inFlight = h.inFlight
    BY <2>1, EntryShapes DEF Hosts
  <2> HIDE DEF g
  <2> QED BY <1>1, <2>1, <2>2, <2>3, NoneApart DEF Loads, DueOk, LandedOk, LoadOk, Calm
<1>2. CASE ~w
  <2> DEFINE g == [h EXCEPT !.landed = None, !.unverified = FALSE, !.inFlight = None,
                            !.entry = Empty]
  <2>1. Invalidate(h, w) = g
    BY <1>2 DEF Invalidate, Hosts
  <2>2. /\ g \in Hosts /\ g.landed = None /\ g.due = h.due /\ g.entry = Empty
        /\ g.check = h.check /\ g.inFlight = None
    BY EntryShapes DEF Hosts
  <2> HIDE DEF g
  <2> QED BY <2>1, <2>2, EntryShapes DEF Loads, DueOk, LandedOk, LoadOk, Calm
<1> QED BY <1>1, <1>2

LEMMA ReprobeLoads ==
    ASSUME NEW h \in Hosts, NEW w \in BOOLEAN, DueOk(h, w), h.landed = None
    PROVE  /\ Loads(Reprobe(h, w), w) /\ Calm(h, Reprobe(h, w))
           /\ Reprobe(h, w).check = h.check
<1>1. CASE w
  <2>1. Due(FALSE, FALSE, FALSE) \in Dues
    BY DEF Due, Dues
  <2> DEFINE g == [h EXCEPT !.entry = Probing, !.due = Due(FALSE, FALSE, FALSE)]
  <2>2. Reprobe(h, w) = g BY <1>1 DEF Reprobe
  <2>3. /\ g \in Hosts /\ g.landed = None /\ g.due = Due(FALSE, FALSE, FALSE)
        /\ g.entry = Probing /\ g.check = h.check /\ g.inFlight = h.inFlight
    BY <2>1, EntryShapes DEF Hosts
  <2> HIDE DEF g
  <2> QED BY <1>1, <2>1, <2>2, <2>3, NoneApart DEF Loads, DueOk, LandedOk, LoadOk, Calm
<1>2. CASE ~w
  <2> DEFINE g == [h EXCEPT !.entry = Empty]
  <2>1. Reprobe(h, w) = g BY <1>2 DEF Reprobe
  <2>2. /\ g \in Hosts /\ g.landed = None /\ g.due = h.due /\ g.entry = Empty
        /\ g.check = h.check /\ g.inFlight = h.inFlight
    BY EntryShapes DEF Hosts
  <2> HIDE DEF g
  <2> QED BY <2>1, <2>2, EntryShapes DEF Loads, DueOk, LandedOk, LoadOk, Calm
<1> QED BY <1>1, <1>2

LEMMA VerifyLoads ==
    ASSUME NEW h \in Hosts, NEW w \in BOOLEAN, NEW r \in Routes, NEW v \in BOOLEAN, Loads(h, w)
    PROVE  /\ Loads(Verify(h, r, v), w) /\ Calm(h, Verify(h, r, v))
           /\ \/ Verify(h, r, v).check = h.check
              \/ r.live /\ Verify(h, r, v).check # None /\ Verify(h, r, v).check.stage = "asked"
<1> DEFINE V == Verify(h, r, v)
<1>1. CASE h.check # None
  <2> DEFINE g == [h EXCEPT !.reverify = TRUE]
  <2>1. V = g BY <1>1 DEF Verify
  <2>2. /\ g \in Hosts /\ g.landed = h.landed /\ g.due = h.due /\ g.entry = h.entry
        /\ g.check = h.check /\ g.inFlight = h.inFlight /\ g.unverified = h.unverified
    BY DEF Hosts
  <2> HIDE DEF g
  <2> QED BY <2>1, <2>2 DEF Loads, DueOk, LandedOk, LoadOk, Calm
<1>2. CASE h.check = None /\ (~r.live \/ ~v \/ ~h.unverified \/ (h.landed = None /\ h.settle))
  <2>1. V = h BY <1>2 DEF Verify
  <2> QED BY <2>1 DEF Calm
<1>3. CASE h.check = None /\ ~(~r.live \/ ~v \/ ~h.unverified \/ (h.landed = None /\ h.settle))
  <2> DEFINE of == IF h.landed # None THEN h.landed.stamp ELSE h.entry.stamp
             g  == [h EXCEPT !.unverified = FALSE]
             k  == [stage |-> "asked", of |-> of, ce |-> 0, rv |-> 0, held |-> FALSE]
             a  == [g EXCEPT !.reverify = FALSE, !.check = k]
  <2>1. V = IF of = None \/ h.inFlight # None THEN g ELSE a
    BY <1>3 DEF Verify
  <2>2. /\ g \in Hosts /\ g.landed = h.landed /\ g.due = h.due /\ g.entry = h.entry
        /\ g.check = h.check /\ g.inFlight = h.inFlight
    BY DEF Hosts
  <2>3. h.landed # None => h.landed \in Answers /\ of = h.landed.stamp /\ of # None
    BY EntryShapes DEF Hosts
  <2>4. CASE of = None \/ h.inFlight # None
    <3>1. h.landed = None BY <2>3, <2>4 DEF Loads, LandedOk
    <3> HIDE DEF g
    <3> QED BY <1>3, <2>1, <2>2, <2>4, <3>1 DEF Loads, DueOk, LandedOk, LoadOk, Calm
  <2>5. CASE ~(of = None \/ h.inFlight # None)
    <3>1. of \in Stamps
      BY <2>3, <2>5, EntryShapes DEF Hosts
    <3>k. k \in Checks /\ k.of = of /\ k.stage = "asked"
      BY <3>1 DEF Checks
    <3> HIDE DEF k
    <3>2. k # None BY <3>k, NoneApart
    <3> HIDE DEF g
    <3>3. /\ a \in Hosts /\ a.landed = h.landed /\ a.due = h.due /\ a.entry = h.entry
          /\ a.check = k /\ a.inFlight = h.inFlight
      BY <2>2, <3>k DEF Hosts
    <3> HIDE DEF a, of
    <3>4. V = a BY <2>1, <2>5
    <3> QED BY <1>3, <2>3, <2>5, <3>k, <3>2, <3>3, <3>4 DEF Loads, DueOk, LandedOk, LoadOk, Calm
  <2> QED BY <2>4, <2>5
<1> QED BY <1>1, <1>2, <1>3

LEMMA SettlesLoads ==
    ASSUME NEW h \in Hosts, NEW w \in BOOLEAN, Loads(h, w)
    PROVE  /\ Loads(SettlesWithin(h), w) /\ Calm(h, SettlesWithin(h))
           /\ SettlesWithin(h).check = h.check
<1> DEFINE g == [h EXCEPT !.settle = @ \/ h.unverified]
<1>1. SettlesWithin(h) = g BY DEF SettlesWithin
<1>2. h.settle \in BOOLEAN /\ h.unverified \in BOOLEAN BY DEF Hosts
<1>3. /\ g \in Hosts /\ g.landed = h.landed /\ g.due = h.due /\ g.entry = h.entry
      /\ g.check = h.check /\ g.inFlight = h.inFlight /\ g.unverified = h.unverified
  BY <1>2 DEF Hosts
<1> HIDE DEF g
<1> QED BY <1>1, <1>3 DEF Loads, DueOk, LandedOk, LoadOk, Calm

LEMMA OnRouteLoads ==
    ASSUME NEW h \in Hosts, NEW prev \in Routes, NEW next \in Routes, NEW w \in BOOLEAN,
           NEW resumed \in BOOLEAN, Loads(h, w)
    PROVE  LET o == OnRoute(h, prev, next, w, resumed) IN
           Loads(o, w) /\ Calm(h, o) /\ o.check = h.check
<1> DEFINE moved == prev.ce # next.ce \/ prev.he # next.he
           e == h.entry
           Keeps(x) == x \in Hosts /\ Loads(x, w) /\ Calm(h, x) /\ x.check = h.check
<1>1. ASSUME NEW x, Keeps(x) PROVE Keeps(Invalidate(x, w))
  <2>1. Loads(Invalidate(x, w), w) /\ Calm(x, Invalidate(x, w)) /\ Invalidate(x, w).check = x.check
    BY <1>1, InvalidateLoads DEF Loads
  <2> QED BY <1>1, <2>1, CalmTwice DEF Loads
<1>2. Keeps(h) BY DEF Calm
<1>3. PICK g : /\ g = IF h.landed # None /\ MovedSince(next, h.landed.stamp)
                      THEN Invalidate(h, w) ELSE h
               /\ Keeps(g)
  BY <1>1, <1>2
<1>4. ASSUME w, Keeps(g) PROVE Keeps([g EXCEPT !.due = Due(FALSE, FALSE, FALSE)])
  <2>1. Due(FALSE, FALSE, FALSE) \in Dues
    BY DEF Due, Dues
  <2> DEFINE x == [g EXCEPT !.due = Due(FALSE, FALSE, FALSE)]
  <2>2. /\ x \in Hosts /\ x.landed = g.landed /\ x.due = Due(FALSE, FALSE, FALSE)
        /\ x.entry = g.entry /\ x.check = g.check /\ x.inFlight = g.inFlight
        /\ x.unverified = g.unverified
    BY <1>4, <2>1 DEF Hosts
  <2> HIDE DEF x
  <2>3. Loads(x, w) BY <1>4, <2>1, <2>2, NoneApart DEF Loads, DueOk, LandedOk, LoadOk
  <2>4. Calm(h, x) BY <1>4, <2>2 DEF Calm
  <2>5. Keeps(x) BY <1>4, <2>2, <2>3, <2>4
  <2> QED BY <2>5 DEF x
<1>5. ASSUME Keeps(g) PROVE Keeps([g EXCEPT !.unverified = TRUE])
  <2> DEFINE x == [g EXCEPT !.unverified = TRUE]
  <2>2. /\ x \in Hosts /\ x.landed = g.landed /\ x.due = g.due
        /\ x.entry = g.entry /\ x.check = g.check /\ x.inFlight = g.inFlight
        /\ x.unverified
    BY <1>5 DEF Hosts
  <2> HIDE DEF x
  <2>3. Loads(x, w) BY <1>5, <2>2 DEF Loads, DueOk, LandedOk, LoadOk
  <2>4. Calm(h, x) BY <1>5, <2>2 DEF Calm
  <2>5. Keeps(x) BY <1>5, <2>2, <2>3, <2>4
  <2> QED BY <2>5 DEF x
<1>6. PICK f : /\ f = IF e = Empty THEN g
                      ELSE IF g.inFlight # None THEN IF moved THEN Invalidate(g, w) ELSE g
                      ELSE IF e.stamp = None THEN g
                      ELSE IF MovedSince(next, e.stamp) THEN Invalidate(g, w)
                      ELSE IF resumed /\ e.phase = "failed" /\ w
                           THEN [g EXCEPT !.due = Due(FALSE, FALSE, FALSE)]
                      ELSE IF e.stamp.rv # next.rv THEN [g EXCEPT !.unverified = TRUE]
                      ELSE g
               /\ Keeps(f)
  <2> HIDE DEF Keeps, e, moved
  <2> QED BY <1>1, <1>3, <1>4, <1>5
<1>7. OnRoute(h, prev, next, w, resumed) = SettlesWithin(f)
  BY <1>3, <1>6 DEF OnRoute
<1>8. /\ Loads(SettlesWithin(f), w) /\ Calm(f, SettlesWithin(f))
      /\ SettlesWithin(f).check = f.check
  BY <1>6, SettlesLoads
<1>9. Calm(h, SettlesWithin(f)) BY <1>6, <1>8, CalmTwice
<1> QED BY <1>6, <1>7, <1>8, <1>9

LEMMA LandsLoads ==
    ASSUME NEW h \in Hosts, watching \in BOOLEAN, DueOk(h, watching),
           h.inFlight = None, h.landed = None,
           NEW r \in Routes, NEW phase \in {"fresh", "failed"}, NEW stamp \in Stamps,
           NEW via \in Places
    PROVE  LET g == Lands(h, r, phase, stamp, via) IN
           /\ Loads(g, watching) /\ g.check = h.check /\ g.inFlight = None
           /\ g.landed \in {None, Entry(phase, stamp, via)}
           /\ g.entry \in {h.entry, Empty, Probing, Entry("failed", stamp, None),
                           Entry(phase, stamp, via)}
<1> DEFINE a == Entry(phase, stamp, via)
           n == Entry("failed", stamp, None)
           g == Lands(h, r, phase, stamp, via)
<1>1. a \in Answers /\ n \in Answers /\ a.phase = phase /\ n.phase = "failed"
  BY DEF Entry, Answers, Places
<1>2. a \in Entries /\ n \in Entries BY <1>1 DEF Entries
<1> HIDE DEF a, n
<1>3. CASE (~r.synced \/ MovedSince(r, stamp)) /\ h.staleUnder # r
  <2> DEFINE x == [h EXCEPT !.staleUnder = r]
  <2>1. g = Invalidate(x, watching) BY <1>3 DEF Lands
  <2>2. /\ x \in Hosts /\ x.landed = None /\ x.due = h.due /\ x.entry = h.entry
        /\ x.check = h.check /\ x.inFlight = None
    BY DEF Hosts
  <2> HIDE DEF x
  <2>3. /\ Loads(Invalidate(x, watching), watching) /\ Calm(x, Invalidate(x, watching))
        /\ Invalidate(x, watching).check = x.check
    BY <2>2, InvalidateLoads DEF DueOk
  <2> QED BY <2>1, <2>2, <2>3 DEF Calm
<1>4. CASE (~r.synced \/ MovedSince(r, stamp)) /\ h.staleUnder = r
  <2> DEFINE y == IF watching THEN n ELSE Empty
             x == [h EXCEPT !.entry = y]
  <2>1. g = x BY <1>4 DEF Lands, n
  <2>2. y \in Entries /\ y.phase # "probing" /\ y \in {Empty, n}
    BY <1>1, <1>2, EntryShapes
  <2> HIDE DEF y
  <2>3. /\ x \in Hosts /\ x.landed = None /\ x.due = h.due /\ x.entry = y
        /\ x.check = h.check /\ x.inFlight = None
    BY <2>2 DEF Hosts
  <2> HIDE DEF x
  <2>4. Loads(x, watching) BY <2>2, <2>3 DEF Loads, DueOk, LandedOk, LoadOk
  <2> QED BY <2>1, <2>2, <2>3, <2>4 DEF n
<1>5. CASE ~(~r.synced \/ MovedSince(r, stamp)) /\ stamp.rv = r.rv
  <2> DEFINE x == [h EXCEPT !.staleUnder = None, !.entry = a]
  <2>1. g = x BY <1>5 DEF Lands, a
  <2>2. /\ x \in Hosts /\ x.landed = None /\ x.due = h.due /\ x.entry = a
        /\ x.check = h.check /\ x.inFlight = None
    BY <1>2 DEF Hosts
  <2> HIDE DEF x
  <2>3. Loads(x, watching) BY <1>1, <2>2 DEF Loads, DueOk, LandedOk, LoadOk
  <2> QED BY <2>1, <2>2, <2>3 DEF a
<1>6. CASE ~(~r.synced \/ MovedSince(r, stamp)) /\ stamp.rv # r.rv
  <2> DEFINE x == [h EXCEPT !.staleUnder = None, !.landed = a, !.unverified = TRUE]
  <2>1. g = x BY <1>6 DEF Lands, a
  <2>2. /\ x \in Hosts /\ x.landed = a /\ x.due = h.due /\ x.entry = h.entry
        /\ x.check = h.check /\ x.inFlight = None /\ x.unverified
    BY <1>1 DEF Hosts
  <2> HIDE DEF x
  <2>3. Loads(x, watching)
    BY <1>1, <2>2, NoneApart DEF Loads, DueOk, LandedOk, LoadOk
  <2> QED BY <2>1, <2>2, <2>3 DEF a
<1> QED BY <1>3, <1>4, <1>5, <1>6

\* What is left of an answer that still holds: the later counters.
Later(of, check) == [of EXCEPT !.rv = IF of.rv > check.rv THEN of.rv ELSE check.rv]
Holds(of, check) == check.stage = "checked" /\ check.ce = of.ce /\ check.held

LEMMA JudgedLoads ==
    ASSUME NEW h \in Hosts, watching \in BOOLEAN, DueOk(h, watching), LoadOk(h), h.check = None,
           NEW r \in Routes, NEW of \in Stamps, NEW check \in Checks,
           h.landed # None =>
               h.inFlight = None /\ (h.unverified \/ of = h.landed.stamp)
    PROVE  LET g == Judged(h, r, of, check) IN
           /\ Loads(g, watching) /\ g.check = None /\ g.inFlight \in {h.inFlight, None}
           /\ g.landed \in {h.landed, None}
           /\ \/ g.entry \in {h.entry, Empty, Probing}
              \/ \E e \in Answers \cap {h.entry, h.landed} :
                    /\ e.stamp = of /\ Holds(of, check)
                    /\ g.entry = [e EXCEPT !.stamp = Later(of, check)]
<1> DEFINE e == IF h.landed # None THEN h.landed ELSE h.entry
           x == [h EXCEPT !.landed = None]
           J == Judged(h, r, of, check)
<1>1. /\ x \in Hosts /\ x.landed = None /\ x.due = h.due /\ x.entry = h.entry
      /\ x.check = None /\ x.inFlight = h.inFlight /\ x.unverified = h.unverified
  BY DEF Hosts
<1>2. e \in Entries /\ e \in {h.entry, h.landed}
  BY DEF Hosts, Entries
<1>3. CASE e = Empty \/ e.stamp # of \/ h.inFlight # None
  <2>1. J = h BY <1>3 DEF Judged
  <2>2. h.landed # None => h.landed \in Answers /\ e = h.landed /\ h.landed # Empty
    BY EntryShapes DEF Hosts
  <2>3. LandedOk(h) BY <1>3, <2>2 DEF LandedOk
  <2> QED BY <2>1, <2>3 DEF Loads
<1>4. CASE ~(e = Empty \/ e.stamp # of \/ h.inFlight # None)
  <2>1. e \in Answers BY <1>2, <1>4, EntryShapes, NoneApart
  <2>2. CASE MovedSince(r, of)
    <3>1. J = Invalidate(x, watching) BY <1>4, <2>2 DEF Judged
    <3> HIDE DEF x
    <3>2. /\ Loads(Invalidate(x, watching), watching) /\ Calm(x, Invalidate(x, watching))
          /\ Invalidate(x, watching).check = x.check
      BY <1>1, InvalidateLoads DEF DueOk
    <3> QED BY <1>1, <3>1, <3>2 DEF Calm
  <2>3. CASE ~MovedSince(r, of) /\ ~Holds(of, check)
    <3>1. J = Reprobe(x, watching) BY <1>4, <2>3 DEF Judged, Holds
    <3> HIDE DEF x
    <3>2. /\ Loads(Reprobe(x, watching), watching) /\ Calm(x, Reprobe(x, watching))
          /\ Reprobe(x, watching).check = x.check
      BY <1>1, ReprobeLoads DEF DueOk
    <3> QED BY <1>1, <3>1, <3>2 DEF Calm
  <2>4. CASE ~MovedSince(r, of) /\ Holds(of, check)
    <3> DEFINE rv == IF of.rv > check.rv THEN of.rv ELSE check.rv
               a == [e EXCEPT !.stamp = Later(of, check)]
               b == x.unverified \/ (rv # r.rv /\ rv > of.rv)
               y == [x EXCEPT !.entry = a, !.unverified = b]
    <3>1. rv \in Nat BY DEF Stamps, Checks
    <3>2. Later(of, check) \in Stamps
      BY <3>1 DEF Later, Stamps
    <3>3. a \in Answers /\ a.phase = e.phase BY <2>1, <3>2 DEF Answers
    <3>4. a = [e EXCEPT !.stamp.rv = rv] BY <1>4 DEF Later
    <3>5. J = y
      BY <1>4, <2>4, <3>4 DEF Judged, Holds
    <3> HIDE DEF a, x, b
    <3>6. b \in BOOLEAN BY DEF b
    <3>7. a \in Entries /\ a.phase # "probing" BY <3>3, EntryShapes DEF Entries
    <3>8. /\ y \in Hosts /\ y.landed = None /\ y.due = h.due /\ y.entry = a
          /\ y.check = None /\ y.inFlight = h.inFlight
      BY <1>1, <3>6, <3>7 DEF Hosts
    <3> HIDE DEF y
    <3>9. Loads(y, watching) BY <3>7, <3>8 DEF Loads, DueOk, LandedOk, LoadOk
    <3> HIDE DEF e
    <3> QED BY <1>2, <1>4, <2>1, <2>4, <3>5, <3>8, <3>9 DEF a
  <2> QED BY <2>2, <2>3, <2>4
<1> QED BY <1>3, <1>4

LEMMA RunIsNew ==
    ASSUME NEW out, IsFiniteSet(out)
    PROVE  IsFiniteSet(LastOut(out)) /\ Run(LastOut(out)) \in Nat
<1> DEFINE L == LastOut(out)
<1>1. L \subseteq out /\ IsFiniteSet(L)
  BY FS_Subset DEF LastOut
<1>2. Cardinality(L) \in Nat /\ (Cardinality(L) = 0 <=> L = {})
  BY <1>1, FS_CardinalityType, FS_EmptySet
<1>3. \A p \in L : p.run = host.inFlight BY DEF LastOut
<1> HIDE DEF L
<1>4. \E n \in 1..(Cardinality(L) + 1) : \A p \in L : p.run # n
  <2>1. CASE L = {} \/ host.inFlight # 1
    <3>1. 1 \in 1..(Cardinality(L) + 1) BY <1>2
    <3>2. \A p \in L : p.run # 1 BY <1>3, <2>1
    <3> QED BY <3>1, <3>2
  <2>2. CASE L # {} /\ host.inFlight = 1
    <3>1. 2 \in 1..(Cardinality(L) + 1) BY <1>2, <2>2
    <3>2. \A p \in L : p.run # 2 BY <1>3, <2>2
    <3> QED BY <3>1, <3>2
  <2> QED BY <2>1, <2>2
<1>5. Run(L) \in 1..(Cardinality(L) + 1)
  BY <1>4 DEF Run
<1>6. \A n \in 1..(Cardinality(L) + 1) : n \in Nat BY <1>2
<1>7. Run(L) \in Nat BY <1>5, <1>6
<1> QED BY <1>1, <1>7 DEF L

\* What a launch leaves of a target and of the probes that are out.
Launched(h, out) ==
    /\ Loads(host', watching') /\ Out(host', probes')
    /\ host'.entry \in {h.entry, Empty, Probing} /\ host'.landed \in {h.landed, None}
    /\ host'.check = h.check
    /\ probes' \subseteq Probes /\ IsFiniteSet(probes')
    /\ \A p \in probes' : \/ p \in out
                          \/ p.stage = "sent" /\ p.he = route'.he /\ route'.live

LEMMA LaunchLoads ==
    ASSUME NEW h \in Hosts, NEW out, out \subseteq Probes, IsFiniteSet(out),
           Loads(h, watching'), Out(h, out), route' \in Routes, watching' \in BOOLEAN,
           Launch(h, out)
    PROVE  Launched(h, out)
<1>1. CASE Waits(h, out)
  BY <1>1 DEF Waits, Launched
<1>2. CASE Drops(h, out)
  <2>1. host' = NoDue(h) /\ probes' = out /\ h.due # None /\ ~Wanted(h)
    BY <1>2 DEF Drops, Pending
  <2> DEFINE g == [h EXCEPT !.due = None, !.cooling = FALSE]
  <2>2. NoDue(h) = g BY DEF NoDue
  <2>3. /\ g \in Hosts /\ g.landed = h.landed /\ g.due = None /\ g.entry = h.entry
        /\ g.check = h.check /\ g.inFlight = h.inFlight /\ g.unverified = h.unverified
    BY DEF Hosts
  <2> HIDE DEF g
  <2>4. h.inFlight # None BY <2>1 DEF Wanted, Loads, DueOk
  <2>5. Loads(g, watching') BY <2>3, <2>4 DEF Loads, DueOk, LandedOk, LoadOk
  <2>6. Out(g, out) BY <2>3 DEF Out
  <2> QED BY <2>1, <2>2, <2>3, <2>5, <2>6 DEF Launched
<1>3. CASE Launches(h, out)
  <2>1. CASE host' = [h EXCEPT !.cooling = TRUE] /\ probes' = out
    <3> DEFINE g == [h EXCEPT !.cooling = TRUE]
    <3>1. /\ g \in Hosts /\ g.landed = h.landed /\ g.due = h.due /\ g.entry = h.entry
          /\ g.check = h.check /\ g.inFlight = h.inFlight /\ g.unverified = h.unverified
      BY DEF Hosts
    <3>2. host' = g BY <2>1
    <3> HIDE DEF g
    <3>3. Loads(g, watching') BY <3>1 DEF Loads, DueOk, LandedOk, LoadOk
    <3>4. Out(g, out) BY <3>1 DEF Out
    <3> QED BY <2>1, <3>1, <3>2, <3>3, <3>4 DEF Launched
  <2>2. CASE ~(host' = [h EXCEPT !.cooling = TRUE] /\ probes' = out)
    <3> DEFINE L == LastOut(out)
               n == Run(L)
               x == NoDue(h)
               g == [x EXCEPT !.landed = None, !.unverified = FALSE, !.entry = Probing,
                              !.inFlight = n]
               q == [run |-> n, he |-> route'.he, stage |-> "sent", stamp |-> None,
                     via |-> None, ok |-> FALSE]
    <3>1. route'.live /\ host' = g /\ probes' = L \cup {q}
      BY <1>3, <2>2 DEF Launches, Pending
    <3>2. IsFiniteSet(L) /\ n \in Nat BY RunIsNew
    <3>3. n # None BY <3>2, NoneApart
    <3>4. L \subseteq out BY DEF LastOut
    <3> HIDE DEF L, n
    <3>5. q \in Probes /\ q.run = n /\ q.he = route'.he /\ q.stage = "sent"
      BY <3>2 DEF Probes, Routes, Places
    <3> HIDE DEF q
    <3>6. x = [h EXCEPT !.due = None, !.cooling = FALSE] BY DEF NoDue
    <3>7. x \in Hosts /\ x.due = None /\ x.check = h.check
      BY <3>6 DEF Hosts
    <3> HIDE DEF x
    <3>8. /\ g \in Hosts /\ g.landed = None /\ g.due = None /\ g.entry = Probing
          /\ g.check = h.check /\ g.inFlight = n
      BY <3>2, <3>7, EntryShapes DEF Hosts
    <3> HIDE DEF g
    <3>9. Loads(g, watching') BY <3>3, <3>8 DEF Loads, DueOk, LandedOk, LoadOk
    <3>10. Out(g, probes') BY <3>1, <3>5, <3>8 DEF Out
    <3>11. IsFiniteSet(L \cup {q}) BY <3>2, FS_AddElement
    <3> QED BY <3>1, <3>4, <3>5, <3>8, <3>9, <3>10, <3>11 DEF Launched
  <2> QED BY <2>1, <2>2
<1> QED BY <1>1, <1>2, <1>3 DEF Launch

---------------------------------------------------------------------------

LEMMA HearsLoads ==
    ASSUME NEW h \in Hosts, Loads(h, watching'), Out(h, probes),
           probes \subseteq Probes, IsFiniteSet(probes),
           route \in Routes, route' \in Routes, watching' \in BOOLEAN, Hears(h)
    PROVE  Launched(h, probes)
<1>1. CASE route' = route
  BY <1>1 DEF Hears, Launched
<1>2. CASE route' # route
  <2> DEFINE o == OnRoute(h, route, route', watching', FALSE)
  <2>1. Loads(o, watching') /\ Calm(h, o) /\ o.check = h.check
    BY OnRouteLoads
  <2>2. Launch(o, probes) BY <1>2 DEF Hears
  <2> HIDE DEF o
  <2>3. o \in Hosts BY <2>1 DEF Loads
  <2>4. Out(o, probes) BY <2>1 DEF Calm, Out
  <2>5. Launched(o, probes) BY <2>1, <2>2, <2>3, <2>4, LaunchLoads
  <2> QED BY <2>1, <2>5 DEF Launched, Calm
<1> QED BY <1>1, <1>2

LEMMA MarkLoads ==
    ASSUME WorldInv, LoadInv, NEW forced \in BOOLEAN, Loads(host, watching'), forced \/ watching',
           route' \in Routes, watching' \in BOOLEAN, Mark(forced)
    PROVE  Launched(host, probes)
<1>1. CASE host.inFlight # None
  BY <1>1 DEF Mark, Launched, LoadInv
<1>2. CASE host.inFlight = None
  <2> DEFINE d == IF host.due = None THEN Due(forced, FALSE, FALSE)
                  ELSE Due(forced \/ host.due.forced, host.due.supersede, FALSE)
             g == [host EXCEPT !.due = d]
  <2>0. host \in Hosts /\ host.due \in Dues \cup {None} BY DEF Loads, Hosts
  <2>1. d \in Dues /\ (~d.forced => watching')
    BY <2>0 DEF Due, Dues
  <2>2. Launch(g, probes) BY <1>2 DEF Mark
  <2> HIDE DEF d
  <2>3. /\ g \in Hosts /\ g.landed = host.landed /\ g.due = d /\ g.entry = host.entry
        /\ g.check = host.check /\ g.inFlight = host.inFlight /\ g.unverified = host.unverified
    BY <2>0, <2>1 DEF Hosts
  <2> HIDE DEF g
  <2>4. Loads(g, watching') BY <2>1, <2>3, NoneApart DEF Loads, DueOk, LandedOk, LoadOk
  <2>5. Out(g, probes) BY <1>2, <2>3 DEF Out
  <2>6. Launched(g, probes) BY <2>2, <2>3, <2>4, <2>5, LaunchLoads DEF LoadInv
  <2> QED BY <2>3, <2>6 DEF Launched
<1> QED BY <1>1, <1>2

\* The Core's counters only grow, and where it leaves changes with them, or unread or
\* missed; the host counts its network.
CoreMoves(c, d) ==
    /\ d.up = c.up /\ c.epoch <= d.epoch /\ c.version <= d.version
    /\ d.version = c.version /\ Read(d) /\ ~d.missed =>
           Read(c) /\ ~c.missed /\ Exit(d) = Exit(c) /\ d.epoch = c.epoch
RouteMoves(r, s) == r.he <= s.he /\ (s.synced /\ s.he = r.he => r.synced)

CoreStates == [up : BOOLEAN, epoch : Nat, version : Nat, watched : BOOLEAN, pick : Names,
               known : Names, behind : [Names -> Servers], loaded : BOOLEAN, missed : BOOLEAN]

\* Where a connection leaves is a name with the server behind it.
LEMMA ExitsAre ==
    /\ \A c \in CoreStates : /\ Exit(c) \in Exits /\ Exit(c).name = c.pick
                             /\ \A m \in Names : Through(c, m) \in Exits
                             /\ \A m : Through(c, m).name = m
    /\ \A x \in Exits : x.name \in Names
BY DEF CoreStates, Exit, Through, Exits

\* Nothing else of the Core says where it leaves.
LEMMA SameExit ==
    ASSUME NEW c, NEW d, d.pick = c.pick, d.behind = c.behind
    PROVE  Exit(d) = Exit(c)
BY DEF Exit, Through

LEMMA TrueMoves ==
    ASSUME NEW c \in CoreStates, NEW d \in CoreStates, CoreMoves(c, d),
           NEW r \in Routes, NEW s \in Routes, RouteMoves(r, s)
    PROVE  /\ \A stamp \in Stamps : \A via : IsTrue(stamp, via, r, c) => IsTrue(stamp, via, s, d)
           /\ \A k \in Checks : TrueCheck(k, c) => TrueCheck(k, d)
           /\ \A p \in Probes : TrueProbe(p, r, c) => TrueProbe(p, s, d)
<1>t. /\ c.epoch \in Nat /\ c.version \in Nat /\ d.epoch \in Nat /\ d.version \in Nat
      /\ r.he \in Nat /\ s.he \in Nat
  BY DEF CoreStates, Routes
<1>0. ASSUME NEW ce \in Nat, NEW rv \in Nat, Reached(ce, rv, c)
      PROVE  Reached(ce, rv, d) /\ (Present(ce, rv, d) => Present(ce, rv, c) /\ Exit(d) = Exit(c))
  BY <1>0, <1>t DEF Reached, Present, CoreMoves
<1>1. ASSUME NEW stamp \in Stamps, NEW via, IsTrue(stamp, via, r, c)
      PROVE  IsTrue(stamp, via, s, d)
  <2>1. stamp.ce \in Nat /\ stamp.rv \in Nat /\ stamp.he \in Nat BY DEF Stamps
  <2>2. /\ via \in Exits /\ stamp.hit \in Exits /\ via.name = stamp.hit.name
        /\ stamp.he <= s.he
    BY <1>1, <1>t, <2>1 DEF IsTrue, RouteMoves
  <2>3. ASSUME s.synced, stamp.he = s.he
        PROVE  r.synced /\ stamp.he = r.he
    BY <1>1, <1>t, <2>1, <2>3 DEF IsTrue, RouteMoves
  <2> QED BY <1>0, <1>1, <2>1, <2>2, <2>3 DEF IsTrue
<1>2. ASSUME NEW k \in Checks, TrueCheck(k, c) PROVE TrueCheck(k, d)
  <2>1. k.ce \in Nat /\ k.rv \in Nat BY DEF Checks
  <2> QED BY <1>0, <1>2, <2>1 DEF TrueCheck, CoreMoves
<1>3. ASSUME NEW p \in Probes, TrueProbe(p, r, c) PROVE TrueProbe(p, s, d)
  <2>1. p.he \in Nat /\ (p.stage # "sent" => p.stamp \in Stamps) BY DEF Probes
  <2>2. p.stage # "sent" => p.stamp.ce \in Nat /\ p.stamp.rv \in Nat BY <2>1 DEF Stamps
  <2>3. p.he <= r.he => p.he <= s.he BY <1>t, <2>1 DEF RouteMoves
  <2> QED BY <1>0, <1>1, <1>3, <2>1, <2>2, <2>3 DEF TrueProbe, CoreMoves
<1> QED BY <1>1, <1>2, <1>3

\* What the tracker and the Core may do to each other.
SyncStates == [stage : {"none", "asked", "answered"}, valid : BOOLEAN, again : BOOLEAN,
               ce : Nat, rv : Nat]

LEMMA WorldInit == Init => WorldInv
<1> SUFFICES ASSUME Init PROVE WorldInv OBVIOUS
<1> DEFINE x == CHOOSE n \in Names : TRUE
           y == CHOOSE v \in Servers : TRUE
<1>1. x \in Names /\ y \in Servers BY ProbeAssumption
<1>2. core = [up |-> TRUE, epoch |-> 0, version |-> 0, watched |-> FALSE,
              pick |-> x, known |-> x, behind |-> [n \in Names |-> y],
              loaded |-> FALSE, missed |-> FALSE]
  BY DEF Init
<1> HIDE DEF x, y
<1>3. core \in CoreStates /\ core.up
  BY <1>1, <1>2 DEF CoreStates
<1>4. /\ route = [ce |-> 0, rv |-> 0, he |-> 0, synced |-> FALSE, live |-> FALSE]
      /\ watching = FALSE /\ visible = TRUE /\ sync = NoSync /\ events = <<>>
  BY DEF Init
<1>5. route \in Routes /\ ~route.live BY <1>4 DEF Routes
<1>6. sync \in SyncStates BY <1>4 DEF NoSync, SyncStates
<1>7. events \in Seq([ce : Nat, rv : Nat]) BY <1>4
<1> QED BY <1>3, <1>4, <1>5, <1>6, <1>7 DEF WorldInv, CoreStates, SyncStates

LEMMA SubscribeSync ==
    ASSUME sync \in SyncStates, NEW w, NEW v, Subscribe(w, v)
    PROVE  sync' \in SyncStates /\ (sync'.stage = "answered" => sync.stage = "answered")
<1>1. CASE ~Ready(w, v)
  BY <1>1 DEF Subscribe
<1>2. CASE Ready(w, v) /\ sync.stage # "none"
  BY <1>2 DEF Subscribe, SyncStates
<1>3. CASE Ready(w, v) /\ sync.stage = "none"
  BY <1>3 DEF Subscribe, SyncStates, NoSync
<1> QED BY <1>1, <1>2, <1>3

LEMMA CountedIs ==
    ASSUME core \in CoreStates
    PROVE  Counted \in CoreStates /\ CoreMoves(core, Counted)
<1>1. core.version \in Nat /\ core.epoch \in Nat BY DEF CoreStates
<1>2. CASE Read(core)
  <2>1. Counted = core BY <1>2 DEF Counted
  <2> QED BY <1>1, <1>2, <2>1 DEF CoreMoves
<1>3. CASE ~Read(core)
  <2> DEFINE d == [core EXCEPT !.version = @ + 1, !.known = core.pick, !.loaded = FALSE,
                               !.missed = FALSE]
  <2>1. Counted = d BY <1>3 DEF Counted
  <2>2. core.version + 1 \in Nat /\ core.pick \in Names BY <1>1 DEF CoreStates
  <2>3. /\ d \in CoreStates /\ d.up = core.up /\ d.epoch = core.epoch
        /\ d.version = core.version + 1
    BY <2>2 DEF CoreStates
  <2> HIDE DEF d
  <2>4. core.version <= d.version /\ d.version # core.version BY <1>1, <2>3
  <2> QED BY <1>1, <2>1, <2>3, <2>4 DEF CoreMoves
<1> QED BY <1>2, <1>3

LEMMA PublishesEvents ==
    ASSUME events \in Seq([ce : Nat, rv : Nat]), NEW c \in CoreStates, Publishes(c)
    PROVE  events' \in Seq([ce : Nat, rv : Nat])
<1>1. [ce |-> c.epoch, rv |-> c.version] \in [ce : Nat, rv : Nat] BY DEF CoreStates
<1> DEFINE S == [ce : Nat, rv : Nat]
           x == [ce |-> c.epoch, rv |-> c.version]
<1>2. events' = events \/ events' = Append(events, x) BY DEF Publishes
<1>3. events \in Seq(S) /\ x \in S BY <1>1
<1> HIDE DEF S, x
<1>4. Append(events, x) \in Seq(S) BY <1>3
<1>5. events' \in Seq(S) BY <1>2, <1>3, <1>4
<1> QED BY <1>5 DEF S

LEMMA SnapshotRoute ==
    ASSUME route \in Routes, NEW ce \in Nat, NEW rv \in Nat, Snapshot(ce, rv)
    PROVE  /\ route' \in Routes /\ route'.synced /\ route'.live
           /\ RouteMoves(route, route')
  BY DEF Snapshot, Routes, RouteMoves

\* What each step leaves of the Core, the tracker and the flags.
LEMMA WorldNext ==
    ASSUME WorldInv, [Next]_vars
    PROVE  WorldInv'
<1> USE DEF CoreStates, SyncStates
<1>w. /\ core \in CoreStates /\ route \in Routes /\ sync \in SyncStates
      /\ watching \in BOOLEAN /\ visible \in BOOLEAN
      /\ events \in Seq([ce : Nat, rv : Nat])
      /\ route.live => route.synced
      /\ route.synced \/ sync.stage = "answered" \/ events # <<>> => core.up
  BY DEF WorldInv
<1>n. NoSync \in SyncStates /\ NoSync.stage = "none" BY DEF NoSync
<1>l. [route EXCEPT !.live = FALSE] \in Routes BY <1>w DEF Routes
<1>s. sync.valid \in BOOLEAN /\ [sync EXCEPT !.valid = FALSE] \in SyncStates BY <1>w
<1>a. [NoSync EXCEPT !.stage = "asked", !.valid = TRUE] \in SyncStates BY DEF NoSync
<1>b. [NoSync EXCEPT !.stage = "asked", !.valid = TRUE].stage = "asked" BY DEF NoSync
<1> HIDE DEF CoreStates, SyncStates
<1>g. ASSUME core' \in CoreStates, route' \in Routes, sync' \in SyncStates,
             watching' \in BOOLEAN, visible' \in BOOLEAN, events' \in Seq([ce : Nat, rv : Nat]),
             route'.live => route'.synced,
             route'.synced \/ sync'.stage = "answered" \/ events' # <<>> => core'.up
      PROVE  WorldInv'
  BY <1>g DEF WorldInv, CoreStates, SyncStates
<1>1. CASE Watch
  <2>1. /\ sync' \in SyncStates /\ (sync'.stage = "answered" => sync.stage = "answered")
        /\ watching' = TRUE /\ UNCHANGED <<core, visible, route, events>>
    BY <1>1, <1>w, SubscribeSync DEF Watch, world
  <2> QED BY <2>1, <1>w, <1>g
<1>2. CASE Unwatch
  <2>1. /\ sync' = [sync EXCEPT !.valid = FALSE] /\ route' = [route EXCEPT !.live = FALSE]
        /\ watching' = FALSE /\ UNCHANGED <<core, visible, events>>
    BY <1>2 DEF Unwatch, Unsubscribe
  <2>2. sync'.stage = sync.stage /\ route'.synced = route.synced /\ ~route'.live
    BY <2>1, <1>w DEF SyncStates, Routes
  <2> QED BY <2>1, <2>2, <1>w, <1>l, <1>s, <1>g
<1>3. CASE Hide
  <2>1. /\ \/ /\ sync' = [sync EXCEPT !.valid = FALSE] /\ route' = [route EXCEPT !.live = FALSE]
           \/ UNCHANGED <<route, sync>>
        /\ visible' = FALSE /\ UNCHANGED <<core, watching, events>>
    BY <1>3 DEF Hide, Unsubscribe
  <2>2. sync'.stage = sync.stage /\ route'.synced = route.synced /\ (route'.live => route.live)
    BY <2>1, <1>w DEF SyncStates, Routes
  <2> QED BY <2>1, <2>2, <1>w, <1>l, <1>s, <1>g
<1>4. CASE Show
  <2>1. /\ sync' \in SyncStates /\ (sync'.stage = "answered" => sync.stage = "answered")
        /\ visible' = TRUE /\ UNCHANGED <<core, watching, route, events>>
    BY <1>4, <1>w, SubscribeSync DEF Show, world
  <2> QED BY <2>1, <1>w, <1>g
<1>5. CASE Refresh \/ Resume \/ Settled \/ Cooled \/ CheckStamp \/ CheckRoute \/ UNCHANGED vars
  <2>1. UNCHANGED <<core, route, sync, watching, visible, events>>
    BY <1>5 DEF Refresh, Resume, Settled, Cooled, CheckStamp, CheckRoute, vars, world, tracker
  <2> QED BY <2>1, <1>w, <1>g
<1>6. CASE Repick
  <2>1. /\ core.up /\ UNCHANGED <<route, sync, watching, visible, events>>
        /\ \E n \in Names :
              core' = [core EXCEPT !.pick = n, !.missed = @ \/ Read([core EXCEPT !.pick = n])]
    BY <1>6 DEF Repick, tracker
  <2>2. ASSUME NEW n \in Names PROVE Read([core EXCEPT !.pick = n]) \in BOOLEAN
    BY DEF Read
  <2>3. core' \in CoreStates /\ core'.up = core.up BY <2>1, <2>2, <1>w DEF CoreStates
  <2> QED BY <2>1, <2>3, <1>w, <1>g
<1>18. CASE Load
  <2>1. /\ core.up /\ UNCHANGED <<route, sync, watching, visible, events>>
        /\ \E n \in Names, v \in Servers :
              core' = [core EXCEPT !.pick = n, !.behind = [@ EXCEPT ![n] = v], !.loaded = TRUE]
    BY <1>18 DEF Load, tracker
  <2>2. PICK n \in Names, v \in Servers :
              core' = [core EXCEPT !.pick = n, !.behind = [core.behind EXCEPT ![n] = v],
                                   !.loaded = TRUE]
    BY <2>1, <1>w DEF CoreStates
  <2>3. [core.behind EXCEPT ![n] = v] \in [Names -> Servers]
    <3>1. core.behind \in [Names -> Servers] BY <1>w DEF CoreStates
    <3> QED BY <3>1
  <2>4. core' \in CoreStates /\ core'.up = core.up BY <2>2, <2>3, <1>w DEF CoreStates
  <2> QED BY <2>1, <2>4, <1>w, <1>g
<1>7. CASE RefreshRoute
  <2>1. /\ core.up /\ UNCHANGED <<route, sync, watching, visible>> /\ core' = Counted
        /\ Publishes(Counted)
    BY <1>7 DEF RefreshRoute
  <2>2. Counted \in CoreStates /\ Counted.up = core.up
    BY <1>w, CountedIs DEF CoreMoves
  <2>3. events' \in Seq([ce : Nat, rv : Nat]) BY <2>1, <2>2, <1>w, PublishesEvents
  <2> QED BY <2>1, <2>2, <2>3, <1>w, <1>g
<1>8. CASE Reset
  <2>1. /\ core.up /\ UNCHANGED <<route, sync, watching, visible>> /\ Publishes(core')
        /\ \E n \in Names :
              core' = [core EXCEPT !.pick = n, !.known = n, !.loaded = FALSE,
                                   !.missed = FALSE, !.epoch = @ + 1, !.version = @ + 1]
    BY <1>8 DEF Reset
  <2>2. core' \in CoreStates /\ core'.up = core.up
    <3>1. core.epoch + 1 \in Nat /\ core.version + 1 \in Nat BY <1>w DEF CoreStates
    <3> QED BY <2>1, <3>1, <1>w DEF CoreStates
  <2>3. events' \in Seq([ce : Nat, rv : Nat]) BY <2>1, <2>2, <1>w, PublishesEvents
  <2> QED BY <2>1, <2>2, <2>3, <1>w, <1>g
<1>9. CASE NetworkMoves
  <2>1. /\ UNCHANGED <<core, sync, watching, visible, events>>
        /\ route' = [route EXCEPT !.he = @ + 1]
    BY <1>9 DEF NetworkMoves
  <2>2. route' \in Routes /\ route'.live = route.live /\ route'.synced = route.synced
    BY <2>1, <1>w DEF Routes
  <2> QED BY <2>1, <2>2, <1>w, <1>g
<1>10. CASE Die
  <2>1. /\ core' = [core EXCEPT !.up = FALSE, !.epoch = 0, !.version = 0,
                                !.watched = FALSE, !.known = core.pick, !.loaded = FALSE,
                                !.missed = FALSE]
        /\ route' = [route EXCEPT !.synced = FALSE, !.live = FALSE]
        /\ sync' = NoSync /\ events' = <<>> /\ UNCHANGED <<watching, visible>>
    BY <1>10 DEF Die
  <2>2. core' \in CoreStates BY <2>1, <1>w DEF CoreStates
  <2>3. route' \in Routes /\ ~route'.synced /\ ~route'.live BY <2>1, <1>w DEF Routes
  <2>4. events' \in Seq([ce : Nat, rv : Nat]) BY <2>1
  <2> QED BY <2>1, <2>2, <2>3, <2>4, <1>n, <1>w, <1>g
<1>11. CASE Restart
  <2>1. /\ \E n \in Names : core' = [core EXCEPT !.up = TRUE, !.pick = n, !.known = n]
        /\ UNCHANGED <<watching, visible, route, events>>
        /\ sync' \in {NoSync, [NoSync EXCEPT !.stage = "asked", !.valid = TRUE]}
    BY <1>11 DEF Restart
  <2>2. core' \in CoreStates /\ core'.up BY <2>1, <1>w DEF CoreStates
  <2> QED BY <2>1, <2>2, <1>n, <1>a, <1>w, <1>g
<1>12. CASE WatchRoute
  <2>1. /\ core.up /\ core' = [Counted EXCEPT !.watched = @ \/ sync.valid]
        /\ Publishes(Counted) /\ UNCHANGED <<watching, visible, route>>
        /\ sync' = [sync EXCEPT !.stage = "answered", !.ce = core'.epoch, !.rv = core'.version]
    BY <1>12 DEF WatchRoute
  <2>2. Counted \in CoreStates /\ Counted.up = core.up
    BY <1>w, CountedIs DEF CoreMoves
  <2>3. events' \in Seq([ce : Nat, rv : Nat]) BY <2>1, <2>2, <1>w, PublishesEvents
  <2>4. core' \in CoreStates /\ core'.up
    BY <2>1, <2>2, <1>s DEF CoreStates
  <2>5. sync' \in SyncStates
    BY <2>1, <2>4, <1>w DEF CoreStates, SyncStates
  <2> QED BY <2>1, <2>3, <2>4, <2>5, <1>w, <1>g
<1>13. CASE Release
  <2>1. /\ core.up /\ core' = [Counted EXCEPT !.watched = FALSE]
        /\ Publishes(Counted) /\ UNCHANGED <<watching, visible, route, sync>>
    BY <1>13 DEF Release
  <2>2. Counted \in CoreStates /\ Counted.up = core.up
    BY <1>w, CountedIs DEF CoreMoves
  <2>3. events' \in Seq([ce : Nat, rv : Nat]) BY <2>1, <2>2, <1>w, PublishesEvents
  <2>4. core' \in CoreStates /\ core'.up BY <2>1, <2>2 DEF CoreStates
  <2> QED BY <2>1, <2>3, <2>4, <1>w, <1>g
<1>14. CASE Synced
  <2>1. /\ sync.stage = "answered" /\ UNCHANGED <<core, watching, visible, events>>
        /\ sync' \in {NoSync, [NoSync EXCEPT !.stage = "asked", !.valid = TRUE]}
        /\ Snapshot(sync.ce, sync.rv) \/ UNCHANGED route
    BY <1>14 DEF Synced, world
  <2>2. sync.ce \in Nat /\ sync.rv \in Nat BY <1>w DEF SyncStates
  <2>3. route' \in Routes /\ (route'.live => route'.synced)
    BY <2>1, <2>2, <1>w, SnapshotRoute
  <2> QED BY <2>1, <2>3, <1>n, <1>a, <1>w, <1>g
<1>15. CASE Event
  <2>1. /\ events # <<>> /\ events' = Tail(events) /\ UNCHANGED <<core, watching, visible, sync>>
        /\ Snapshot(Head(events).ce, Head(events).rv)
    BY <1>15 DEF Event, world
  <2>2. Head(events).ce \in Nat /\ Head(events).rv \in Nat
        /\ events' \in Seq([ce : Nat, rv : Nat])
    <3> DEFINE S == [ce : Nat, rv : Nat]
    <3>1. events \in Seq(S) /\ events # <<>> BY <2>1, <1>w
    <3> HIDE DEF S
    <3>2. Head(events) \in S /\ Tail(events) \in Seq(S) BY <3>1
    <3> QED BY <3>2, <2>1 DEF S
  <2>3. route' \in Routes /\ (route'.live => route'.synced)
    BY <2>1, <2>2, <1>w, SnapshotRoute
  <2> QED BY <2>1, <2>2, <2>3, <1>w, <1>g
<1>16. CASE Probe
  <2>1. PICK p \in probes : Begin(p) \/ Dial(p) \/ Answer(p) \/ Land(p)
    BY <1>16 DEF Probe
  <2>2. CASE Begin(p) \/ Dial(p) \/ Answer(p)
    <3>1. UNCHANGED <<core, route, sync, watching, visible, events>>
      BY <2>2 DEF Begin, Dial, Answer, Done, Steps, world, tracker
    <3> QED BY <3>1, <1>w, <1>g
  <2>3. CASE Land(p)
    <3>1. /\ UNCHANGED <<core, watching, visible, route, events>>
          /\ Subscribe(watching, visible) \/ UNCHANGED sync
      BY <2>3 DEF Land, world
    <3>2. sync' \in SyncStates /\ (sync'.stage = "answered" => sync.stage = "answered")
      BY <3>1, <1>w, SubscribeSync
    <3> QED BY <3>1, <3>2, <1>w, <1>g
  <2> QED BY <2>1, <2>2, <2>3
<1>17. CASE Verified
  <2>1. /\ UNCHANGED <<core, watching, visible, route, events>>
        /\ Subscribe(watching, visible) \/ UNCHANGED sync
    BY <1>17 DEF Verified, world
  <2>2. sync' \in SyncStates /\ (sync'.stage = "answered" => sync.stage = "answered")
    BY <2>1, <1>w, SubscribeSync
  <2> QED BY <2>1, <2>2, <1>w, <1>g
<1> QED
  BY <1>1, <1>2, <1>3, <1>4, <1>5, <1>6, <1>7, <1>8, <1>9, <1>10, <1>11, <1>12, <1>13,
     <1>14, <1>15, <1>16, <1>17, <1>18
  DEF Next, Tracks, Check


---------------------------------------------------------------------------

\* Every world that a step leaves keeps what is shown true, but for the Core's end and start.
LEMMA TruthsMove ==
    ASSUME WorldInv, WorldInv', LoadInv, StampInv,
           core' = core \/ CoreMoves(core, core'), route' = route \/ RouteMoves(route, route')
    PROVE  Truths(host, probes, route', core')
<1>1. core \in CoreStates /\ core' \in CoreStates /\ route \in Routes /\ route' \in Routes
  BY DEF WorldInv, CoreStates
<1>2. CoreMoves(core, core') /\ RouteMoves(route, route')
  BY <1>1 DEF CoreMoves, RouteMoves, CoreStates, Routes
<1>3. /\ \A stamp \in Stamps : \A via : IsTrue(stamp, via, route, core)
                                               => IsTrue(stamp, via, route', core')
      /\ \A k \in Checks : TrueCheck(k, core) => TrueCheck(k, core')
      /\ \A p \in Probes : TrueProbe(p, route, core) => TrueProbe(p, route', core')
  BY <1>1, <1>2, TrueMoves
<1>4. /\ host.entry \in Entries /\ host.landed \in Answers \cup {None}
      /\ host.check \in Checks \cup {None}
  BY DEF LoadInv, Loads, Hosts
<1>5. ASSUME NEW e \in Entries, TrueEntry(e, route, core) PROVE TrueEntry(e, route', core')
  <2>1. e.phase = "fresh" => e.stamp \in Stamps BY EntryShapes
  <2> QED BY <1>3, <1>5, <2>1 DEF TrueEntry
<1>6. host.landed # None => host.landed \in Entries BY <1>4 DEF Entries
<1>7. Shows(host, route', core')
  BY <1>4, <1>5, <1>6 DEF StampInv, Truths, Shows
<1> QED BY <1>3, <1>4, <1>7 DEF StampInv, Truths, LoadInv

LEMMA CalmTruths ==
    ASSUME NEW h, NEW g, NEW out, NEW r, NEW c, Calm(h, g), Truths(h, out, r, c),
           g.check = h.check
    PROVE  Truths(g, out, r, c)
<1>1. TrueEntry(Empty, r, c) /\ TrueEntry(Probing, r, c) BY EntryShapes DEF TrueEntry
<1>2. Shows(g, r, c) BY <1>1 DEF Calm, Truths, Shows
<1> QED BY <1>2 DEF Truths

LEMMA VerifyTruths ==
    ASSUME NEW h \in Hosts, NEW w \in BOOLEAN, NEW r \in Routes, NEW v \in BOOLEAN, Loads(h, w),
           NEW out, NEW c, Truths(h, out, r, c), r.live => c.up
    PROVE  Truths(Verify(h, r, v), out, r, c)
<1> DEFINE g == Verify(h, r, v)
<1>1. /\ Calm(h, g)
      /\ \/ g.check = h.check
         \/ r.live /\ g.check # None /\ g.check.stage = "asked"
  BY VerifyLoads
<1> HIDE DEF g
<1>2. TrueEntry(Empty, r, c) /\ TrueEntry(Probing, r, c) BY EntryShapes DEF TrueEntry
<1>3. Shows(g, r, c) BY <1>1, <1>2 DEF Calm, Truths, Shows
<1>4. g.check # None => TrueCheck(g.check, c) BY <1>1 DEF Truths, TrueCheck
<1>5. Truths(g, out, r, c) BY <1>3, <1>4 DEF Truths
<1> QED BY <1>5 DEF g

LEMMA JudgedTruths ==
    ASSUME NEW h \in Hosts, watching \in BOOLEAN, DueOk(h, watching), LoadOk(h), h.check = None,
           NEW r \in Routes, NEW of \in Stamps, NEW check \in Checks,
           h.landed # None =>
               h.inFlight = None /\ (h.unverified \/ of = h.landed.stamp),
           NEW out, NEW c \in CoreStates, Truths(h, out, r, c),
           check.of = of, r.synced => TrueCheck(check, c)
    PROVE  Truths(Judged(h, r, of, check), out, r, c)
<1> DEFINE g == Judged(h, r, of, check)
<1>1. /\ g.check = None /\ g.landed \in {h.landed, None}
      /\ \/ g.entry \in {h.entry, Empty, Probing}
         \/ \E e \in Answers \cap {h.entry, h.landed} :
               /\ e.stamp = of /\ Holds(of, check)
               /\ g.entry = [e EXCEPT !.stamp = Later(of, check)]
  BY JudgedLoads
<1> HIDE DEF g
<1>2. TrueEntry(Empty, r, c) /\ TrueEntry(Probing, r, c) BY EntryShapes DEF TrueEntry
<1>3. ASSUME NEW e \in Answers \cap {h.entry, h.landed}, e.stamp = of, Holds(of, check)
      PROVE  TrueEntry([e EXCEPT !.stamp = Later(of, check)], r, c)
  <2> DEFINE s == Later(of, check)
             a == [e EXCEPT !.stamp = s]
  <2>1. TrueEntry(e, r, c)
    <3>1. e # None BY EntryShapes
    <3> QED BY <1>3, <3>1 DEF Truths, Shows
  <2>2. /\ of.ce \in Nat /\ of.rv \in Nat /\ of.he \in Nat
        /\ check.ce \in Nat /\ check.rv \in Nat /\ c.version \in Nat
    BY DEF Stamps, Checks, CoreStates
  <2>3. /\ s.ce = of.ce /\ s.he = of.he /\ s.hit = of.hit
        /\ s.rv = IF of.rv > check.rv THEN of.rv ELSE check.rv
    BY DEF Later, Stamps
  <2> HIDE DEF s
  <2>4. a.phase = e.phase /\ a.stamp = s /\ a.via = e.via BY <1>3 DEF Answers
  <2> HIDE DEF a
  <2>5. ASSUME e.phase = "fresh" PROVE IsTrue(s, e.via, r, c)
    <3>1. IsTrue(of, e.via, r, c) BY <1>3, <2>1, <2>5 DEF TrueEntry
    <3>2. ASSUME r.synced, s.he = r.he
          PROVE  Reached(s.ce, s.rv, c) /\ (Present(s.ce, s.rv, c) => of.hit = Exit(c))
      <4>1. /\ Reached(of.ce, of.rv, c)
            /\ Present(of.ce, of.rv, c) => of.hit = Exit(c)
        BY <2>3, <3>1, <3>2 DEF IsTrue
      <4>2. /\ Reached(check.ce, check.rv, c)
            /\ Present(check.ce, check.rv, c) => of.hit = Exit(c)
        BY <1>3, <3>2 DEF TrueCheck, Holds
      <4>4. check.ce = of.ce BY <1>3 DEF Holds
      <4> QED BY <2>2, <2>3, <4>1, <4>2, <4>4 DEF Reached, Present
    <3> QED BY <2>3, <3>1, <3>2 DEF IsTrue
  <2>6. TrueEntry(a, r, c) BY <2>4, <2>5 DEF TrueEntry
  <2> QED BY <2>6 DEF a, s
<1>4. TrueEntry(g.entry, r, c)
  BY <1>1, <1>2, <1>3 DEF Truths, Shows
<1>5. Truths(g, out, r, c) BY <1>1, <1>4 DEF Truths, Shows
<1> QED BY <1>5 DEF g

LEMMA LaunchedHolds ==
    ASSUME WorldInv', NEW h, NEW out, Launched(h, out), Truths(h, out, route', core')
    PROVE  LoadInv' /\ StampInv'
<1>1. LoadInv' BY DEF Launched, LoadInv
<1>2. TrueEntry(Empty, route', core') /\ TrueEntry(Probing, route', core')
  BY EntryShapes DEF TrueEntry
<1>3. Shows(host', route', core')
  BY <1>2 DEF Launched, Truths, Shows
<1>4. host'.check # None => TrueCheck(host'.check, core')
  BY DEF Launched, Truths
<1>5. ASSUME NEW p \in probes' PROVE TrueProbe(p, route', core')
  <2>1. CASE p \in out BY <2>1 DEF Truths
  <2>2. CASE p.stage = "sent" /\ p.he = route'.he /\ route'.live
    <3>1. core'.up /\ route'.he \in Nat BY <2>2 DEF WorldInv, Routes
    <3> QED BY <2>2, <3>1 DEF TrueProbe
  <2> QED BY <1>5, <2>1, <2>2 DEF Launched
<1> QED BY <1>1, <1>3, <1>4, <1>5 DEF StampInv, Truths


---------------------------------------------------------------------------
\* Each step keeps LoadInv and StampInv.

LEMMA CoreStep ==
    ASSUME WorldInv, WorldInv', LoadInv, StampInv,
           Repick \/ Load \/ RefreshRoute \/ Reset \/ WatchRoute \/ Release
    PROVE  LoadInv' /\ StampInv'
<1>1. UNCHANGED <<host, probes, watching, route>>
  BY DEF Repick, Load, RefreshRoute, Reset, WatchRoute, Release, tracker
<1>2. core \in CoreStates BY DEF WorldInv, CoreStates
<1>3. Counted \in CoreStates /\ CoreMoves(core, Counted) BY <1>2, CountedIs
\* A pick that moved is unread, or back, and then missed.
<1>4. CASE Repick
  <2>1. PICK n \in Names :
           core' = [core EXCEPT !.pick = n, !.missed = @ \/ Read([core EXCEPT !.pick = n])]
    BY <1>4 DEF Repick
  <2> DEFINE b == Read([core EXCEPT !.pick = n])
  <2>2. b <=> n = core.known /\ ~core.loaded BY <1>2 DEF Read, CoreStates
  <2>3. core' = [core EXCEPT !.pick = n, !.missed = core.missed \/ b] BY <1>2, <2>1 DEF CoreStates
  <2> HIDE DEF b
  <2>4. /\ core'.up = core.up /\ core'.epoch = core.epoch /\ core'.version = core.version
        /\ core'.pick = n /\ core'.known = core.known /\ core'.loaded = core.loaded
        /\ core'.missed = (core.missed \/ b)
    BY <1>2, <2>3 DEF CoreStates
  <2>5. ~(Read(core') /\ ~core'.missed) BY <2>2, <2>4 DEF Read
  <2>6. core.epoch \in Nat /\ core.version \in Nat BY <1>2 DEF CoreStates
  <2>7. CoreMoves(core, core') BY <2>4, <2>5, <2>6 DEF CoreMoves
  <2>8. Truths(host, probes, route', core') BY <1>1, <2>7, TruthsMove
  <2> QED BY <1>1, <2>8 DEF LoadInv, StampInv
<1>7. CASE Load
  <2>1. \E n \in Names, v \in Servers :
           core' = [core EXCEPT !.pick = n, !.behind = [@ EXCEPT ![n] = v], !.loaded = TRUE]
    BY <1>7 DEF Load
  <2>2. /\ core'.up = core.up /\ core'.epoch = core.epoch /\ core'.version = core.version
        /\ core'.loaded
    BY <1>2, <2>1 DEF CoreStates
  <2>3. core.epoch \in Nat /\ core.version \in Nat BY <1>2 DEF CoreStates
  <2>4. CoreMoves(core, core') BY <2>2, <2>3 DEF CoreMoves, Read
  <2>5. Truths(host, probes, route', core') BY <1>1, <2>4, TruthsMove
  <2> QED BY <1>1, <2>5 DEF LoadInv, StampInv
<1>5. CASE Reset
  <2>1. \E n \in Names :
           core' = [core EXCEPT !.pick = n, !.known = n, !.loaded = FALSE, !.missed = FALSE,
                                !.epoch = @ + 1, !.version = @ + 1]
    BY <1>5 DEF Reset
  <2>2. core.epoch \in Nat /\ core.version \in Nat BY <1>2 DEF CoreStates
  <2>3. core'.up = core.up /\ core'.epoch = core.epoch + 1 /\ core'.version = core.version + 1
    BY <1>2, <2>1 DEF CoreStates
  <2>4. CoreMoves(core, core') BY <2>2, <2>3 DEF CoreMoves
  <2>5. Truths(host, probes, route', core') BY <1>1, <2>4, TruthsMove
  <2> QED BY <1>1, <2>5 DEF LoadInv, StampInv
<1>6. CASE RefreshRoute \/ WatchRoute \/ Release
  <2>1. \/ core' = Counted
        \/ \E b : core' = [Counted EXCEPT !.watched = b]
    <3>1. CASE RefreshRoute BY <3>1 DEF RefreshRoute
    <3>2. CASE WatchRoute
      <4>1. core' = [Counted EXCEPT !.watched = Counted.watched \/ sync.valid]
        BY <3>2 DEF WatchRoute
      <4> QED BY <4>1
    <3>3. CASE Release BY <3>3 DEF Release
    <3> QED BY <1>6, <3>1, <3>2, <3>3
  <2>2. /\ core'.up = Counted.up /\ core'.epoch = Counted.epoch
        /\ core'.version = Counted.version /\ core'.pick = Counted.pick
        /\ core'.known = Counted.known /\ core'.behind = Counted.behind
        /\ core'.loaded = Counted.loaded /\ core'.missed = Counted.missed
    BY <1>3, <2>1 DEF CoreStates
  <2>e. Exit(core') = Exit(Counted) BY <2>2, SameExit
  <2>r. Read(core') <=> Read(Counted) BY <2>2 DEF Read
  <2>3. CoreMoves(core, core') BY <1>3, <2>2, <2>e, <2>r DEF CoreMoves
  <2>4. Truths(host, probes, route', core') BY <1>1, <2>3, TruthsMove
  <2> QED BY <1>1, <2>4 DEF LoadInv, StampInv
<1> QED BY <1>4, <1>5, <1>6, <1>7

\* A handler that changes nothing at the target before the cache hears of the route.
LEMMA TrackerStep ==
    ASSUME WorldInv, WorldInv', LoadInv, StampInv, Synced \/ Event \/ NetworkMoves \/ Hide
    PROVE  LoadInv' /\ StampInv'
<1>1. /\ Hears(host) /\ UNCHANGED <<core, watching>>
  BY DEF Synced, Event, NetworkMoves, Hide, world
<1>2. /\ route \in Routes /\ route' \in Routes /\ watching' \in BOOLEAN
  BY DEF WorldInv
<1>3. RouteMoves(route, route') \/ route' = route
  <2>1. CASE Synced
    <3>1. sync.ce \in Nat /\ sync.rv \in Nat BY DEF WorldInv
    <3> QED BY <1>2, <2>1, <3>1, SnapshotRoute DEF Synced
  <2>2. CASE Event
    <3> DEFINE S == [ce : Nat, rv : Nat]
    <3>1. events \in Seq(S) /\ events # <<>> BY <2>2 DEF Event, WorldInv
    <3> HIDE DEF S
    <3>2. Head(events) \in S BY <3>1
    <3>3. Head(events).ce \in Nat /\ Head(events).rv \in Nat BY <3>2 DEF S
    <3> QED BY <1>2, <2>2, <3>3, SnapshotRoute DEF Event
  <2>3. CASE NetworkMoves
    <3>1. route' = [route EXCEPT !.he = @ + 1] /\ route.he \in Nat
      BY <1>2, <2>3 DEF NetworkMoves, Routes
    <3> QED BY <1>2, <3>1 DEF RouteMoves, Routes
  <2>4. CASE Hide
    <3>1. route' = route \/ route' = [route EXCEPT !.live = FALSE]
      BY <2>4 DEF Hide, Unsubscribe
    <3> QED BY <1>2, <3>1 DEF RouteMoves, Routes
  <2> QED BY <2>1, <2>2, <2>3, <2>4
<1>4. Truths(host, probes, route', core') BY <1>1, <1>3, TruthsMove
<1>5. Launched(host, probes)
  <2>1. Loads(host, watching') /\ host \in Hosts BY <1>1 DEF LoadInv, Loads
  <2> QED BY <1>1, <1>2, <2>1, HearsLoads DEF LoadInv
<1> QED BY <1>4, <1>5, LaunchedHolds

\* A launch from a target that a handler left as good as it was.
LEMMA CalmStep ==
    ASSUME WorldInv, WorldInv', LoadInv, StampInv, UNCHANGED <<core, route>>,
           NEW h \in Hosts, NEW out \in SUBSET probes, Loads(h, watching'),
           Truths(h, out, route, core), Out(h, out), Launch(h, out)
    PROVE  LoadInv' /\ StampInv'
<1>1. out \subseteq Probes /\ IsFiniteSet(out) BY FS_Subset DEF LoadInv
<1>2. route' \in Routes /\ watching' \in BOOLEAN BY DEF WorldInv
<1>3. Launched(h, out) BY <1>1, <1>2, LaunchLoads
<1> QED BY <1>3, LaunchedHolds

LEMMA WatchStep ==
    ASSUME WorldInv, WorldInv', LoadInv, StampInv, Watch \/ Refresh
    PROVE  LoadInv' /\ StampInv'
<1>1. /\ UNCHANGED <<core, route>> /\ watching' \in BOOLEAN /\ (watching => watching')
      /\ route' \in Routes
  BY DEF Watch, Refresh, world, tracker, WorldInv
<1>2. Loads(host, watching') /\ host \in Hosts BY <1>1 DEF LoadInv, Loads, DueOk
<1>3. Truths(host, probes, route', core') BY <1>1 DEF StampInv
<1>4. CASE UNCHANGED <<host, probes>>
  <2>1. Launched(host, probes) BY <1>2, <1>4 DEF Launched, LoadInv
  <2> QED BY <1>3, <2>1, LaunchedHolds
<1>5. CASE Mark(FALSE) /\ watching'
  <2>1. Launched(host, probes) BY <1>1, <1>2, <1>5, MarkLoads
  <2> QED BY <1>3, <2>1, LaunchedHolds
<1>6. CASE Mark(TRUE)
  <2>1. Launched(host, probes) BY <1>1, <1>2, <1>6, MarkLoads
  <2> QED BY <1>3, <2>1, LaunchedHolds
<1> QED BY <1>4, <1>5, <1>6 DEF Watch, Refresh

LEMMA UnwatchStep ==
    ASSUME WorldInv, WorldInv', LoadInv, StampInv, Unwatch
    PROVE  LoadInv' /\ StampInv'
<1> DEFINE d == [host EXCEPT !.due = None, !.cooling = FALSE]
           h == IF host.due # None /\ ~host.due.forced THEN Forget(NoDue(host)) ELSE host
<1>1. /\ Hears(h) /\ UNCHANGED core /\ watching' = FALSE
      /\ route' = [route EXCEPT !.live = FALSE]
  BY DEF Unwatch, Unsubscribe
<1>2. route \in Routes /\ route' \in Routes /\ host \in Hosts /\ Loads(host, watching)
  BY DEF WorldInv, LoadInv, Loads
<1>3. RouteMoves(route, route') BY <1>1, <1>2 DEF RouteMoves, Routes
<1>4. Truths(host, probes, route', core') BY <1>1, <1>3, TruthsMove
<1>5. /\ d \in Hosts /\ d.landed = host.landed /\ d.due = None /\ d.entry = host.entry
      /\ d.check = host.check /\ d.inFlight = host.inFlight /\ d.unverified = host.unverified
  BY <1>2 DEF Hosts
<1>6. NoDue(host) = d BY DEF NoDue
<1> HIDE DEF d
<1>7. h \in Hosts /\ Loads(h, FALSE) /\ Calm(host, h) /\ h.check = host.check
      /\ h.inFlight = host.inFlight
  <2>1. CASE ~(host.due # None /\ ~host.due.forced)
    <3>1. h = host BY <2>1
    <3>2. DueOk(host, FALSE) BY <2>1 DEF DueOk
    <3>3. Loads(host, FALSE) BY <1>2, <3>2 DEF Loads
    <3>4. Calm(host, host) BY DEF Calm
    <3> HIDE DEF h
    <3> QED BY <1>2, <3>1, <3>3, <3>4
  <2>2. CASE (host.due # None /\ ~host.due.forced)
             /\ d.inFlight = None /\ d.landed = None /\ d.entry.phase = "probing"
    <3> DEFINE f == [d EXCEPT !.entry = Empty]
    <3>1. h = f BY <1>6, <2>2 DEF Forget
    <3>2. /\ f \in Hosts /\ f.landed = d.landed /\ f.due = None /\ f.entry = Empty
          /\ f.check = d.check /\ f.inFlight = d.inFlight /\ f.unverified = d.unverified
      BY <1>5, EntryShapes DEF Hosts
    <3> HIDE DEF f, h
    <3> QED BY <1>5, <2>2, <3>1, <3>2, EntryShapes DEF Loads, DueOk, LandedOk, LoadOk, Calm
  <2>3. CASE (host.due # None /\ ~host.due.forced)
             /\ ~(d.inFlight = None /\ d.landed = None /\ d.entry.phase = "probing")
    <3>1. h = d BY <1>6, <2>3 DEF Forget
    <3> HIDE DEF h
    <3> QED BY <1>2, <1>5, <2>3, <3>1 DEF Loads, DueOk, LandedOk, LoadOk, Calm
  <2> QED BY <2>1, <2>2, <2>3
<1> HIDE DEF h
<1>8. Truths(h, probes, route', core') BY <1>4, <1>7, CalmTruths
<1>9. Out(h, probes) BY <1>7 DEF Out, LoadInv
<1>10. Launched(h, probes)
  BY <1>1, <1>2, <1>7, <1>9, HearsLoads DEF LoadInv
<1> QED BY <1>8, <1>10, LaunchedHolds

LEMMA TimerStep ==
    ASSUME WorldInv, WorldInv', LoadInv, StampInv, Show \/ Resume \/ Settled \/ Cooled
    PROVE  LoadInv' /\ StampInv'
<1>1. UNCHANGED <<core, route, watching>> /\ route \in Routes /\ watching \in BOOLEAN
      /\ (route.live => core.up) /\ visible \in BOOLEAN
  BY DEF Show, Resume, Settled, Cooled, world, tracker, WorldInv
<1>2. host \in Hosts /\ Loads(host, watching) /\ Out(host, probes)
      /\ Truths(host, probes, route, core)
  BY DEF LoadInv, StampInv, Loads
<1> DEFINE Good(h) == /\ h \in Hosts /\ Loads(h, watching) /\ Truths(h, probes, route, core)
                      /\ Calm(host, h)
<1>3. ASSUME NEW h \in Hosts, h.landed = host.landed, h.due = host.due, h.entry = host.entry,
             h.check = host.check, h.inFlight = host.inFlight, h.unverified = host.unverified
      PROVE  Good(h)
  <2>1. Calm(host, h) BY <1>3 DEF Calm
  <2>2. Loads(h, watching) BY <1>2, <1>3 DEF Loads, DueOk, LandedOk, LoadOk
  <2>3. Truths(h, probes, route, core) BY <1>2, <1>3, <2>1, CalmTruths
  <2> QED BY <1>3, <2>1, <2>2, <2>3
<1>4. ASSUME NEW h, Good(h), NEW v \in BOOLEAN PROVE Good(Verify(h, route, v))
  <2> DEFINE g == Verify(h, route, v)
  <2>1. Loads(g, watching) /\ Calm(h, g) BY <1>1, <1>4, VerifyLoads
  <2>2. Truths(g, probes, route, core) BY <1>1, <1>4, VerifyTruths
  <2>3. Calm(host, g) BY <1>4, <2>1, CalmTwice
  <2> HIDE DEF g
  <2>4. Good(g) BY <2>1, <2>2, <2>3 DEF Loads
  <2> QED BY <2>4 DEF g
<1>5. ASSUME NEW h, Good(h), Launch(h, probes) PROVE LoadInv' /\ StampInv'
  <2>1. Out(h, probes) BY <1>2, <1>5 DEF Calm, Out
  <2> QED BY <1>1, <1>5, <2>1, CalmStep
<1>6. CASE Show
  <2>1. Good(host) BY <1>2, <1>3
  <2>2. Good(Verify(host, route, TRUE)) BY <1>4, <2>1
  <2> HIDE DEF Good
  <2> QED BY <1>5, <1>6, <2>2 DEF Show
<1>7. CASE Resume
  <2> DEFINE d == [host EXCEPT !.staleUnder = None]
             o == OnRoute(d, route, route, watching, TRUE)
  <2>1. /\ d \in Hosts /\ d.landed = host.landed /\ d.due = host.due /\ d.entry = host.entry
        /\ d.check = host.check /\ d.inFlight = host.inFlight /\ d.unverified = host.unverified
    BY <1>2 DEF Hosts
  <2>2. Launch(o, probes) BY <1>7 DEF Resume
  <2> HIDE DEF d
  <2>3. Good(d) BY <1>3, <2>1
  <2>4. Loads(o, watching) /\ Calm(d, o) /\ o.check = d.check
    BY <1>1, <2>3, OnRouteLoads
  <2> HIDE DEF o
  <2>5. Truths(o, probes, route, core) BY <2>3, <2>4, CalmTruths
  <2>6. Calm(host, o) BY <2>3, <2>4, CalmTwice
  <2>7. Good(o) BY <2>4, <2>5, <2>6 DEF Loads
  <2> HIDE DEF Good
  <2> QED BY <1>5, <2>2, <2>7
<1>8. CASE Settled
  <2> DEFINE d == [host EXCEPT !.settle = FALSE]
  <2>1. /\ d \in Hosts /\ d.landed = host.landed /\ d.due = host.due /\ d.entry = host.entry
        /\ d.check = host.check /\ d.inFlight = host.inFlight /\ d.unverified = host.unverified
    BY <1>2 DEF Hosts
  <2>2. Launch(Verify(d, route, visible), probes) BY <1>8 DEF Settled
  <2> HIDE DEF d
  <2>3. Good(d) BY <1>3, <2>1
  <2>4. Good(Verify(d, route, visible)) BY <1>1, <1>4, <2>3
  <2> HIDE DEF Good
  <2> QED BY <1>5, <2>2, <2>4
<1>9. CASE Cooled
  <2> DEFINE d == [host EXCEPT !.cooling = FALSE]
  <2>1. /\ d \in Hosts /\ d.landed = host.landed /\ d.due = host.due /\ d.entry = host.entry
        /\ d.check = host.check /\ d.inFlight = host.inFlight /\ d.unverified = host.unverified
    BY <1>2 DEF Hosts
  <2>2. Launch(d, probes) BY <1>9 DEF Cooled
  <2> HIDE DEF d
  <2>3. Good(d) BY <1>3, <2>1
  <2> HIDE DEF Good
  <2> QED BY <1>5, <2>2, <2>3
<1> QED BY <1>6, <1>7, <1>8, <1>9


LEMMA StepsStep ==
    ASSUME WorldInv, LoadInv, StampInv, NEW p \in probes, Begin(p) \/ Dial(p) \/ Answer(p)
    PROVE  LoadInv' /\ StampInv'
<1>1. p \in Probes /\ TrueProbe(p, route, core) BY DEF LoadInv, StampInv, Truths
<1>2. core \in CoreStates /\ route \in Routes BY DEF WorldInv, CoreStates
<1>3. ASSUME NEW q \in Probes, q.run = p.run, TrueProbe(q, route, core), Steps(p, q)
      PROVE  LoadInv' /\ StampInv'
  <2>1. /\ UNCHANGED <<core, route, watching, host>> /\ probes' = (probes \ {p}) \cup {q}
    BY <1>3 DEF Steps, world, tracker
  <2>2. Out(host, probes') BY <1>3, <2>1 DEF Out, LoadInv
  <2>3. IsFiniteSet(probes')
    <3>1. IsFiniteSet(probes \ {p}) BY FS_Difference DEF LoadInv
    <3> QED BY <2>1, <3>1, FS_AddElement
  <2>4. probes' \subseteq Probes BY <1>3, <2>1 DEF LoadInv
  <2>5. LoadInv' BY <2>1, <2>2, <2>3, <2>4 DEF LoadInv
  <2>6. StampInv' BY <1>3, <2>1 DEF StampInv, Truths
  <2> QED BY <2>5, <2>6
<1>4. CASE Begin(p)
  <2> DEFINE s == Stamp(core.epoch, core.version, p.he, None)
             q == [p EXCEPT !.stage = "began", !.stamp = s]
  <2>1. p.stage = "sent" /\ Steps(p, q) BY <1>4 DEF Begin
  <2>2. core.epoch \in Nat /\ core.version \in Nat /\ p.he \in Nat
    BY <1>1, <1>2 DEF CoreStates, Probes
  <2>3. s \in Stamps /\ s.he = p.he /\ s.ce = core.epoch /\ s.rv = core.version
    BY <2>2 DEF Stamp, Stamps, Places
  <2> HIDE DEF s
  <2>4. /\ q \in Probes /\ q.run = p.run /\ q.he = p.he /\ q.stage = "began" /\ q.stamp = s
    BY <1>1, <2>1, <2>3 DEF Probes
  <2> HIDE DEF q
  <2>5. TrueProbe(q, route, core)
    BY <1>1, <2>1, <2>2, <2>3, <2>4 DEF TrueProbe, Reached
  <2> QED BY <1>3, <2>1, <2>4, <2>5
<1>5. CASE Dial(p)
  <2>1. PICK connected \in BOOLEAN :
           /\ p.stage = "began"
           /\ Steps(p, [p EXCEPT !.stage = "left", !.via = IF connected THEN Exit(core) ELSE None,
                                 !.ok = connected])
    BY <1>5 DEF Dial
  <2> DEFINE via == IF connected THEN Exit(core) ELSE None
             q == [p EXCEPT !.stage = "left", !.via = via, !.ok = connected]
  <2>2. via \in Places /\ (connected => via \in Exits /\ via = Exit(core))
    BY <1>2, ExitsAre DEF Places
  <2> HIDE DEF via
  <2>3. /\ q \in Probes /\ q.run = p.run /\ q.he = p.he /\ q.stage = "left" /\ q.stamp = p.stamp
        /\ q.via = via /\ q.ok = connected
    BY <1>1, <2>1, <2>2 DEF Probes
  <2>4. Steps(p, q) BY <2>1 DEF via
  <2> HIDE DEF q
  <2>5. TrueProbe(q, route, core) BY <1>1, <2>1, <2>2, <2>3 DEF TrueProbe
  <2> QED BY <1>3, <2>3, <2>4, <2>5
<1>6. CASE Answer(p)
  <2>1. PICK hit \in Places, ok \in BOOLEAN :
           /\ p.stage \in {"began", "left"} /\ Done(p, hit, ok)
           /\ ok => p.stage = "left" /\ p.ok /\ hit = Through(core, p.via.name)
    <3>1. CASE p.stage = "began" /\ Done(p, None, FALSE)
      BY <3>1 DEF Places
    <3>2. CASE p.stage = "left" /\ \E ok \in {FALSE, p.ok} : Done(p, Hit(p), ok)
      <4>1. p.ok \in BOOLEAN /\ (p.ok => p.via \in Exits) /\ Exit(core) \in Exits
        BY <1>1, <1>2, <3>2, ExitsAre DEF Probes, TrueProbe
      <4>2. Hit(p) \in Places /\ (p.ok => Hit(p) = Through(core, p.via.name))
        BY <1>2, <4>1, ExitsAre DEF Hit, Places
      <4> QED BY <3>2, <4>1, <4>2
    <3> QED BY <1>6, <3>1, <3>2 DEF Answer
  <2> DEFINE s == [p.stamp EXCEPT !.hit = hit]
             via == IF ok THEN p.via ELSE None
             q == [p EXCEPT !.stage = "done", !.stamp = s, !.ok = ok, !.via = via]
  <2>2. p.stamp \in Stamps /\ p.via \in Places BY <1>1, <2>1 DEF Probes
  <2>3. /\ s \in Stamps /\ s.he = p.stamp.he /\ s.ce = p.stamp.ce /\ s.rv = p.stamp.rv
        /\ s.hit = hit
    BY <2>1, <2>2 DEF Stamps
  <2>4. via \in Places /\ (ok => via = p.via) BY <2>2 DEF Places
  <2>5. Steps(p, q) BY <2>1 DEF Done, Stamped
  <2> HIDE DEF s, via
  <2>6. /\ q \in Probes /\ q.run = p.run /\ q.he = p.he /\ q.stage = "done" /\ q.stamp = s
        /\ q.via = via /\ q.ok = ok
    BY <1>1, <2>1, <2>3, <2>4 DEF Probes
  <2> HIDE DEF q
\* Looked up under the same name, where it left is where that name leaves now.
  <2>8. ASSUME ok
        PROVE  /\ p.via \in Exits /\ hit \in Exits /\ p.via.name = hit.name
               /\ p.stamp.he <= route.he /\ Reached(p.stamp.ce, p.stamp.rv, core)
               /\ Present(p.stamp.ce, p.stamp.rv, core) => hit = Exit(core)
    <3>1. /\ p.via \in Exits /\ Reached(p.stamp.ce, p.stamp.rv, core)
          /\ p.stamp.he <= route.he
          /\ Present(p.stamp.ce, p.stamp.rv, core) => p.via = Exit(core)
      BY <1>1, <2>1, <2>8 DEF TrueProbe
    <3>2. hit = Through(core, p.via.name) BY <2>1, <2>8
    <3>3. hit \in Exits /\ hit.name = p.via.name BY <1>2, <3>1, <3>2, ExitsAre
    <3>4. p.via = Exit(core) => hit = Exit(core) BY <1>2, <3>2, ExitsAre DEF Exit
    <3> QED BY <3>1, <3>3, <3>4
  <2>9. ok => IsTrue(s, via, route, core) BY <2>3, <2>4, <2>8 DEF IsTrue
  <2>7. TrueProbe(q, route, core)
    BY <2>6, <2>9 DEF TrueProbe
  <2> QED BY <1>3, <2>5, <2>6, <2>7
<1> QED BY <1>4, <1>5, <1>6

LEMMA LandStep ==
    ASSUME WorldInv, WorldInv', LoadInv, StampInv, NEW p \in probes, Land(p)
    PROVE  LoadInv' /\ StampInv'
<1>1. /\ UNCHANGED <<core, route, watching>> /\ route \in Routes /\ watching \in BOOLEAN
      /\ visible \in BOOLEAN /\ (route.live => core.up)
  BY DEF Land, world, WorldInv
<1>2. /\ p \in Probes /\ TrueProbe(p, route, core) /\ p.stage = "done"
      /\ host \in Hosts /\ Loads(host, watching) /\ Truths(host, probes, route, core)
      /\ Out(host, probes)
  BY DEF LoadInv, StampInv, Truths, Loads, Land
<1>3. CASE host.inFlight # p.run
  <2>1. probes' = probes \ {p} /\ host' = host BY <1>3 DEF Land
  <2>2. IsFiniteSet(probes') /\ probes' \subseteq Probes
    BY <2>1, FS_Difference DEF LoadInv
  <2>3. Out(host, probes') BY <1>2, <1>3, <2>1 DEF Out
  <2>4. LoadInv' BY <1>1, <1>2, <2>1, <2>2, <2>3 DEF LoadInv
  <2>5. StampInv' BY <1>1, <1>2, <2>1 DEF StampInv, Truths
  <2> QED BY <2>4, <2>5
<1>4. CASE host.inFlight = p.run
  <2> DEFINE d == [host EXCEPT !.inFlight = None]
             phase == IF p.ok THEN "fresh" ELSE "failed"
             h == Lands(d, route, phase, p.stamp, p.via)
             x == IF h.landed # None THEN Verify(h, route, visible) ELSE h
             out == probes \ {p}
  <2>1. Launch(x, out) BY <1>4 DEF Land
  <2>2. p.run # None BY <1>2, NoneApart DEF Probes
  <2>3. host.landed = None BY <1>2, <1>4, <2>2 DEF Loads, LandedOk
  <2>4. p.stamp \in Stamps /\ p.via \in Places /\ p.ok \in BOOLEAN BY <1>2 DEF Probes
  <2>5. phase \in {"fresh", "failed"} /\ (phase = "fresh" => p.ok) OBVIOUS
  <2>6. /\ d \in Hosts /\ d.landed = None /\ d.due = host.due /\ d.entry = host.entry
        /\ d.check = host.check /\ d.inFlight = None
    BY <1>2, <2>3 DEF Hosts
  <2> HIDE DEF d, phase
  <2>7. DueOk(d, watching) BY <1>2, <2>6 DEF Loads, DueOk
  <2>8. /\ Loads(h, watching) /\ h.check = d.check /\ h.inFlight = None
        /\ h.landed \in {None, Entry(phase, p.stamp, p.via)}
        /\ h.entry \in {d.entry, Empty, Probing, Entry("failed", p.stamp, None),
                        Entry(phase, p.stamp, p.via)}
    BY <1>1, <2>4, <2>5, <2>6, <2>7, LandsLoads
  <2> HIDE DEF h
  <2>9. Truths(h, out, route, core)
    <3>1. TrueEntry(Empty, route, core) /\ TrueEntry(Probing, route, core)
      BY EntryShapes DEF TrueEntry
    <3>2. TrueEntry(Entry("failed", p.stamp, None), route, core) BY DEF TrueEntry, Entry
    <3>3. TrueEntry(Entry(phase, p.stamp, p.via), route, core)
      BY <1>2, <2>5 DEF TrueEntry, Entry, TrueProbe
    <3> QED BY <1>2, <2>6, <2>8, <3>1, <3>2, <3>3 DEF Truths, Shows
  <2>10. Loads(x, watching) /\ Truths(x, out, route, core) /\ x.inFlight = None
    <3>1. CASE h.landed # None
      <4> DEFINE v == Verify(h, route, visible)
      <4>1. Loads(v, watching) /\ Calm(h, v) BY <1>1, <2>8, VerifyLoads DEF Loads
      <4>2. Truths(v, out, route, core) BY <1>1, <2>8, <2>9, VerifyTruths DEF Loads
      <4>3. x = v BY <3>1
      <4> HIDE DEF v, x
      <4> QED BY <2>8, <4>1, <4>2, <4>3 DEF Calm
    <3>2. CASE h.landed = None
      <4>1. x = h BY <3>2
      <4> HIDE DEF x
      <4> QED BY <2>8, <2>9, <4>1
    <3> QED BY <3>1, <3>2
  <2> HIDE DEF x
  <2>11. Out(x, out) BY <2>10 DEF Out
  <2>12. x \in Hosts /\ out \in SUBSET probes BY <2>10 DEF Loads
  <2> HIDE DEF out
  <2> QED BY <1>1, <2>1, <2>10, <2>11, <2>12, CalmStep
<1> QED BY <1>3, <1>4

LEMMA CheckStep ==
    ASSUME WorldInv, LoadInv, StampInv, CheckStamp \/ CheckRoute
    PROVE  LoadInv' /\ StampInv'
<1>1. /\ UNCHANGED <<core, route, watching, probes>> /\ host.check # None /\ core.up
  BY DEF CheckStamp, CheckRoute, world, tracker
<1>2. host \in Hosts /\ core \in CoreStates BY DEF LoadInv, Loads, WorldInv, CoreStates
<1>3. host.check \in Checks /\ TrueCheck(host.check, core)
  BY <1>1, <1>2 DEF Hosts, StampInv, Truths
<1>4. ASSUME NEW k \in Checks, k.of = host.check.of, TrueCheck(k, core),
             host' = [host EXCEPT !.check = k]
      PROVE  LoadInv' /\ StampInv'
  <2>1. k # None BY NoneApart
  <2>2. /\ host' \in Hosts /\ host'.landed = host.landed /\ host'.due = host.due
        /\ host'.entry = host.entry /\ host'.check = k /\ host'.inFlight = host.inFlight
        /\ host'.unverified = host.unverified
    BY <1>2, <1>4 DEF Hosts
  <2>3. Loads(host', watching')
    BY <1>1, <1>4, <2>1, <2>2 DEF LoadInv, Loads, DueOk, LandedOk, LoadOk
  <2>4. Out(host', probes') BY <1>1, <2>2 DEF Out, LoadInv
  <2>5. LoadInv' BY <1>1, <2>3, <2>4 DEF LoadInv
  <2>6. StampInv' BY <1>1, <1>4, <2>2 DEF StampInv, Truths, Shows
  <2> QED BY <2>5, <2>6
<1>5. CASE CheckStamp
  <2> DEFINE k == [host.check EXCEPT !.stage = "stamped", !.ce = core.epoch, !.rv = core.version]
  <2>1. host' = [host EXCEPT !.check = k] BY <1>2, <1>5 DEF CheckStamp, Hosts
  <2>2. core.epoch \in Nat /\ core.version \in Nat BY <1>2 DEF CoreStates
  <2>3. /\ k \in Checks /\ k.of = host.check.of /\ k.stage = "stamped"
        /\ k.ce = core.epoch /\ k.rv = core.version
    BY <1>3, <2>2 DEF Checks
  <2> HIDE DEF k
  <2>4. TrueCheck(k, core) BY <1>1, <2>2, <2>3 DEF TrueCheck, Reached
  <2> QED BY <1>4, <2>1, <2>3, <2>4
<1>6. CASE CheckRoute
  <2> DEFINE b == host.check.of.hit = Exit(core)
             k == [host.check EXCEPT !.stage = "checked", !.held = b]
  <2>1. host' = [host EXCEPT !.check = k] BY <1>2, <1>6 DEF CheckRoute, Hosts
  <2>2. b \in BOOLEAN /\ host.check.stage = "stamped" BY <1>6 DEF CheckRoute
  <2>3. /\ k \in Checks /\ k.of = host.check.of /\ k.stage = "checked"
        /\ k.ce = host.check.ce /\ k.rv = host.check.rv /\ (k.held <=> b)
    BY <1>3, <2>2 DEF Checks
  <2> HIDE DEF k
  <2>4. TrueCheck(k, core) BY <1>1, <1>3, <2>2, <2>3 DEF TrueCheck
  <2> QED BY <1>4, <2>1, <2>3, <2>4
<1> QED BY <1>5, <1>6

LEMMA VerifiedStep ==
    ASSUME WorldInv, WorldInv', LoadInv, StampInv, Verified
    PROVE  LoadInv' /\ StampInv'
<1> DEFINE d == [host EXCEPT !.check = None]
           k == host.check
           j == Judged(d, route, k.of, k)
           x == IF j.reverify THEN Verify(j, route, visible) ELSE SettlesWithin(j)
<1>1. /\ UNCHANGED <<core, route, watching>> /\ route \in Routes /\ watching \in BOOLEAN
      /\ visible \in BOOLEAN /\ (route.live => core.up) /\ core \in CoreStates
      /\ k # None /\ Launch(x, probes)
  BY DEF Verified, world, WorldInv, CoreStates
<1>2. host \in Hosts /\ Loads(host, watching) /\ Truths(host, probes, route, core)
      /\ Out(host, probes)
  BY DEF LoadInv, StampInv, Loads
<1>3. k \in Checks /\ k.of \in Stamps /\ TrueCheck(k, core)
  BY <1>1, <1>2 DEF Hosts, Checks, Truths
<1>4. /\ d \in Hosts /\ d.landed = host.landed /\ d.due = host.due /\ d.entry = host.entry
      /\ d.check = None /\ d.inFlight = host.inFlight /\ d.unverified = host.unverified
  BY <1>2 DEF Hosts
<1> HIDE DEF d, k
<1>5. DueOk(d, watching) /\ LoadOk(d) BY <1>2, <1>4 DEF Loads, DueOk, LoadOk
<1>6. d.landed # None => d.inFlight = None /\ (d.unverified \/ k.of = d.landed.stamp)
  BY <1>2, <1>4 DEF Loads, LandedOk, k
<1>7. Truths(d, probes, route, core) BY <1>2, <1>4 DEF Truths, Shows
<1>8. Loads(j, watching) /\ j.inFlight \in {d.inFlight, None}
  BY <1>1, <1>3, <1>4, <1>5, <1>6, JudgedLoads
<1>9. Truths(j, probes, route, core)
  BY <1>1, <1>3, <1>4, <1>5, <1>6, <1>7, JudgedTruths
<1> HIDE DEF j
<1>10. Loads(x, watching) /\ Calm(j, x) /\ Truths(x, probes, route, core)
  <2>1. CASE j.reverify
    BY <1>1, <1>8, <1>9, <2>1, VerifyLoads, VerifyTruths DEF Loads
  <2>2. CASE ~j.reverify
    <3> DEFINE s == SettlesWithin(j)
    <3>1. Loads(s, watching) /\ Calm(j, s) /\ s.check = j.check
      BY <1>1, <1>8, SettlesLoads DEF Loads
    <3> HIDE DEF s
    <3>2. Truths(s, probes, route, core) BY <1>9, <3>1, CalmTruths
    <3> QED BY <2>2, <3>1, <3>2 DEF s
  <2> QED BY <2>1, <2>2
<1> HIDE DEF x
<1>11. Out(x, probes) BY <1>2, <1>4, <1>8, <1>10 DEF Out, Calm
<1>12. x \in Hosts BY <1>10 DEF Loads
<1> QED BY <1>1, <1>10, <1>11, <1>12, CalmStep


\* The calls that are out fail with the Core: what lands then is no answer, and no
\* counters are known until it is up again.
LEMMA DieStep ==
    ASSUME WorldInv, WorldInv', LoadInv, StampInv, Die
    PROVE  LoadInv' /\ StampInv'
<1> DEFINE r == route'
           out == {p \in probes : p.stage = "done"}
           h == IF route' = route THEN host ELSE OnRoute(host, route, route', watching, FALSE)
           k == h.check
           d == [h EXCEPT !.inFlight = None]
           a == Lands(d, r, "failed", Stamp(r.ce, r.rv, r.he, None), None)
           g == IF h.inFlight = None \/ (\E p \in out : p.run = h.inFlight) THEN h ELSE a
           n == [g EXCEPT !.check = None]
           x == IF k = None THEN g ELSE Judged(n, r, k.of, k)
<1>1. /\ route' = [route EXCEPT !.synced = FALSE, !.live = FALSE]
      /\ probes' = out /\ watching' = watching /\ host' = Fails(h, r, probes')
  BY DEF Die
<1>2. host' = x BY <1>1 DEF Fails
<1>3. /\ route \in Routes /\ route' \in Routes /\ watching \in BOOLEAN /\ core' \in CoreStates
      /\ host \in Hosts /\ Loads(host, watching) /\ probes \subseteq Probes /\ IsFiniteSet(probes)
  BY DEF WorldInv, LoadInv, Loads, CoreStates
<1>4. ~r.synced /\ r.he = route.he BY <1>1, <1>3 DEF Routes
<1>5. Loads(h, watching) /\ Calm(host, h) /\ h.check = host.check
  <2>1. CASE route' = route BY <1>3, <2>1 DEF Calm
  <2>2. CASE route' # route
    <3> DEFINE o == OnRoute(host, route, route', watching, FALSE)
    <3>1. Loads(o, watching) /\ Calm(host, o) /\ o.check = host.check BY <1>3, OnRouteLoads
    <3>2. h = o BY <2>2
    <3> HIDE DEF o, h
    <3> QED BY <3>1, <3>2
  <2> QED BY <2>1, <2>2
\* An answer is of the network it was, and nothing is said of its counters.
<1>6. ASSUME NEW stamp, NEW via, IsTrue(stamp, via, route, core)
      PROVE  IsTrue(stamp, via, r, core')
  BY <1>4, <1>6 DEF IsTrue
<1>e. TrueEntry(Empty, r, core') /\ TrueEntry(Probing, r, core')
  BY EntryShapes DEF TrueEntry
<1>7. Shows(h, r, core')
  <2>1. Shows(host, r, core') BY <1>6 DEF StampInv, Truths, Shows, TrueEntry
  <2> HIDE DEF h, r
  <2> QED BY <1>5, <1>e, <2>1 DEF Shows, Calm
<1>8. /\ out \subseteq Probes /\ IsFiniteSet(out)
      /\ \A p \in out : TrueProbe(p, r, core')
  <2>1. IsFiniteSet(out) BY <1>3, FS_Subset
  <2>2. \A p \in out : TrueProbe(p, r, core') BY <1>6 DEF StampInv, Truths, TrueProbe
  <2> QED BY <1>3, <2>1, <2>2
<1>r. r \in Routes BY <1>3
<1> HIDE DEF r, h, out
<1>9. h \in Hosts BY <1>5 DEF Loads
<1>10. /\ Loads(g, watching) /\ g.check = k /\ Out(g, out) /\ Shows(g, r, core')
  <2>1. CASE h.inFlight = None \/ (\E p \in out : p.run = h.inFlight)
    <3>1. g = h BY <2>1
    <3> HIDE DEF g
    <3> QED BY <1>5, <1>7, <2>1, <3>1 DEF Out
  <2>2. CASE ~(h.inFlight = None \/ (\E p \in out : p.run = h.inFlight))
    <3> DEFINE s == Stamp(r.ce, r.rv, r.he, None)
    <3>1. s \in Stamps /\ None \in Places BY <1>r DEF Stamp, Stamps, Routes, Places
    <3>2. /\ d \in Hosts /\ d.landed = h.landed /\ d.due = h.due /\ d.entry = h.entry
          /\ d.check = h.check /\ d.inFlight = None
      BY <1>9 DEF Hosts
    <3>3. h.landed = None BY <1>5, <2>2 DEF Loads, LandedOk
    <3>4. g = Lands(d, r, "failed", s, None) BY <2>2
    <3> HIDE DEF s, d, g
    <3>5. DueOk(d, watching) BY <1>5, <3>2 DEF Loads, DueOk
    <3>6. /\ Loads(g, watching) /\ g.check = d.check /\ g.inFlight = None
          /\ g.landed \in {None, Entry("failed", s, None)}
          /\ g.entry \in {d.entry, Empty, Probing, Entry("failed", s, None)}
      BY <1>3, <1>r, <3>1, <3>2, <3>3, <3>4, <3>5, LandsLoads
    <3>7. TrueEntry(Entry("failed", s, None), r, core') BY DEF TrueEntry, Entry
    <3>8. Shows(g, r, core') BY <1>7, <1>e, <3>2, <3>6, <3>7 DEF Shows
    <3> QED BY <3>2, <3>6, <3>8 DEF Out
  <2> QED BY <2>1, <2>2
<1> HIDE DEF g
<1>11. Loads(x, watching) /\ Out(x, out) /\ x.check = None /\ Shows(x, r, core')
  <2>1. CASE k = None
    <3>1. x = g BY <2>1
    <3> HIDE DEF x
    <3> QED BY <1>10, <2>1, <3>1
  <2>2. CASE k # None
    <3>1. g \in Hosts BY <1>10 DEF Loads
    <3>2. k \in Checks /\ k.of \in Stamps BY <1>9, <2>2 DEF Hosts, Checks
    <3> HIDE DEF k
    <3>3. /\ n \in Hosts /\ n.landed = g.landed /\ n.due = g.due /\ n.entry = g.entry
          /\ n.check = None /\ n.inFlight = g.inFlight /\ n.unverified = g.unverified
      BY <3>1 DEF Hosts
    <3> HIDE DEF n
    <3>4. x = Judged(n, r, k.of, k) BY <2>2
    <3> HIDE DEF x
    <3>5. DueOk(n, watching) /\ LoadOk(n) BY <1>10, <3>3 DEF Loads, DueOk, LoadOk
    <3>6. n.landed # None => n.inFlight = None /\ (n.unverified \/ k.of = n.landed.stamp)
      BY <1>10, <3>3 DEF Loads, LandedOk
    <3>7. Truths(n, out, r, core') BY <1>8, <1>10, <3>3 DEF Truths, Shows
    <3>8. Loads(x, watching) /\ x.check = None /\ x.inFlight \in {n.inFlight, None}
      BY <1>3, <1>r, <3>2, <3>3, <3>4, <3>5, <3>6, JudgedLoads
    <3>9. ~r.synced BY <1>4
    <3>10. Truths(x, out, r, core')
      BY <1>3, <1>r, <3>2, <3>3, <3>4, <3>5, <3>6, <3>7, <3>9, JudgedTruths
    <3>11. Out(x, out) BY <1>10, <3>3, <3>8 DEF Out
    <3> QED BY <3>8, <3>10, <3>11 DEF Truths
  <2> QED BY <2>1, <2>2
<1> HIDE DEF x
<1>12. LoadInv' BY <1>1, <1>2, <1>8, <1>11 DEF LoadInv
<1>13. Truths(x, out, r, core') BY <1>8, <1>11 DEF Truths
<1>14. StampInv' BY <1>1, <1>2, <1>13 DEF StampInv, r
<1> QED BY <1>12, <1>14

\* Nothing of a Core that ended is out when it starts again, and its counters are
\* not known yet.
LEMMA RestartStep ==
    ASSUME WorldInv, LoadInv, StampInv, Restart
    PROVE  LoadInv' /\ StampInv'
<1>1. ~core.up /\ ~route.synced /\ UNCHANGED <<watching, route, host, probes>>
  BY DEF Restart, WorldInv
<1>2. LoadInv' BY <1>1 DEF LoadInv
<1>3. host.check = None BY <1>1 DEF StampInv, Truths, TrueCheck
<1>4. \A stamp, via : IsTrue(stamp, via, route, core) => IsTrue(stamp, via, route, core')
  BY <1>1 DEF IsTrue
<1>5. Shows(host, route, core') BY <1>4 DEF StampInv, Truths, Shows, TrueEntry
<1>6. \A p \in probes : TrueProbe(p, route, core')
  BY <1>1, <1>4 DEF StampInv, Truths, TrueProbe
<1>7. StampInv' BY <1>1, <1>3, <1>5, <1>6 DEF StampInv, Truths
<1> QED BY <1>2, <1>7

LEMMA ProbeInit == Init => LoadInv /\ StampInv
<1> SUFFICES ASSUME Init PROVE LoadInv /\ StampInv OBVIOUS
<1>1. /\ host.entry = Empty /\ host.due = None /\ host.inFlight = None /\ host.landed = None
      /\ host.check = None /\ host \in Hosts /\ probes = {}
  BY EntryShapes DEF Init, Hosts
<1>2. Loads(host, watching) /\ Out(host, probes)
  BY <1>1, EntryShapes DEF Loads, DueOk, LandedOk, LoadOk, Out
<1>3. IsFiniteSet(probes) BY <1>1, FS_EmptySet
<1>4. TrueEntry(Empty, route, core) BY EntryShapes DEF TrueEntry
<1>5. StampInv BY <1>1, <1>4 DEF StampInv, Truths, Shows
<1> QED BY <1>1, <1>2, <1>3, <1>5 DEF LoadInv

LEMMA ProbeNext ==
    ASSUME WorldInv, WorldInv', LoadInv, StampInv, [Next]_vars
    PROVE  LoadInv' /\ StampInv'
<1>1. CASE UNCHANGED vars
  BY <1>1 DEF vars, world, tracker, LoadInv, StampInv
<1>2. CASE Repick \/ Load \/ RefreshRoute \/ Reset \/ WatchRoute \/ Release
  BY <1>2, CoreStep
<1>3. CASE Synced \/ Event \/ NetworkMoves \/ Hide
  BY <1>3, TrackerStep
<1>4. CASE Watch \/ Refresh
  BY <1>4, WatchStep
<1>5. CASE Unwatch
  BY <1>5, UnwatchStep
<1>6. CASE Show \/ Resume \/ Settled \/ Cooled
  BY <1>6, TimerStep
<1>7. CASE Probe
  <2>1. PICK p \in probes : Begin(p) \/ Dial(p) \/ Answer(p) \/ Land(p) BY <1>7 DEF Probe
  <2> QED BY <2>1, StepsStep, LandStep
<1>8. CASE Check
  BY <1>8, CheckStep, VerifiedStep DEF Check
<1>9. CASE Die
  BY <1>9, DieStep
<1>10. CASE Restart
  BY <1>10, RestartStep
<1> QED BY <1>1, <1>2, <1>3, <1>4, <1>5, <1>6, <1>7, <1>8, <1>9, <1>10 DEF Next, Tracks

\* What the target, its probes and its checks hold, and that what they say is true, in
\* every state.
THEOREM ProbeInvHolds == Spec => [](WorldInv /\ LoadInv /\ StampInv)
<1>1. Init => WorldInv /\ LoadInv /\ StampInv BY WorldInit, ProbeInit
<1>2. WorldInv /\ LoadInv /\ StampInv /\ [Next]_vars => (WorldInv /\ LoadInv /\ StampInv)'
  BY WorldNext, ProbeNext
<1> QED BY <1>1, <1>2, PTL DEF Spec

\* However probes, checks, moves of the route and ends of the Core overlap, a target that
\* loads has a probe out, a re-probe due, or an answer held back that is asked about or
\* will be (routed_probe.dart:200).
THEOREM NeverStuckLoadingHolds == Spec => []NeverStuckLoading
<1>1. LoadInv => NeverStuckLoading
  BY DEF LoadInv, Loads, LoadOk, LandedOk, Out, NeverStuckLoading
<1> QED BY <1>1, ProbeInvHolds, PTL

\* An answer with the Core's counters of now says where a connection leaves now and left
\* through the pick of now, whatever overtook it and however often what it says was
\* carried on by a check, as far as the Core reads its picks (route.go:205).
THEOREM StampsAreTrueHolds == Spec => []StampsAreTrue
<1>1. WorldInv /\ LoadInv /\ StampInv => StampsAreTrue
  <2> SUFFICES ASSUME WorldInv, LoadInv, StampInv PROVE StampsAreTrue OBVIOUS
  <2> DEFINE e == host.entry
  <2>1. e.phase = "fresh" => IsTrue(e.stamp, e.via, route, core)
    BY DEF StampInv, Truths, Shows, TrueEntry
  <2>2. Exit(core).name = core.pick BY ExitsAre DEF WorldInv, CoreStates
  <2> QED BY <2>1, <2>2 DEF IsTrue, Present, MovedSince, StampsAreTrue
<1> QED BY <1>1, ProbeInvHolds, PTL


================================================================================
