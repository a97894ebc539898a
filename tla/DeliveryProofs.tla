----------------------------- MODULE DeliveryProofs -----------------------------
(***************************************************************************)
(* Proofs about what travels from the Core to the host.                    *)
(*                                                                         *)
(* Core event delivery, for every number of senders and every size of      *)
(* queue, batch and burst: the types, the opportunity of the bulk channel, *)
(* whose events an eviction may throw out, the order events arrive in, and *)
(* that state events are kept.                                             *)
(*                                                                         *)
(* SpilledReplies, for any number of calls and of sweeps, and a Core that  *)
(* is root or not: no spilled file is forgotten and no name leads to half  *)
(* a file.                                                                 *)
(***************************************************************************)
EXTENDS MessageDelivery, SpilledReplies, Integers, TLAPS

Channels == {"state", "bulk", "priority", "select"}

(***************************************************************************)
(* Lemmas on the channels.                                                 *)
(***************************************************************************)
LEMMA QueueOfType == \A m \in Message : QueueOf(m) \in Queues
BY DEF QueueOf, Queues, ClassOf

LEMMA HeadAndTail ==
    ASSUME NEW S, NEW q \in Seq(S), q # <<>>
    PROVE  /\ Head(q) \in S /\ Tail(q) \in Seq(S)
           /\ \A i \in DOMAIN Tail(q) : i + 1 \in DOMAIN q /\ Tail(q)[i] = q[i + 1]
           /\ 1 \in DOMAIN q /\ Head(q) = q[1]
OBVIOUS

(***************************************************************************)
(* BulkOpportunity.  A bulk message is passed over only by a priority      *)
(* message of the burst, and a full burst leads to the bulk channel before *)
(* the next one.                                                           *)
(***************************************************************************)
BurstInv ==
    /\ burst \in Nat /\ skipped \in Nat
    /\ bpc \in Channels
    /\ burst <= PriorityBurst /\ skipped <= PriorityBurst
    /\ bpc # "bulk" => skipped <= burst
    /\ bpc # "state" => burst < PriorityBurst

LEMMA BurstInit == Init => BurstInv
BY SizesAssumption DEF Init, BurstInv, Channels

LEMMA BurstNext == BurstInv /\ [Next]_vars => BurstInv'
<1> SUFFICES ASSUME BurstInv, [Next]_vars PROVE BurstInv'
    OBVIOUS
<1> USE SizesAssumption DEF BurstInv, Channels
<1>1. CASE UNCHANGED batcher BY <1>1 DEF batcher
<1>2. CASE PollState BY <1>2 DEF PollState
<1>3. CASE PollBulk BY <1>3 DEF PollBulk
<1>4. CASE PollPriority
  <2>1. CASE bpc' = "state" /\ burst' = burst + 1 /\ Passed
    <3>1. skipped' = 0 \/ skipped' = skipped + 1 BY <2>1 DEF Passed
    <3> QED BY <1>4, <2>1, <3>1 DEF PollPriority
  <2>2. CASE bpc' = "select" /\ UNCHANGED <<burst, skipped>>
    BY <1>4, <2>2 DEF PollPriority
  <2> QED BY <1>4, <2>1, <2>2 DEF PollPriority, BurstGrown
<1>5. CASE Select BY <1>5 DEF Select, Passed, BurstGrown
<1>6. ASSUME NEW s \in Senders, Sender(s) \/ \E type \in Types : Call(s, type)
      PROVE  UNCHANGED batcher
  BY <1>6 DEF Sender, Call, Enqueue, Drop, FindFull, Evict
<1>7. CASE Listen \/ UNCHANGED vars BY <1>1, <1>7 DEF Listen, vars
<1> QED BY <1>1, <1>2, <1>3, <1>4, <1>5, <1>6, <1>7 DEF Next, Batcher

\* runMessageBatcher: while bulk messages wait, at most a burst of priority
\* messages is taken before one of them is.
THEOREM BulkOpportunityHolds == Spec => []BulkOpportunity
<1>1. BurstInv => BulkOpportunity BY DEF BurstInv, BulkOpportunity
<1> QED BY <1>1, BurstInit, BurstNext, PTL DEF Spec

(***************************************************************************)
(* TypeOK, strengthened by the attempts left to a call under way.          *)
(***************************************************************************)
TypeInv == /\ TypeOK
           /\ \A s \in Senders : tpc[s] # "idle" => attempt[s] < EvictAttempts

LEMMA TypeInit == Init => TypeInv
<1> SUFFICES ASSUME Init PROVE TypeInv
    OBVIOUS
<1>1. /\ queue \in [Queues -> Seq(Message)]
      /\ batch \in Seq(Message) /\ delivered \in Seq(Message) /\ Len(batch) = 0
  BY DEF Init
<1> QED BY <1>1, SizesAssumption DEF Init, TypeInv, TypeOK

\* What the batcher takes keeps the channels, the batch and the deliveries typed.
LEMMA TakeType ==
    ASSUME TypeInv, NEW q \in Queues, Take(q)
    PROVE  /\ queue' \in [Queues -> Seq(Message)]
           /\ batch' \in Seq(Message) /\ Len(batch') < BatchSize
           /\ delivered' \in Seq(Message)
           /\ UNCHANGED <<senders, listening, evictions>>
<1>1. /\ queue \in [Queues -> Seq(Message)] /\ batch \in Seq(Message)
      /\ delivered \in Seq(Message) /\ Len(batch) \in Nat
      /\ queue[q] \in Seq(Message) /\ queue[q] # <<>>
  BY DEF TypeInv, TypeOK, Take
<1>2. Head(queue[q]) \in Message /\ Tail(queue[q]) \in Seq(Message)
  BY <1>1, HeadAndTail
<1>3. queue' \in [Queues -> Seq(Message)]
  BY <1>1, <1>2 DEF Take
<1> DEFINE grown == Append(batch, Head(queue[q]))
<1>4. grown \in Seq(Message) /\ Len(grown) \in Nat
  BY <1>1, <1>2
<1>5. CASE BatchFull(Len(grown)) /\ batch' = <<>> /\ Deliver(grown)
  <2>1. delivered \o grown \in Seq(Message) BY <1>1, <1>4
  <2>2. delivered' \in Seq(Message) BY <1>1, <1>5, <2>1 DEF Deliver
  <2>3. batch' \in Seq(Message) /\ Len(batch') = 0 BY <1>5
  <2> QED BY <1>3, <2>2, <2>3, SizesAssumption DEF Take
<1>6. CASE ~BatchFull(Len(grown)) /\ batch' = grown /\ UNCHANGED delivered
  <2>1. Len(batch') < BatchSize
    BY <1>4, <1>6, SizesAssumption DEF BatchFull
  <2> QED BY <1>1, <1>3, <1>4, <1>6, <2>1 DEF Take
<1> QED BY <1>5, <1>6 DEF Take

LEMMA TypeNext == TypeInv /\ BurstInv' /\ [Next]_vars => TypeInv'
<1> SUFFICES ASSUME TypeInv, BurstInv', [Next]_vars PROVE TypeInv'
    OBVIOUS
<1>b. burst' \in Nat /\ skipped' \in Nat /\ bpc' \in Channels
  BY DEF BurstInv
<1>t. \A q \in Queues : queue[q] \in Seq(Message) /\ Len(queue[q]) \in Nat
  BY DEF TypeInv, TypeOK
<1> USE SizesAssumption DEF Channels
<1>k. ASSUME /\ queue' \in [Queues -> Seq(Message)]
             /\ batch' \in Seq(Message) /\ Len(batch') < BatchSize
             /\ delivered' \in Seq(Message)
             /\ UNCHANGED <<senders, listening, evictions>>
      PROVE  TypeInv'
  BY <1>b, <1>k DEF TypeInv, TypeOK, senders
<1>s. ASSUME Stay PROVE TypeInv'
  BY <1>s, <1>k DEF Stay, TypeInv, TypeOK
<1>q. "state" \in Queues /\ "bulk" \in Queues /\ "priority" \in Queues
  BY DEF Queues
<1>1. CASE PollState BY <1>1, <1>k, <1>s, <1>q, TakeType DEF PollState
<1>2. CASE PollBulk BY <1>2, <1>k, <1>s, <1>q, TakeType DEF PollBulk
<1>3. CASE PollPriority BY <1>3, <1>k, <1>s, <1>q, TakeType DEF PollPriority
<1>4. CASE Select
  <2>1. CASE batch' = <<>> /\ Deliver(batch) /\ UNCHANGED <<queue, senders, listening, evictions>>
    <3>1. delivered \in Seq(Message) /\ delivered \o batch \in Seq(Message)
      BY DEF TypeInv, TypeOK
    <3>2. delivered' \in Seq(Message) BY <2>1, <3>1 DEF Deliver
    <3>3. batch' \in Seq(Message) /\ Len(batch') = 0 BY <2>1
    <3>4. queue' \in [Queues -> Seq(Message)] BY <2>1 DEF TypeInv, TypeOK
    <3> QED BY <2>1, <3>2, <3>3, <3>4, <1>k
  <2> QED BY <1>4, <2>1, <1>k, <1>q, TakeType DEF Select
<1>5. ASSUME NEW s \in Senders, NEW type \in Types, Call(s, type) PROVE TypeInv'
  <2>1. calls[s] + 1 \in 1..MaxSends
    BY <1>5 DEF Call, TypeInv, TypeOK
  <2>2. [type |-> type, from |-> s, number |-> calls[s] + 1] \in Message
    BY <2>1 DEF Message
  <2> QED BY <1>5, <2>1, <2>2 DEF Call, TypeInv, TypeOK, batcher
<1>6. ASSUME NEW s \in Senders, tpc[s] # "idle", Return(s),
             UNCHANGED <<batcher, listening, delivered>>,
             queue' \in [Queues -> Seq(Message)],
             attempt' \in [Senders -> 0..EvictAttempts],
             \A r \in Senders \ {s} : attempt'[r] = attempt[r],
             evictions' \subseteq [victim : Message, by : Message]
      PROVE  TypeInv'
  BY <1>6 DEF Return, TypeInv, TypeOK, batcher
<1>7. ASSUME NEW s \in Senders, Enqueue(s) PROVE TypeInv'
  <2> DEFINE q == QueueOf(message[s])
  <2>1. message[s] \in Message BY <1>7 DEF Enqueue, TypeInv, TypeOK
  <2>2. q \in Queues BY <2>1, QueueOfType
  <2>3. Append(queue[q], message[s]) \in Seq(Message) BY <1>t, <2>1, <2>2
  <2>4. queue' \in [Queues -> Seq(Message)]
    BY <1>7, <2>2, <2>3 DEF Enqueue, Push, TypeInv, TypeOK
  <2> QED BY <1>6, <1>7, <2>4 DEF Enqueue, TypeInv, TypeOK
<1>8. ASSUME NEW s \in Senders, Drop(s) PROVE TypeInv'
  BY <1>6, <1>8 DEF Drop, TypeInv, TypeOK
<1>9. ASSUME NEW s \in Senders, FindFull(s) PROVE TypeInv'
  BY <1>9 DEF FindFull, TypeInv, TypeOK, batcher
<1>10. ASSUME NEW s \in Senders, Evict(s) PROVE TypeInv'
  <2> DEFINE q == QueueOf(message[s])
  <2>1. message[s] \in Message /\ attempt[s] < EvictAttempts /\ attempt[s] \in Nat
    BY <1>10 DEF Evict, TypeInv, TypeOK
  <2>2. q \in Queues BY <2>1, QueueOfType
  <2>3. /\ queue' \in [Queues -> Seq(Message)]
        /\ evictions' \subseteq [victim : Message, by : Message]
    <3>1. CASE queue[q] = <<>> BY <1>10, <3>1 DEF Evict, TypeInv, TypeOK
    <3>2. CASE queue[q] # <<>>
      <4>1. Head(queue[q]) \in Message /\ Tail(queue[q]) \in Seq(Message)
        BY <1>t, <2>2, <3>2, HeadAndTail
      <4>2. queue' \in [Queues -> Seq(Message)]
        BY <1>10, <2>2, <3>2, <4>1 DEF Evict, TypeInv, TypeOK
      <4>3. evictions' = evictions \cup {[victim |-> Head(queue[q]), by |-> message[s]]}
        BY <1>10, <3>2 DEF Evict
      <4>4. evictions \subseteq [victim : Message, by : Message]
        BY DEF TypeInv, TypeOK
      <4> QED BY <2>1, <4>1, <4>2, <4>3, <4>4
    <3> QED BY <3>1, <3>2
  <2>4. /\ attempt' \in [Senders -> 0..EvictAttempts]
        /\ attempt'[s] = attempt[s] + 1
        /\ \A r \in Senders \ {s} : attempt'[r] = attempt[r]
    BY <1>10, <2>1 DEF Evict, TypeInv, TypeOK
  <2>5. CASE attempt[s] + 1 >= EvictAttempts
    BY <1>6, <1>10, <2>3, <2>4, <2>5 DEF Evict
  <2>6. CASE ~(attempt[s] + 1 >= EvictAttempts)
    <3>1. /\ tpc' = [tpc EXCEPT ![s] = "send"]
          /\ UNCHANGED <<calls, message, batcher, listening, delivered>>
      BY <1>10, <2>6 DEF Evict
    <3>2. tpc[s] # "idle" BY <1>10 DEF Evict
    <3>3. \A r \in Senders : tpc'[r] # "idle" =>
             message'[r] \in Message /\ attempt'[r] < EvictAttempts
      BY <2>1, <2>4, <2>6, <3>1, <3>2 DEF TypeInv, TypeOK
    <3> QED BY <2>3, <2>4, <3>1, <3>3 DEF TypeInv, TypeOK, batcher
  <2> QED BY <2>5, <2>6
<1>11. CASE Listen BY <1>11 DEF Listen, TypeInv, TypeOK, senders, batcher
<1>12. CASE UNCHANGED vars BY <1>12 DEF vars, TypeInv, TypeOK, senders, batcher
<1> QED BY <1>1, <1>2, <1>3, <1>4, <1>5, <1>7, <1>8, <1>9, <1>10, <1>11, <1>12
        DEF Next, Batcher, Sender

\* The channels, the batch and the calls keep their types; a full batch is
\* handed on at once.
THEOREM TypeCorrect == Spec => []TypeOK
<1>1. TypeInv => TypeOK BY DEF TypeInv
<1> QED BY <1>1, BurstInit, BurstNext, TypeInit, TypeNext, PTL DEF Spec

(***************************************************************************)
(* EvictsOwnQueue.  A channel holds only messages of its own classes, and  *)
(* only a call of an evicting class gets to evict.                         *)
(***************************************************************************)
OwnInv ==
    /\ \A q \in Queues : \A i \in DOMAIN queue[q] : QueueOf(queue[q][i]) = q
    /\ \A s \in Senders : tpc[s] = "evict" => Evicts(message[s])
    /\ EvictsOwnQueue

LEMMA OwnInit == Init => OwnInv
BY DEF Init, OwnInv, EvictsOwnQueue

LEMMA OwnTake ==
    ASSUME TypeInv, OwnInv, NEW q \in Queues, Take(q)
    PROVE  OwnInv'
<1>1. queue \in [Queues -> Seq(Message)] /\ queue[q] \in Seq(Message) /\ queue[q] # <<>>
  BY DEF TypeInv, TypeOK, Take
<1>2. /\ queue'[q] = Tail(queue[q])
      /\ \A r \in Queues \ {q} : queue'[r] = queue[r]
      /\ UNCHANGED <<tpc, message, evictions>>
  BY <1>1 DEF Take, senders
<1>3. \A i \in DOMAIN queue'[q] : QueueOf(queue'[q][i]) = q
  BY <1>1, <1>2, HeadAndTail DEF OwnInv
<1> QED BY <1>2, <1>3 DEF OwnInv, EvictsOwnQueue

LEMMA OwnNext == TypeInv /\ OwnInv /\ [Next]_vars => OwnInv'
<1> SUFFICES ASSUME TypeInv, OwnInv, [Next]_vars PROVE OwnInv'
    OBVIOUS
<1>t. /\ queue \in [Queues -> Seq(Message)]
      /\ tpc \in [Senders -> {"idle", "send", "evict"}]
      /\ message \in [Senders -> Message \cup {NoMessage}]
      /\ \A s \in Senders : tpc[s] # "idle" => message[s] \in Message
  BY DEF TypeInv, TypeOK
<1>k. ASSUME UNCHANGED <<queue, tpc, message, evictions>> PROVE OwnInv'
  BY <1>k DEF OwnInv, EvictsOwnQueue
<1>q. "state" \in Queues /\ "bulk" \in Queues /\ "priority" \in Queues
  BY DEF Queues
<1>1. CASE Batcher
  BY <1>1, <1>k, <1>q, OwnTake
     DEF Batcher, PollState, PollBulk, PollPriority, Select, Stay, senders
<1>2. ASSUME NEW s \in Senders, NEW type \in Types, Call(s, type) PROVE OwnInv'
  <2>1. /\ UNCHANGED <<queue, evictions>>
        /\ \A r \in Senders : tpc'[r] = "evict" => tpc[r] = "evict" /\ message'[r] = message[r]
    BY <1>2, <1>t DEF Call
  <2> QED BY <2>1 DEF OwnInv, EvictsOwnQueue
<1>3. ASSUME NEW s \in Senders, Return(s)
      PROVE  \A r \in Senders : tpc'[r] = "evict" => tpc[r] = "evict" /\ message'[r] = message[r]
  BY <1>3, <1>t DEF Return
<1>4. ASSUME NEW s \in Senders, Enqueue(s) PROVE OwnInv'
  <2> DEFINE q == QueueOf(message[s])
  <2>1. message[s] \in Message BY <1>4, <1>t DEF Enqueue
  <2>2. q \in Queues /\ queue[q] \in Seq(Message) BY <2>1, <1>t, QueueOfType
  <2>3. /\ queue'[q] = Append(queue[q], message[s])
        /\ \A r \in Queues \ {q} : queue'[r] = queue[r]
    BY <1>4, <1>t, <2>2 DEF Enqueue, Push
  <2>4. /\ DOMAIN queue'[q] = DOMAIN queue[q] \cup {Len(queue[q]) + 1}
        /\ queue'[q][Len(queue[q]) + 1] = message[s]
        /\ \A i \in DOMAIN queue[q] : queue'[q][i] = queue[q][i]
    BY <2>1, <2>2, <2>3
  <2>5. \A i \in DOMAIN queue'[q] : QueueOf(queue'[q][i]) = q
    BY <2>2, <2>4 DEF OwnInv
  <2>6. UNCHANGED evictions /\ Return(s) BY <1>4 DEF Enqueue
  <2> QED BY <1>3, <2>3, <2>5, <2>6 DEF OwnInv, EvictsOwnQueue
<1>5. ASSUME NEW s \in Senders, Drop(s) PROVE OwnInv'
  BY <1>3, <1>5 DEF Drop, OwnInv, EvictsOwnQueue
<1>6. ASSUME NEW s \in Senders, FindFull(s) PROVE OwnInv'
  BY <1>6, <1>t DEF FindFull, OwnInv, EvictsOwnQueue
<1>7. ASSUME NEW s \in Senders, Evict(s) PROVE OwnInv'
  <2> DEFINE q == QueueOf(message[s])
  <2>1. message[s] \in Message /\ Evicts(message[s])
    BY <1>7, <1>t DEF Evict, OwnInv
  <2>2. q \in Queues /\ queue[q] \in Seq(Message) BY <2>1, <1>t, QueueOfType
  <2>3. \A r \in Senders : tpc'[r] = "evict" => tpc[r] = "evict" /\ message'[r] = message[r]
    BY <1>3, <1>7, <1>t DEF Evict
  <2>4. CASE queue[q] = <<>>
    <3>1. UNCHANGED <<queue, evictions>> BY <1>7, <2>4 DEF Evict
    <3> QED BY <2>3, <3>1 DEF OwnInv, EvictsOwnQueue
  <2>5. CASE queue[q] # <<>>
    <3>1. /\ queue'[q] = Tail(queue[q])
          /\ \A r \in Queues \ {q} : queue'[r] = queue[r]
          /\ evictions' = evictions \cup {[victim |-> Head(queue[q]), by |-> message[s]]}
      BY <1>7, <1>t, <2>2, <2>5 DEF Evict
    <3>2. /\ \A i \in DOMAIN queue'[q] : QueueOf(queue'[q][i]) = q
          /\ QueueOf(Head(queue[q])) = q
      BY <2>2, <2>5, <3>1, HeadAndTail DEF OwnInv
    <3>3. /\ message[s].type \notin {"dns", "requestTraffic"}
          /\ q # "state"
      BY <2>1 DEF Evicts, ClassOf, QueueOf
    <3>4. Head(queue[q]).type \notin {"loaded", "geoUpdate", "routeChanged"}
      BY <3>2, <3>3 DEF QueueOf, ClassOf
    <3>5. EvictsOwnQueue'
      BY <3>1, <3>2, <3>3, <3>4 DEF OwnInv, EvictsOwnQueue
    <3> QED BY <2>3, <3>1, <3>2, <3>5 DEF OwnInv
  <2> QED BY <2>4, <2>5
<1>8. CASE Listen BY <1>8, <1>k DEF Listen, senders
<1>9. CASE UNCHANGED vars BY <1>9, <1>k DEF vars, senders
<1> QED BY <1>1, <1>2, <1>4, <1>5, <1>6, <1>7, <1>8, <1>9 DEF Next, Sender

\* enqueueLatest: no flood of one class pushes out a state message, and neither
\* lookups nor traffic samples push out anything.
THEOREM EvictsOwnQueueHolds == Spec => []EvictsOwnQueue
<1>1. OwnInv => EvictsOwnQueue BY DEF OwnInv
<1>2. Init => BurstInv /\ TypeInv /\ OwnInv BY BurstInit, TypeInit, OwnInit
<1>3. BurstInv /\ TypeInv /\ OwnInv /\ [Next]_vars => (BurstInv /\ TypeInv /\ OwnInv)'
  BY BurstNext, TypeNext, OwnNext
<1> QED BY <1>1, <1>2, <1>3, PTL DEF Spec

(***************************************************************************)
(* InOrder.  The line of a channel is what was delivered, the batch and    *)
(* the channel; the batcher moves a head from one part to the next, and    *)
(* what it moves past in other channels is of another class.               *)
(***************************************************************************)
Sorted(l)    == \A i, j \in DOMAIN l : i < j /\ Same(l[i], l[j]) => l[i].number < l[j].number
Before(k, l) == \A i \in DOMAIN k, j \in DOMAIN l : Same(k[i], l[j]) => k[i].number < l[j].number

LEMMA ConcatParts ==
    ASSUME NEW S, NEW k \in Seq(S), NEW l \in Seq(S)
    PROVE  /\ k \o l \in Seq(S) /\ Len(k \o l) = Len(k) + Len(l)
           /\ \A i \in DOMAIN k : i \in DOMAIN (k \o l) /\ (k \o l)[i] = k[i]
           /\ \A i \in DOMAIN l : /\ Len(k) + i \in DOMAIN (k \o l)
                                  /\ (k \o l)[Len(k) + i] = l[i]
           /\ \A i \in DOMAIN (k \o l) :
                  \/ i \in DOMAIN k
                  \/ i > Len(k) /\ i - Len(k) \in DOMAIN l /\ (k \o l)[i] = l[i - Len(k)]
OBVIOUS

LEMMA SortedConcat ==
    ASSUME NEW k \in Seq(Message), NEW l \in Seq(Message)
    PROVE  Sorted(k \o l) <=> Sorted(k) /\ Sorted(l) /\ Before(k, l)
<1>0. /\ DOMAIN k = 1..Len(k) /\ DOMAIN l = 1..Len(l) /\ Len(k) \in Nat /\ Len(l) \in Nat
      /\ DOMAIN (k \o l) = 1..(Len(k) + Len(l))
  OBVIOUS
<1>1. ASSUME Sorted(k), Sorted(l), Before(k, l), NEW i \in DOMAIN (k \o l),
             NEW j \in DOMAIN (k \o l), i < j, Same((k \o l)[i], (k \o l)[j])
      PROVE  (k \o l)[i].number < (k \o l)[j].number
  <2>1. CASE j \in DOMAIN k
    BY <1>0, <1>1, <2>1, ConcatParts DEF Sorted
  <2>2. CASE i \in DOMAIN k /\ j \notin DOMAIN k
    BY <1>0, <1>1, <2>2, ConcatParts DEF Before
  <2>3. CASE i \notin DOMAIN k
    <3>1. /\ i - Len(k) \in DOMAIN l /\ (k \o l)[i] = l[i - Len(k)]
          /\ j - Len(k) \in DOMAIN l /\ (k \o l)[j] = l[j - Len(k)]
          /\ i - Len(k) < j - Len(k)
      BY <1>0, <1>1, <2>3, ConcatParts
    <3> QED BY <1>1, <3>1 DEF Sorted
  <2> QED BY <2>1, <2>2, <2>3
<1>2. ASSUME Sorted(k \o l) PROVE Sorted(k)
  BY <1>0, <1>2, ConcatParts DEF Sorted
<1>3. ASSUME Sorted(k \o l) PROVE Sorted(l)
  <2> SUFFICES ASSUME NEW i \in DOMAIN l, NEW j \in DOMAIN l, i < j, Same(l[i], l[j])
               PROVE  l[i].number < l[j].number
    BY DEF Sorted
  <2>1. /\ Len(k) + i \in DOMAIN (k \o l) /\ (k \o l)[Len(k) + i] = l[i]
        /\ Len(k) + j \in DOMAIN (k \o l) /\ (k \o l)[Len(k) + j] = l[j]
        /\ Len(k) + i < Len(k) + j
    BY <1>0, ConcatParts
  <2> QED BY <1>3, <2>1 DEF Sorted
<1>4. ASSUME Sorted(k \o l) PROVE Before(k, l)
  <2> SUFFICES ASSUME NEW i \in DOMAIN k, NEW j \in DOMAIN l, Same(k[i], l[j])
               PROVE  k[i].number < l[j].number
    BY DEF Before
  <2>1. /\ i \in DOMAIN (k \o l) /\ (k \o l)[i] = k[i]
        /\ Len(k) + j \in DOMAIN (k \o l) /\ (k \o l)[Len(k) + j] = l[j]
        /\ i < Len(k) + j
    BY <1>0, ConcatParts
  <2> QED BY <1>4, <2>1 DEF Sorted
<1> QED BY <1>1, <1>2, <1>3, <1>4 DEF Sorted

LEMMA BeforeConcat ==
    ASSUME NEW k \in Seq(Message), NEW l \in Seq(Message), NEW m \in Seq(Message)
    PROVE  /\ Before(k \o l, m) <=> Before(k, m) /\ Before(l, m)
           /\ Before(m, k \o l) <=> Before(m, k) /\ Before(m, l)
<1>0. /\ DOMAIN k = 1..Len(k) /\ DOMAIN l = 1..Len(l) /\ Len(k) \in Nat
      /\ \A i \in DOMAIN k : i \in DOMAIN (k \o l) /\ (k \o l)[i] = k[i]
      /\ \A i \in DOMAIN l : Len(k) + i \in DOMAIN (k \o l) /\ (k \o l)[Len(k) + i] = l[i]
  BY ConcatParts
<1>1. ASSUME NEW i \in DOMAIN (k \o l)
      PROVE  (\E n \in DOMAIN k : (k \o l)[i] = k[n]) \/ (\E n \in DOMAIN l : (k \o l)[i] = l[n])
  <2>1. CASE i \in DOMAIN k BY <1>0, <2>1
  <2>2. CASE i - Len(k) \in DOMAIN l /\ (k \o l)[i] = l[i - Len(k)] BY <2>2
  <2> QED BY <2>1, <2>2, ConcatParts
<1>2. \A n \in DOMAIN k : \E i \in DOMAIN (k \o l) : (k \o l)[i] = k[n]
  BY <1>0
<1>3. \A n \in DOMAIN l : \E i \in DOMAIN (k \o l) : (k \o l)[i] = l[n]
  BY <1>0
<1>4. Before(k \o l, m) <=> Before(k, m) /\ Before(l, m)
  BY <1>1, <1>2, <1>3, Zenon DEF Before
<1>5. Before(m, k \o l) <=> Before(m, k) /\ Before(m, l)
  BY <1>1, <1>2, <1>3, Zenon DEF Before
<1> QED BY <1>4, <1>5

LEMMA SortedTail ==
    ASSUME NEW l \in Seq(Message), l # <<>>, Sorted(l)
    PROVE  Sorted(Tail(l)) /\ Before(<<Head(l)>>, Tail(l))
<1>1. /\ \A i \in DOMAIN Tail(l) : i + 1 \in DOMAIN l /\ Tail(l)[i] = l[i + 1]
      /\ 1 \in DOMAIN l /\ Head(l) = l[1]
  BY HeadAndTail
<1>2. DOMAIN Tail(l) \subseteq Nat \ {0}
  OBVIOUS
<1>3. Sorted(Tail(l))
  BY <1>1, <1>2 DEF Sorted
<1>4. Before(<<Head(l)>>, Tail(l))
  <2> SUFFICES ASSUME NEW j \in DOMAIN Tail(l), Same(Head(l), Tail(l)[j])
               PROVE  Head(l).number < Tail(l)[j].number
    BY DEF Before
  <2>1. 1 < j + 1 BY <1>2
  <2> QED BY <1>1, <2>1 DEF Sorted
<1> QED BY <1>3, <1>4

LEMMA BeforeTail ==
    ASSUME NEW k \in Seq(Message), NEW l \in Seq(Message), l # <<>>, Before(k, l)
    PROVE  Before(k, Tail(l)) /\ Before(k, <<Head(l)>>)
BY HeadAndTail DEF Before

\* The last number of each sender that is past its send, and a line without
\* later ones.
Sent == [s \in Senders |-> IF tpc[s] = "idle" THEN calls[s] ELSE calls[s] - 1]
Upto(l, sent) == \A i \in DOMAIN l : l[i].number <= sent[l[i].from]

OrderInv ==
    /\ Sorted(InTransit) /\ Upto(InTransit, Sent)
    /\ \A q \in Queues : /\ Sorted(queue[q]) /\ Upto(queue[q], Sent)
                         /\ Before(InTransit, queue[q])
    /\ \A s \in Senders :
           tpc[s] # "idle" => message[s].from = s /\ message[s].number = calls[s]

LEMMA UptoConcat ==
    ASSUME NEW k \in Seq(Message), NEW l \in Seq(Message), NEW sent
    PROVE  Upto(k \o l, sent) <=> Upto(k, sent) /\ Upto(l, sent)
<1>1. /\ \A i \in DOMAIN k : i \in DOMAIN (k \o l) /\ (k \o l)[i] = k[i]
      /\ \A i \in DOMAIN l : Len(k) + i \in DOMAIN (k \o l) /\ (k \o l)[Len(k) + i] = l[i]
  BY ConcatParts
<1>2. ASSUME NEW i \in DOMAIN (k \o l)
      PROVE  \/ i \in DOMAIN k /\ (k \o l)[i] = k[i]
             \/ i - Len(k) \in DOMAIN l /\ (k \o l)[i] = l[i - Len(k)]
  BY <1>1, ConcatParts
<1>3. Upto(k \o l, sent) => Upto(k, sent) /\ Upto(l, sent)
  BY <1>1 DEF Upto
<1>4. Upto(k, sent) /\ Upto(l, sent) => Upto(k \o l, sent)
  BY <1>2, Zenon DEF Upto
<1> QED BY <1>3, <1>4

LEMMA SentType == TypeInv => Sent \in [Senders -> Int]
BY SizesAssumption DEF TypeInv, TypeOK, Sent

LEMMA UptoTail ==
    ASSUME NEW l \in Seq(Message), l # <<>>, NEW sent, Upto(l, sent)
    PROVE  Upto(Tail(l), sent) /\ Upto(<<Head(l)>>, sent)
BY HeadAndTail DEF Upto

LEMMA UptoGrows ==
    ASSUME NEW l \in Seq(Message), NEW sent \in [Senders -> Int], NEW more \in [Senders -> Int],
           \A s \in Senders : sent[s] <= more[s], Upto(l, sent)
    PROVE  Upto(l, more)
<1> SUFFICES ASSUME NEW i \in DOMAIN l PROVE l[i].number <= more[l[i].from]
    BY DEF Upto
<1>1. l[i] \in Message
  OBVIOUS
<1>2. l[i].from \in Senders /\ l[i].number \in Int
  BY <1>1, SizesAssumption DEF Message
<1>3. l[i].number <= sent[l[i].from] /\ sent[l[i].from] <= more[l[i].from]
  BY <1>2 DEF Upto
<1>4. sent[l[i].from] \in Int /\ more[l[i].from] \in Int
  BY <1>2
<1> QED BY <1>2, <1>3, <1>4

\* The batcher appends the head it takes to the line, or the batch is dropped
\* with it.
LEMMA TransitTake ==
    ASSUME TypeInv, NEW q \in Queues, Take(q)
    PROVE  \/ InTransit' = InTransit \o <<Head(queue[q])>>
           \/ ~listening /\ InTransit' = delivered
<1>1. /\ batch \in Seq(Message) /\ delivered \in Seq(Message)
      /\ queue[q] \in Seq(Message) /\ queue[q] # <<>>
  BY DEF TypeInv, TypeOK, Take
<1> DEFINE h == Head(queue[q])
           grown == Append(batch, h)
<1>2. h \in Message
  BY <1>1, HeadAndTail
<1>3. grown \in Seq(Message) /\ delivered \o grown = (delivered \o batch) \o <<h>>
  BY <1>1, <1>2
<1>4. CASE batch' = <<>> /\ Deliver(grown)
  <2>1. CASE delivered' = delivered \o grown
    <3>1. (delivered \o grown) \o <<>> = delivered \o grown BY <1>1, <1>3
    <3> QED BY <1>3, <1>4, <2>1, <3>1 DEF InTransit
  <2>2. CASE ~listening /\ delivered' = delivered
    <3>1. delivered \o <<>> = delivered BY <1>1
    <3> QED BY <1>4, <2>2, <3>1 DEF InTransit
  <2> QED BY <1>4, <2>1, <2>2 DEF Deliver
<1>5. CASE batch' = grown /\ UNCHANGED delivered
  BY <1>3, <1>5 DEF InTransit
<1> QED BY <1>4, <1>5 DEF Take

LEMMA TransitFlush ==
    ASSUME TypeInv, batch' = <<>>, Deliver(batch)
    PROVE  InTransit' = InTransit \/ (~listening /\ InTransit' = delivered)
<1>1. batch \in Seq(Message) /\ delivered \in Seq(Message)
  BY DEF TypeInv, TypeOK
<1>2. delivered \o <<>> = delivered /\ (delivered \o batch) \o <<>> = delivered \o batch
  BY <1>1
<1> QED BY <1>2 DEF Deliver, InTransit

\* What is known of the line is known of what was delivered.
LEMMA DeliveredPart ==
    ASSUME TypeInv, OrderInv
    PROVE  /\ Sorted(delivered) /\ Upto(delivered, Sent)
           /\ \A q \in Queues : Before(delivered, queue[q])
<1>1. /\ batch \in Seq(Message) /\ delivered \in Seq(Message)
      /\ \A q \in Queues : queue[q] \in Seq(Message)
  BY DEF TypeInv, TypeOK
<1>2. Sorted(delivered) /\ Upto(delivered, Sent)
  BY <1>1, SortedConcat, UptoConcat DEF OrderInv, InTransit
<1>3. \A q \in Queues : Before(delivered, queue[q])
  BY <1>1, BeforeConcat DEF OrderInv, InTransit
<1> QED BY <1>2, <1>3

LEMMA OrderInit == Init => OrderInv
<1> SUFFICES ASSUME Init PROVE OrderInv
    OBVIOUS
<1>1. InTransit = <<>> /\ \A q \in Queues : queue[q] = <<>>
  BY DEF Init, InTransit
<1>2. DOMAIN <<>> = {} OBVIOUS
<1>3. \A s \in Senders : tpc[s] = "idle" BY DEF Init
<1> QED BY <1>1, <1>2, <1>3 DEF OrderInv, Sorted, Upto, Before

LEMMA OrderTake ==
    ASSUME TypeInv, OwnInv, OrderInv, NEW q \in Queues, Take(q)
    PROVE  OrderInv'
<1> DEFINE h == Head(queue[q])
<1>1. /\ queue \in [Queues -> Seq(Message)]
      /\ \A r \in Queues : queue[r] \in Seq(Message)
      /\ batch \in Seq(Message) /\ delivered \in Seq(Message)
      /\ InTransit \in Seq(Message)
  BY DEF TypeInv, TypeOK, InTransit
<1>2. /\ queue[q] # <<>>
      /\ queue'[q] = Tail(queue[q]) /\ \A r \in Queues \ {q} : queue'[r] = queue[r]
      /\ UNCHANGED <<tpc, calls, message>>
  BY <1>1 DEF Take, senders
<1>3. h \in Message /\ <<h>> \in Seq(Message) /\ Tail(queue[q]) \in Seq(Message)
  BY <1>1, <1>2, HeadAndTail
<1>4. Sent' = Sent
  BY <1>2 DEF Sent
<1>5. /\ Sorted(Tail(queue[q])) /\ Before(<<h>>, Tail(queue[q]))
      /\ Upto(Tail(queue[q]), Sent) /\ Upto(<<h>>, Sent)
      /\ Before(InTransit, Tail(queue[q])) /\ Before(InTransit, <<h>>)
  BY <1>1, <1>2, SortedTail, UptoTail, BeforeTail DEF OrderInv
<1>6. ASSUME NEW r \in Queues \ {q} PROVE Before(<<h>>, queue[r])
  <2>1. QueueOf(h) = q BY <1>1, <1>2, HeadAndTail DEF OwnInv
  <2>2. \A j \in DOMAIN queue[r] : QueueOf(queue[r][j]) = r BY DEF OwnInv
  <2>3. \A j \in DOMAIN queue[r] : ~Same(h, queue[r][j]) BY <2>1, <2>2 DEF Same
  <2> QED BY <2>3 DEF Before
<1>7. CASE InTransit' = InTransit \o <<h>>
  <2>1. Sorted(<<h>>) BY DEF Sorted
  <2>2. Sorted(InTransit') /\ Upto(InTransit', Sent)
    BY <1>1, <1>3, <1>5, <1>7, <2>1, SortedConcat, UptoConcat DEF OrderInv
  <2>3. ASSUME NEW r \in Queues PROVE Before(InTransit', queue'[r])
    <3>1. CASE r = q
      <4>1. Before(InTransit \o <<h>>, Tail(queue[q]))
        BY <1>1, <1>3, <1>5, BeforeConcat
      <4> QED BY <1>2, <1>7, <3>1, <4>1
    <3>2. CASE r # q
      <4>1. Before(InTransit, queue[r]) BY DEF OrderInv
      <4>2. Before(<<h>>, queue[r]) BY <1>6, <3>2
      <4>3. Before(InTransit \o <<h>>, queue[r])
        BY <1>1, <1>3, <4>1, <4>2, BeforeConcat
      <4> QED BY <1>2, <1>7, <3>2, <4>3
    <3> QED BY <3>1, <3>2
  <2> QED BY <1>2, <1>4, <1>5, <2>2, <2>3 DEF OrderInv
<1>8. CASE InTransit' = delivered
  <2>1. Sorted(InTransit') /\ Upto(InTransit', Sent)
    BY <1>8, DeliveredPart
  <2>2. ASSUME NEW r \in Queues PROVE Before(InTransit', queue'[r])
    <3>1. Before(delivered, queue[r]) BY DeliveredPart
    <3>2. CASE r = q BY <1>1, <1>2, <1>8, <3>1, <3>2, BeforeTail
    <3>3. CASE r # q BY <1>2, <1>8, <3>1, <3>3
    <3> QED BY <3>2, <3>3
  <2> QED BY <1>2, <1>4, <1>5, <2>1, <2>2 DEF OrderInv
<1> QED BY <1>7, <1>8, TransitTake

\* The end of a call lets the numbers of its sender grow, and no other's.
LEMMA SentReturn ==
    ASSUME TypeInv, NEW s \in Senders, tpc[s] # "idle", Return(s)
    PROVE  /\ \A r \in Senders : Sent[r] <= Sent'[r]
           /\ Sent'[s] = calls[s] /\ Sent[s] < calls[s]
           /\ Sent' \in [Senders -> Int]
           /\ \A r \in Senders : tpc'[r] # "idle" =>
                  tpc[r] # "idle" /\ UNCHANGED <<message[r], calls[r]>>
<1>1. /\ tpc \in [Senders -> {"idle", "send", "evict"}]
      /\ calls \in [Senders -> Nat]
      /\ message \in [Senders -> Message \cup {NoMessage}]
  BY SizesAssumption DEF TypeInv, TypeOK
<1>2. /\ tpc'[s] = "idle" /\ \A r \in Senders \ {s} : tpc'[r] = tpc[r]
      /\ \A r \in Senders \ {s} : message'[r] = message[r]
      /\ calls' = calls
  BY <1>1 DEF Return
<1>3. \A r \in Senders : calls[r] \in Nat
  BY <1>1
<1>4. \A r \in Senders : Sent[r] <= Sent'[r]
  BY <1>2, <1>3 DEF Sent
<1>5. Sent'[s] = calls[s] /\ Sent[s] < calls[s]
  BY <1>2, <1>3 DEF Sent
<1>6. Sent' \in [Senders -> Int]
  BY <1>2, <1>3 DEF Sent
<1> QED BY <1>2, <1>4, <1>5, <1>6

\* Dropping a head, or nothing, while the senders go on keeps the order.
LEMMA OrderDrop ==
    ASSUME TypeInv, OrderInv, UNCHANGED <<delivered, batch>>,
           \A q \in Queues : queue'[q] = queue[q] \/ (queue[q] # <<>> /\ queue'[q] = Tail(queue[q])),
           Sent' \in [Senders -> Int], \A s \in Senders : Sent[s] <= Sent'[s],
           \A s \in Senders : tpc'[s] # "idle" => message'[s].from = s /\ message'[s].number = calls'[s]
    PROVE  OrderInv'
<1>1. /\ \A q \in Queues : queue[q] \in Seq(Message)
      /\ InTransit \in Seq(Message)
      /\ Sent \in [Senders -> Int]
  BY SentType DEF TypeInv, TypeOK, InTransit
<1>2. InTransit' = InTransit
  BY DEF InTransit
<1>3. Sorted(InTransit') /\ Upto(InTransit', Sent')
  BY <1>1, <1>2, UptoGrows DEF OrderInv
<1>4. ASSUME NEW q \in Queues
      PROVE  Sorted(queue'[q]) /\ Upto(queue'[q], Sent') /\ Before(InTransit', queue'[q])
  <2>1. Sorted(queue[q]) /\ Upto(queue[q], Sent) /\ Before(InTransit, queue[q])
    BY DEF OrderInv
  <2>2. Sorted(queue'[q]) /\ Upto(queue'[q], Sent) /\ Before(InTransit', queue'[q]) /\ queue'[q] \in Seq(Message)
    <3>1. CASE queue'[q] = queue[q] BY <1>1, <1>2, <2>1, <3>1
    <3>2. CASE queue[q] # <<>> /\ queue'[q] = Tail(queue[q])
      BY <1>1, <1>2, <2>1, <3>2, SortedTail, UptoTail, BeforeTail, HeadAndTail
    <3> QED BY <3>1, <3>2
  <2> QED BY <1>1, <2>2, UptoGrows
<1> QED BY <1>3, <1>4 DEF OrderInv

LEMMA OrderNext == TypeInv /\ OwnInv /\ OrderInv /\ [Next]_vars => OrderInv'
<1> SUFFICES ASSUME TypeInv, OwnInv, OrderInv, [Next]_vars PROVE OrderInv'
    OBVIOUS
<1>t. /\ queue \in [Queues -> Seq(Message)]
      /\ \A q \in Queues : queue[q] \in Seq(Message)
      /\ InTransit \in Seq(Message)
      /\ tpc \in [Senders -> {"idle", "send", "evict"}]
      /\ calls \in [Senders -> Nat]
      /\ message \in [Senders -> Message \cup {NoMessage}]
      /\ \A s \in Senders : tpc[s] # "idle" => message[s] \in Message
      /\ Sent \in [Senders -> Int]
  BY SizesAssumption, SentType DEF TypeInv, TypeOK, InTransit
<1>f. \A s \in Senders : Sent[s] \in Int /\ Sent[s] <= Sent[s]
  BY <1>t
<1>q. "state" \in Queues /\ "bulk" \in Queues /\ "priority" \in Queues
  BY DEF Queues
<1>k. ASSUME UNCHANGED <<queue, calls, tpc, message, delivered, batch>> PROVE OrderInv'
  <2>1. Sent' = Sent /\ InTransit' = InTransit BY <1>k DEF Sent, InTransit
  <2> QED BY <1>k, <2>1 DEF OrderInv
<1>1. CASE PollState \/ PollBulk \/ PollPriority
  BY <1>1, <1>k, <1>q, OrderTake DEF PollState, PollBulk, PollPriority, Stay, senders
<1>2. CASE Select
  <2>1. CASE batch' = <<>> /\ Deliver(batch) /\ UNCHANGED <<queue, senders>>
    <3>1. InTransit' = InTransit \/ InTransit' = delivered BY <2>1, TransitFlush
    <3>2. Sent' = Sent /\ UNCHANGED <<queue, calls, tpc, message>>
      BY <2>1 DEF Sent, senders
    <3>3. CASE InTransit' = InTransit BY <3>2, <3>3 DEF OrderInv
    <3>4. CASE InTransit' = delivered BY <3>2, <3>4, DeliveredPart DEF OrderInv
    <3> QED BY <3>1, <3>3, <3>4
  <2> QED BY <1>2, <1>q, <2>1, OrderTake DEF Select
<1>3. ASSUME NEW s \in Senders, NEW type \in Types, Call(s, type) PROVE OrderInv'
  <2>1. /\ tpc[s] = "idle" /\ tpc'[s] = "send" /\ \A r \in Senders \ {s} : tpc'[r] = tpc[r]
        /\ calls'[s] = calls[s] + 1 /\ \A r \in Senders \ {s} : calls'[r] = calls[r]
        /\ message'[s].from = s /\ message'[s].number = calls[s] + 1
        /\ \A r \in Senders \ {s} : message'[r] = message[r]
        /\ UNCHANGED <<queue, delivered, batch>>
    BY <1>3, <1>t DEF Call, batcher
  <2>2. ASSUME NEW r \in Senders PROVE Sent'[r] = Sent[r]
    <3>1. CASE r = s BY <1>t, <2>1, <3>1 DEF Sent
    <3>2. CASE r # s BY <1>t, <2>1, <3>2 DEF Sent
    <3> QED BY <3>1, <3>2
  <2>3. Sent' \in [Senders -> Int] /\ \A r \in Senders : Sent[r] <= Sent'[r]
    BY <1>t, <2>2 DEF Sent
  <2>4. \A r \in Senders : tpc'[r] # "idle" => message'[r].from = r /\ message'[r].number = calls'[r]
    BY <2>1 DEF OrderInv
  <2> QED BY <2>1, <2>3, <2>4, OrderDrop
<1>4. ASSUME NEW s \in Senders, Enqueue(s) PROVE OrderInv'
  <2> DEFINE m == message[s]
             q == QueueOf(m)
  <2>1. m \in Message /\ tpc[s] # "idle" /\ m.from = s /\ m.number = calls[s]
    BY <1>4, <1>t DEF Enqueue, OrderInv
  <2>2. q \in Queues /\ queue[q] \in Seq(Message) /\ <<m>> \in Seq(Message)
    BY <2>1, <1>t, QueueOfType
  <2>3. /\ queue'[q] = queue[q] \o <<m>>
        /\ \A r \in Queues \ {q} : queue'[r] = queue[r]
        /\ InTransit' = InTransit
    <3>1. Append(queue[q], m) = queue[q] \o <<m>> BY <2>2
    <3>2. queue' = [queue EXCEPT ![q] = Append(queue[q], m)] /\ UNCHANGED <<delivered, batch>>
      BY <1>4 DEF Enqueue, Push, batcher
    <3> QED BY <1>t, <2>2, <3>1, <3>2 DEF InTransit
  <2>4. /\ \A r \in Senders : Sent[r] <= Sent'[r]
        /\ Sent'[s] = calls[s] /\ Sent[s] < calls[s]
        /\ Sent' \in [Senders -> Int]
        /\ \A r \in Senders : tpc'[r] # "idle" =>
               tpc[r] # "idle" /\ UNCHANGED <<message[r], calls[r]>>
    BY <1>4, <2>1, SentReturn DEF Enqueue
  <2>5. ASSUME NEW l \in Seq(Message), Upto(l, Sent) PROVE Before(l, <<m>>) /\ Upto(l, Sent')
    <3>1. Upto(l, Sent') BY <1>t, <2>4, <2>5, UptoGrows
    <3>2. ASSUME NEW i \in DOMAIN l, Same(l[i], m) PROVE l[i].number < m.number
      <4>1. l[i] \in Message OBVIOUS
      <4>2. l[i].number \in Int BY <4>1, SizesAssumption DEF Message
      <4>3. l[i].from = s /\ l[i].number <= Sent[s] BY <2>1, <2>5, <3>2 DEF Same, Upto
      <4> QED BY <1>t, <2>1, <2>4, <4>2, <4>3
    <3> QED BY <3>1, <3>2 DEF Before
  <2>6. Sorted(<<m>>) /\ Upto(<<m>>, Sent')
    BY <1>t, <2>1, <2>4 DEF Sorted, Upto
  <2>7. Sorted(InTransit') /\ Upto(InTransit', Sent')
    BY <1>t, <2>3, <2>5 DEF OrderInv
  <2>8. ASSUME NEW r \in Queues
        PROVE  Sorted(queue'[r]) /\ Upto(queue'[r], Sent') /\ Before(InTransit', queue'[r])
    <3>1. Sorted(queue[r]) /\ Upto(queue[r], Sent) /\ Before(InTransit, queue[r]) /\ Upto(InTransit, Sent)
      BY DEF OrderInv
    <3>2. CASE r # q BY <1>t, <2>3, <2>5, <3>1, <3>2
    <3>3. CASE r = q
      <4>1. Before(queue[q], <<m>>) /\ Upto(queue[q], Sent') /\ Before(InTransit, <<m>>)
        BY <1>t, <2>2, <2>5, <3>1, <3>3
      <4>2. Sorted(queue[q] \o <<m>>) BY <2>2, <2>6, <3>1, <3>3, <4>1, SortedConcat
      <4>3. Upto(queue[q] \o <<m>>, Sent') BY <2>2, <2>6, <4>1, UptoConcat
      <4>4. Before(InTransit, queue[q] \o <<m>>)
        BY <1>t, <2>2, <3>1, <3>3, <4>1, BeforeConcat
      <4> QED BY <2>3, <3>3, <4>2, <4>3, <4>4
    <3> QED BY <3>2, <3>3
  <2> QED BY <2>4, <2>7, <2>8 DEF OrderInv
<1>5. ASSUME NEW s \in Senders, tpc[s] # "idle", Return(s), UNCHANGED <<delivered, batch>>,
             \A q \in Queues : queue'[q] = queue[q] \/ (queue[q] # <<>> /\ queue'[q] = Tail(queue[q]))
      PROVE  OrderInv'
  <2>1. /\ \A r \in Senders : Sent[r] <= Sent'[r]
        /\ Sent' \in [Senders -> Int]
        /\ \A r \in Senders : tpc'[r] # "idle" =>
               tpc[r] # "idle" /\ UNCHANGED <<message[r], calls[r]>>
    BY <1>5, SentReturn
  <2> QED BY <1>5, <2>1, OrderDrop DEF OrderInv
<1>6. ASSUME NEW s \in Senders, Drop(s) PROVE OrderInv'
  BY <1>5, <1>6 DEF Drop, batcher
<1>7. ASSUME NEW s \in Senders, tpc[s] # "idle", UNCHANGED <<delivered, batch, calls, message>>,
             \E p \in {"send", "evict"} : tpc' = [tpc EXCEPT ![s] = p],
             \A q \in Queues : queue'[q] = queue[q] \/ (queue[q] # <<>> /\ queue'[q] = Tail(queue[q]))
      PROVE  OrderInv'
  <2>1. \A r \in Senders : tpc'[r] = "idle" <=> tpc[r] = "idle" BY <1>7, <1>t
  <2>2. Sent' = Sent BY <1>7, <2>1 DEF Sent
  <2>3. \A r \in Senders : tpc'[r] # "idle" => message'[r].from = r /\ message'[r].number = calls'[r]
    BY <1>7, <2>1 DEF OrderInv
  <2> QED BY <1>7, <1>t, <1>f, <2>2, <2>3, OrderDrop
<1>8. ASSUME NEW s \in Senders, FindFull(s) PROVE OrderInv'
  BY <1>7, <1>8 DEF FindFull, batcher
<1>9. ASSUME NEW s \in Senders, Evict(s) PROVE OrderInv'
  <2> DEFINE q == QueueOf(message[s])
  <2>1. q \in Queues /\ tpc[s] # "idle" /\ UNCHANGED <<delivered, batch>>
    BY <1>9, <1>t, QueueOfType DEF Evict, batcher
  <2>2. \A r \in Queues : queue'[r] = queue[r] \/ (queue[r] # <<>> /\ queue'[r] = Tail(queue[r]))
    BY <1>9, <1>t, <2>1 DEF Evict
  <2>3. CASE Return(s) BY <1>5, <2>1, <2>2, <2>3
  <2>4. CASE tpc' = [tpc EXCEPT ![s] = "send"] /\ UNCHANGED <<calls, message>>
    BY <1>7, <2>1, <2>2, <2>4
  <2> QED BY <1>9, <2>3, <2>4 DEF Evict
<1>10. CASE Listen BY <1>10, <1>k DEF Listen, senders, batcher
<1>11. CASE UNCHANGED vars BY <1>11, <1>k DEF vars, senders, batcher
<1> QED BY <1>1, <1>2, <1>3, <1>4, <1>6, <1>8, <1>9, <1>10, <1>11 DEF Next, Batcher, Sender

\* enqueueLatest, runMessageBatcher: what one goroutine sent through one
\* channel reaches the host in the order it was sent, and once.
THEOREM InOrderHolds == Spec => []InOrder
<1>1. TypeInv /\ OrderInv => InOrder
  <2> SUFFICES ASSUME TypeInv, OrderInv, NEW q \in Queues PROVE Sorted(InTransit \o queue[q])
      BY DEF InOrder, Sorted
  <2>1. InTransit \in Seq(Message) /\ queue[q] \in Seq(Message)
    BY DEF TypeInv, TypeOK, InTransit
  <2> QED BY <2>1, SortedConcat DEF OrderInv
<1>2. Init => BurstInv /\ TypeInv /\ OwnInv /\ OrderInv
  BY BurstInit, TypeInit, OwnInit, OrderInit
<1>3. BurstInv /\ TypeInv /\ OwnInv /\ OrderInv /\ [Next]_vars
      => (BurstInv /\ TypeInv /\ OwnInv /\ OrderInv)'
  BY BurstNext, TypeNext, OwnNext, OrderNext
<1> QED BY <1>1, <1>2, <1>3, PTL DEF Spec

(***************************************************************************)
(* StateKept.  A message leaves its channel only for the batch or by an    *)
(* eviction, and no call evicts from the channel of the state messages.    *)
(***************************************************************************)
In(l) == {l[i] : i \in DOMAIN l}

LEMMA InConcat ==
    ASSUME NEW k \in Seq(Message), NEW l \in Seq(Message)
    PROVE  In(k) \subseteq In(k \o l) /\ In(l) \subseteq In(k \o l)
<1>1. In(k) \subseteq In(k \o l) BY ConcatParts DEF In
<1>2. ASSUME NEW i \in DOMAIN l PROVE l[i] \in In(k \o l)
  <2>1. Len(k) + i \in DOMAIN (k \o l) /\ (k \o l)[Len(k) + i] = l[i] BY ConcatParts
  <2> QED BY <2>1 DEF In
<1> QED BY <1>1, <1>2 DEF In

LEMMA InTail ==
    ASSUME NEW l \in Seq(Message), l # <<>>
    PROVE  In(l) \subseteq {Head(l)} \cup In(Tail(l))
<1> SUFFICES ASSUME NEW i \in DOMAIN l, i # 1 PROVE l[i] \in In(Tail(l))
    BY HeadAndTail DEF In
<1>1. i - 1 \in DOMAIN Tail(l) /\ Tail(l)[i - 1] = l[i]
  OBVIOUS
<1> QED BY <1>1 DEF In

LEMMA KeptTake ==
    ASSUME TypeInv, listening, NEW q \in Queues, Take(q)
    PROVE  Everywhere \subseteq Everywhere'
<1> DEFINE h == Head(queue[q])
<1>1. /\ queue \in [Queues -> Seq(Message)]
      /\ queue[q] \in Seq(Message) /\ queue[q] # <<>>
      /\ InTransit \in Seq(Message)
      /\ queue'[q] = Tail(queue[q]) /\ \A r \in Queues \ {q} : queue'[r] = queue[r]
  BY DEF TypeInv, TypeOK, Take, InTransit
<1>2. InTransit' = InTransit \o <<h>>
  BY TransitTake
<1>3. <<h>> \in Seq(Message) /\ h \in In(<<h>>)
  BY <1>1, HeadAndTail DEF In
<1>4. In(InTransit) \subseteq In(InTransit') /\ h \in In(InTransit')
  BY <1>1, <1>2, <1>3, InConcat
<1>5. ASSUME NEW r \in Queues PROVE In(queue[r]) \subseteq In(InTransit') \cup In(queue'[r])
  <2>1. CASE r = q BY <1>1, <1>4, <2>1, InTail
  <2>2. CASE r # q BY <1>1, <2>2
  <2> QED BY <2>1, <2>2
<1> QED BY <1>4, <1>5 DEF Everywhere, In

\* runMessageBatcher, enqueueState: a queued state message is delivered or
\* still on its way, unless nobody listens.
THEOREM StateKeptHolds == Spec => StateKept
<1> DEFINE Kept == \A m \in Message :
                       /\ m \in Everywhere /\ ClassOf(m.type) = "state"
                       /\ listening
                       => m \in Everywhere'
<1>1. ASSUME TypeInv, OwnInv, [Next]_vars PROVE Kept
  <2> SUFFICES ASSUME NEW m \in Message, m \in Everywhere, ClassOf(m.type) = "state", listening
               PROVE  m \in Everywhere'
      OBVIOUS
  <2>t. /\ queue \in [Queues -> Seq(Message)]
        /\ \A q \in Queues : queue[q] \in Seq(Message)
        /\ \A s \in Senders : tpc[s] # "idle" => message[s] \in Message
    BY <1>1 DEF TypeInv, TypeOK
  <2>q. "state" \in Queues /\ "bulk" \in Queues /\ "priority" \in Queues
    BY DEF Queues
  <2>k. ASSUME UNCHANGED <<queue, delivered, batch>> PROVE m \in Everywhere'
    BY <2>k DEF Everywhere, InTransit
  <2>1. CASE PollState \/ PollBulk \/ PollPriority
    BY <1>1, <2>1, <2>k, <2>q, KeptTake DEF PollState, PollBulk, PollPriority, Stay
  <2>2. CASE Select
    <3>1. CASE batch' = <<>> /\ Deliver(batch) /\ UNCHANGED queue
      <4>1. InTransit' = InTransit BY <1>1, <3>1, TransitFlush
      <4> QED BY <3>1, <4>1 DEF Everywhere
    <3> QED BY <1>1, <2>2, <2>q, <3>1, KeptTake DEF Select
  <2>3. ASSUME NEW s \in Senders, Enqueue(s) PROVE m \in Everywhere'
    <3> DEFINE q == QueueOf(message[s])
    <3>1. message[s] \in Message /\ q \in Queues BY <2>3, <2>t, QueueOfType DEF Enqueue
    <3>2. /\ queue'[q] = Append(queue[q], message[s])
          /\ \A r \in Queues \ {q} : queue'[r] = queue[r]
          /\ InTransit' = InTransit
      BY <2>3, <2>t, <3>1 DEF Enqueue, Push, batcher, InTransit
    <3>3. In(queue[q]) \subseteq In(queue'[q])
      <4>1. Append(queue[q], message[s]) = queue[q] \o <<message[s]>> /\ <<message[s]>> \in Seq(Message)
        BY <2>t, <3>1
      <4> QED BY <2>t, <3>1, <3>2, <4>1, InConcat
    <3>4. \A r \in Queues : In(queue[r]) \subseteq In(queue'[r])
      BY <3>2, <3>3
    <3> QED BY <3>2, <3>4 DEF Everywhere, In
  <2>4. ASSUME NEW s \in Senders, Evict(s) PROVE m \in Everywhere'
    <3> DEFINE q == QueueOf(message[s])
    <3>1. q \in Queues /\ q # "state" /\ InTransit' = InTransit
      BY <1>1, <2>4, <2>t, QueueOfType DEF Evict, OwnInv, Evicts, QueueOf, ClassOf, batcher, InTransit
    <3>2. \A r \in Queues \ {q} : queue'[r] = queue[r]
      BY <2>4, <2>t, <3>1 DEF Evict
    <3>3. QueueOf(m) = "state" BY DEF QueueOf
    <3>4. CASE m \in In(InTransit) BY <3>1, <3>4 DEF Everywhere, In
    <3>5. ASSUME NEW r \in Queues, m \in In(queue[r]) PROVE m \in Everywhere'
      <4>1. r = "state" BY <1>1, <3>3, <3>5 DEF OwnInv, In
      <4>2. m \in In(queue'[r]) BY <3>1, <3>2, <3>5, <4>1
      <4> QED BY <4>2 DEF Everywhere, In
    <3> QED BY <3>4, <3>5 DEF Everywhere, In
  <2>5. ASSUME NEW s \in Senders, NEW type \in Types, Call(s, type) PROVE m \in Everywhere'
    BY <2>5, <2>k DEF Call, batcher
  <2>6. ASSUME NEW s \in Senders, Drop(s) \/ FindFull(s) PROVE m \in Everywhere'
    BY <2>6, <2>k DEF Drop, FindFull, batcher
  <2>7. CASE Listen \/ UNCHANGED vars BY <2>7, <2>k DEF Listen, vars, batcher
  <2> QED BY <1>1, <2>1, <2>2, <2>3, <2>4, <2>5, <2>6, <2>7 DEF Next, Batcher, Sender
<1>2. Init => BurstInv /\ TypeInv /\ OwnInv BY BurstInit, TypeInit, OwnInit
<1>3. BurstInv /\ TypeInv /\ OwnInv /\ [Next]_vars => (BurstInv /\ TypeInv /\ OwnInv)'
  BY BurstNext, TypeNext, OwnNext
<1>4. TypeInv /\ OwnInv /\ [Next]_vars => [Kept]_vars
  BY <1>1
<1> HIDE DEF Kept
<1>5. Spec => [][Kept]_vars
  BY <1>2, <1>3, <1>4, PTL DEF Spec
<1> QED BY <1>5 DEF StateKept, Kept

---------------------------------------------------------------------------
(***************************************************************************)
(* SpilledReplies.                                                         *)
(***************************************************************************)
Labels ==
    {"idle", "handle", "mkdir", "own", "lock", "create", "fill", "rename",
     "schedule", "tell", "answer"}

\* The fields that the life of a file depends on have their types.
FileType ==
    /\ core \in {"up", "down"}
    /\ pc \in [Calls -> Labels]
    /\ kind \in [Calls -> {"query", "setup"}]
    /\ wire \in [Calls -> {"none", "inline", "file", "dropped"}]
    /\ host \in [Calls -> {"idle", "waiting", "reading", "stale", "discarding"}]
    /\ owner \in [Entries -> {None, "user", "root"}]
    /\ file \in [Calls -> {"part", "whole"}]
    /\ configMu \in Calls \cup {None}

\* A call is at one place at a time: with its goroutine, on the wire or with
\* the host.  Nothing of a dead Core is left but what the host holds.
OnePlace(c) ==
    /\ core = "down" => /\ pc[c] = "idle" /\ wire[c] = "none"
                        /\ host[c] \in {"idle", "stale", "discarding"}
    /\ pc[c] # "idle" => wire[c] = "none" /\ host[c] \in {"waiting", "idle"}
    /\ wire[c] \in {"inline", "file"} => host[c] \in {"waiting", "idle"}
    /\ host[c] = "waiting" => pc[c] # "idle" \/ wire[c] # "none"

\* Whose step a label is.
KindAt(c) ==
    /\ pc[c] \in {"mkdir", "own", "tell"} \/ wire[c] = "file" \/ host[c] = "reading"
           => kind[c] = "query"
    /\ pc[c] \in {"lock", "rename"} => kind[c] = "setup"

\* What there is of a call's file at each label, in whose directory.
FileAt(c) ==
    /\ (\/ pc[c] \in {"rename", "tell"} \/ wire[c] = "file" \/ host[c] = "reading"
        \/ pc[c] = "schedule" /\ kind[c] = "query")
           => Exists(c) /\ file[c] = "whole"
    /\ pc[c] = "fill" => Exists(c)
    /\ Spilled(c) /\ pc[c] \in {"create", "fill"} => owner["dir"] = "user"
    /\ core = "up" /\ Spilled(c) /\ Exists(c) =>
           /\ owner["dir"] = "user"
           /\ \/ pc[c] \in {"fill", "schedule", "tell"} \/ wire[c] \in {"file", "dropped"}
              \/ host[c] \in {"reading", "discarding"}

CallInv(c) == OnePlace(c) /\ KindAt(c) /\ FileAt(c)

FileInv ==
    /\ FileType
    /\ \A c \in Calls : CallInv(c)
    /\ config.held = "whole"

LEMMA InitFileInv == SpillInit => FileInv
<1> SUFFICES ASSUME SpillInit PROVE FileInv
  OBVIOUS
<1>1. FileType
  BY SpillAssumption DEF SpillInit, FileType, Labels, Entries, Maker
<1>2. ASSUME NEW c \in Calls PROVE CallInv(c)
  BY SpillAssumption
  DEF SpillInit, CallInv, OnePlace, KindAt, FileAt, Exists, Spilled, Entries
<1>3. config.held = "whole"
  BY DEF SpillInit
<1> QED BY <1>1, <1>2, <1>3 DEF FileInv

\* A step of a goroutine keeps the types.
LEMMA CallStepType ==
    ASSUME FileInv, NEW c \in Calls, CallStep(c)
    PROVE  FileType'
<1> USE SpillAssumption DEF FileInv, FileType, Labels, Goto, disk, sweeping
<1>1. CASE Handle(c)
  BY <1>1 DEF Handle, AfterHandler
<1>2. CASE MakeDir(c)
  BY <1>2 DEF MakeDir, Entries, Maker
<1>3. CASE OwnDir(c)
  BY <1>3 DEF OwnDir, Entries
<1>4. CASE LockConfig(c)
  BY <1>4 DEF LockConfig
<1>5. CASE Create(c)
  BY <1>5 DEF Create, Entries, Maker
<1>6. CASE CreateFails(c)
  BY <1>6 DEF CreateFails
<1>7. CASE Fill(c)
  BY <1>7 DEF Fill
<1>8. CASE FillFails(c)
  BY <1>8 DEF FillFails, Entries
<1>9. CASE Rename(c)
  BY <1>9 DEF Rename, Entries
<1>10. CASE RenameFails(c)
  BY <1>10 DEF RenameFails, Entries
<1>11. CASE Schedule(c)
  BY <1>11 DEF Schedule
<1>12. CASE Reply(c)
  BY <1>12 DEF Reply
<1> QED
  BY <1>1, <1>2, <1>3, <1>4, <1>5, <1>6, <1>7, <1>8, <1>9, <1>10, <1>11, <1>12
  DEF CallStep

\* A step of a goroutine keeps what is known of every call.
LEMMA CallStepCalls ==
    ASSUME FileInv, NEW c \in Calls, CallStep(c), NEW d \in Calls
    PROVE  CallInv(d)'
<1> USE SpillAssumption
    DEF FileInv, FileType, Labels, Goto, disk, sweeping, CallInv, OnePlace, KindAt,
        FileAt, Exists, Spilled, Entries
<1>0. CallInv(c) /\ CallInv(d)
  OBVIOUS
<1>1. CASE Handle(c)
  BY <1>0, <1>1 DEF Handle, AfterHandler
<1>2. CASE MakeDir(c)
  BY <1>0, <1>2 DEF MakeDir, Maker
<1>3. CASE OwnDir(c)
  BY <1>0, <1>3 DEF OwnDir
<1>4. CASE LockConfig(c)
  BY <1>0, <1>4 DEF LockConfig
<1>5. CASE Create(c)
  BY <1>0, <1>5 DEF Create, Maker
<1>6. CASE CreateFails(c)
  BY <1>0, <1>6 DEF CreateFails
<1>7. CASE Fill(c)
  <2>1. CASE d = c
    BY <1>0, <1>7, <2>1 DEF Fill
  <2>2. CASE d # c
    <3>1. /\ pc'[d] = pc[d] /\ file'[d] = file[d]
          /\ UNCHANGED <<core, kind, wire, host, owner>>
      BY <1>7, <2>2 DEF Fill
    <3> QED BY <1>0, <3>1
  <2> QED BY <2>1, <2>2
<1>8. CASE FillFails(c)
  BY <1>0, <1>8 DEF FillFails
<1>9. CASE Rename(c)
  BY <1>0, <1>9 DEF Rename
<1>10. CASE RenameFails(c)
  BY <1>0, <1>10 DEF RenameFails
<1>11. CASE Schedule(c)
  BY <1>0, <1>11 DEF Schedule
<1>12. CASE Reply(c)
  BY <1>0, <1>12 DEF Reply
<1> QED
  BY <1>1, <1>2, <1>3, <1>4, <1>5, <1>6, <1>7, <1>8, <1>9, <1>10, <1>11, <1>12
  DEF CallStep

\* config.yaml is only ever replaced by a file that is whole.
LEMMA ConfigKept ==
    ASSUME FileInv, NEW c \in Calls, CallStep(c)
    PROVE  config'.held = "whole"
<1>1. CASE Rename(c)
  <2>1. CallInv(c) /\ pc[c] = "rename"
    BY <1>1 DEF Rename, Goto, FileInv
  <2>2. file[c] = "whole"
    BY <2>1 DEF CallInv, FileAt, Exists
  <2> QED BY <1>1, <2>2 DEF Rename
<1>2. ~Rename(c) => config' = config
  BY DEF CallStep, Handle, MakeDir, OwnDir, LockConfig, Create, CreateFails, Fill,
         FillFails, RenameFails, Schedule, Reply, disk
<1> QED BY <1>1, <1>2 DEF FileInv

LEMMA BootFileInv ==
    ASSUME FileInv, Boot
    PROVE  FileInv'
<1> USE SpillAssumption DEF FileInv, Boot, goroutines
<1>1. FileType'
  BY DEF FileType, Entries, SweptAtStart
<1>2. ASSUME NEW c \in Calls PROVE CallInv(c)'
  BY DEF FileType, CallInv, OnePlace, KindAt, FileAt, Exists, Spilled, Cleared,
         Entries, SweptAtStart
<1> QED BY <1>1, <1>2

LEMMA CoreEndsFileInv ==
    ASSUME FileInv, CoreEnds
    PROVE  FileInv'
<1> USE SpillAssumption DEF FileInv, CoreEnds, disk
<1>1. FileType'
  BY DEF FileType, Labels
<1>2. ASSUME NEW c \in Calls PROVE CallInv(c)'
  BY DEF FileType, CallInv, OnePlace, KindAt, FileAt, Exists, Spilled
<1> QED BY <1>1, <1>2

LEMMA AskFileInv ==
    ASSUME FileInv, NEW c \in Calls, NEW k \in {"query", "setup"}, Ask(c, k)
    PROVE  FileInv'
<1> USE SpillAssumption DEF FileInv, Ask, sweeping
<1>1. FileType'
  BY DEF FileType, Labels, Entries
<1>2. ASSUME NEW d \in Calls PROVE CallInv(d)'
  BY DEF FileType, CallInv, OnePlace, KindAt, FileAt, Exists, Spilled, Entries
<1> QED BY <1>1, <1>2

LEMMA HostFileInv ==
    ASSUME FileInv, NEW c \in Calls, HostStep(c) \/ GiveUp(c)
    PROVE  FileInv'
<1> USE SpillAssumption DEF FileInv, goroutines, disk, sweeping
<1>1. FileType'
  <2>1. CASE Receive(c)
    BY <2>1 DEF FileType, Receive, OnReply
  <2>2. CASE LetGo(c)
    BY <2>2 DEF FileType, LetGo, Entries
  <2>3. CASE GiveUp(c)
    BY <2>3 DEF FileType, GiveUp
  <2> QED BY <2>1, <2>2, <2>3 DEF HostStep
<1>2. ASSUME NEW d \in Calls PROVE CallInv(d)'
  <2> USE DEF FileType, CallInv, OnePlace, KindAt, FileAt, Exists, Spilled, Entries
  <2>0. CallInv(c) /\ CallInv(d)
    OBVIOUS
  <2>1. CASE Receive(c)
    <3>1. CASE d = c
      BY <2>0, <2>1, <3>1 DEF Receive, OnReply
    <3>2. CASE d # c
      <4>1. /\ wire'[d] = wire[d] /\ host'[d] = host[d]
            /\ UNCHANGED <<core, pc, kind, owner, file>>
        BY <2>1, <3>2 DEF Receive
      <4> QED BY <2>0, <4>1
    <3> QED BY <3>1, <3>2
  <2>2. CASE LetGo(c)
    BY <2>0, <2>2 DEF LetGo
  <2>3. CASE GiveUp(c)
    BY <2>0, <2>3 DEF GiveUp
  <2> QED BY <2>1, <2>2, <2>3 DEF HostStep
<1>3. config' = config
  BY DEF HostStep, Receive, LetGo, GiveUp
<1> QED BY <1>1, <1>2, <1>3

\* A sweep gives entries back and neither makes nor removes one.
LEMMA SweepFileInv ==
    ASSUME FileInv, NEW s \in Sweeps, SweepStep(s)
    PROVE  FileInv'
<1> USE SpillAssumption DEF FileInv, goroutines, disk
<1>1. CASE SweepOn(s)
  BY <1>1 DEF SweepOn, FileType, CallInv, OnePlace, KindAt, FileAt, Exists, Spilled
<1>2. CASE ReclaimEntry(s)
  <2>1. PICK t \in sweep[s].targets :
            owner' = IF Reclaims(t) THEN [owner EXCEPT ![t.entry] = "user"] ELSE owner
    BY <1>2 DEF ReclaimEntry
  <2>2. UNCHANGED <<core, pc, kind, wire, host, file, config, configMu>>
    BY <1>2 DEF ReclaimEntry
  <2>3. \A e \in Entries :
            owner'[e] = owner[e] \/ (owner[e] = "root" /\ owner'[e] = "user")
    BY <2>1 DEF Reclaims, FileType
  <2>4. FileType'
    BY <2>1, <2>2 DEF FileType
  <2>5. ASSUME NEW c \in Calls PROVE CallInv(c)'
    BY <2>2, <2>3 DEF CallInv, OnePlace, KindAt, FileAt, Exists, Spilled, Entries
  <2> QED BY <2>2, <2>4, <2>5
<1> QED BY <1>1, <1>2 DEF SweepStep

LEMMA NextFileInv == FileInv /\ [SpillNext]_spillVars => FileInv'
<1> SUFFICES ASSUME FileInv, [SpillNext]_spillVars PROVE FileInv'
  OBVIOUS
<1>1. CASE Boot
  BY <1>1, BootFileInv
<1>2. CASE CoreEnds
  BY <1>2, CoreEndsFileInv
<1>3. CASE \E c \in Calls, k \in {"query", "setup"} : Ask(c, k)
  BY <1>3, AskFileInv
<1>4. ASSUME NEW c \in Calls, CallStep(c) PROVE FileInv'
  BY <1>4, CallStepType, CallStepCalls, ConfigKept DEF FileInv
<1>5. ASSUME NEW c \in Calls, HostStep(c) \/ GiveUp(c) PROVE FileInv'
  BY <1>5, HostFileInv
<1>6. CASE \E s \in Sweeps : SweepStep(s)
  BY <1>6, SweepFileInv
<1>7. CASE UNCHANGED spillVars
  BY <1>7 DEF spillVars, goroutines, disk, sweeping, FileInv, FileType, CallInv, OnePlace,
              KindAt, FileAt, Exists, Spilled
<1> QED BY <1>1, <1>2, <1>3, <1>4, <1>5, <1>6, <1>7 DEF SpillNext

LEMMA AlwaysFileInv == SpillSpec => []FileInv
<1> QED BY InitFileInv, NextFileInv, PTL DEF SpillSpec

\* Every spilled file of a Core that is up has somebody left to delete it,
\* through failed writes, late answers and Cores that ended before, unless the reply
\* that names it was dropped (core/spill.go, lib/core/desktop/rpc_client.dart).
THEOREM NothingLeftHolds == SpillSpec => []NothingLeft
<1>1. FileInv => NothingLeft
  BY DEF FileInv, CallInv, FileAt, NothingLeft
<1> QED BY <1>1, AlwaysFileInv, PTL

\* A spilled file that a reply names, and config.yaml at any time, are whole
\* (core/spill.go, core/profile_base.go).
THEOREM NamedIsWholeHolds == SpillSpec => []NamedIsWhole
<1>1. FileInv => NamedIsWhole
  <2> SUFFICES ASSUME FileInv PROVE NamedIsWhole
    OBVIOUS
  <2>1. ASSUME NEW c \in Calls, wire[c] = "file" \/ host[c] = "reading"
        PROVE  Exists(c) /\ file[c] = "whole"
    BY <2>1 DEF FileInv, CallInv, FileAt, Exists
  <2> QED BY <2>1 DEF NamedIsWhole, FileInv
<1> QED BY <1>1, AlwaysFileInv, PTL
================================================================================
