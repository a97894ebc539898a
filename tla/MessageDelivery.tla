----------------------------- MODULE MessageDelivery -----------------------------
(***************************************************************************)
(* Core event delivery (core/message.go): any goroutine may send an event, *)
(* which goes to one of three bounded channels by its type; one goroutine, *)
(* runMessageBatcher, drains them into batches for the host.  Each channel *)
(* operation of the code is one step here, so senders interleave with each *)
(* other and with the batcher between the tries of enqueueLatest.          *)
(***************************************************************************)
EXTENDS Naturals, Sequences, FiniteSets

CONSTANTS
    Senders,        \* goroutines that call sendMessage
    Types,          \* message types in use, of those ClassOf tells apart
    MaxSends,       \* bound: calls of sendMessage by one goroutine
    QueueSize,      \* messageQueueSize
    BatchSize,      \* messageBatchSize
    PriorityBurst,  \* messagePriorityBurst
    EvictAttempts   \* messageEvictAttempts

ASSUME SizesAssumption ==
    /\ QueueSize \in Nat \ {0} /\ BatchSize \in Nat \ {0}
    /\ PriorityBurst \in Nat \ {0} /\ EvictAttempts \in Nat \ {0}
    /\ MaxSends \in Nat
    /\ Types \subseteq {"loaded", "geoUpdate", "routeChanged", "log", "request",
                        "dns", "requestTraffic", "delay", "dialerLoop"}

VARIABLES
    queue,      \* stateMessageQueue, priorityMessageQueue, bulkMessageQueue
    calls,      \* sendMessage calls made so far, by sender
    tpc,        \* where the call of each sender is
    message,    \* the message of that call
    attempt,    \* the evictions it has tried (enqueueLatest)
    bpc,        \* where the batcher is in its loop
    batch,      \* the batch it is building
    burst,      \* priorityBurst
    listening,  \* hasEventListener
    delivered,  \* history: messages handed to the host, in order
    skipped,    \* history: priority messages taken past a waiting bulk message
    evictions   \* history: who evicted what

senders == <<calls, tpc, message, attempt>>
batcher == <<bpc, batch, burst, skipped>>
vars    == <<queue, senders, batcher, listening, delivered, evictions>>

Queues == {"state", "priority", "bulk"}

\* Faulty variant: DNS lookups evict like every other bulk event.
ClassEvicting(type) ==
    CASE type \in {"loaded", "geoUpdate", "routeChanged"}         -> "state"
      [] type \in {"log", "request", "dns", "requestTraffic"}     -> "bulk"
      [] OTHER                                                    -> "priority"

ClassOf(type) ==
    CASE type \in {"loaded", "geoUpdate", "routeChanged"} -> "state"
      [] type \in {"log", "request"}                      -> "bulk"
      [] type \in {"dns", "requestTraffic"}               -> "yieldingBulk"
      [] OTHER                                            -> "priority"

\* What sendMessage does with each class: its channel, and whether it evicts.
QueueOf(m) == IF ClassOf(m.type) = "yieldingBulk" THEN "bulk" ELSE ClassOf(m.type)
EvictsAll(m) == TRUE           \* faulty variant
Evicts(m)    == ClassOf(m.type) \in {"priority", "bulk"}

Message == [type : Types, from : Senders, number : 1..MaxSends]
NoMessage == <<>>

Init ==
    /\ queue = [q \in Queues |-> <<>>]
    /\ calls = [s \in Senders |-> 0]
    /\ tpc = [s \in Senders |-> "idle"]
    /\ message = [s \in Senders |-> NoMessage]
    /\ attempt = [s \in Senders |-> 0]
    /\ bpc = "state" /\ batch = <<>> /\ burst = 0
    /\ listening = TRUE
    /\ delivered = <<>> /\ skipped = 0 /\ evictions = {}

---------------------------------------------------------------------------
(* Senders *)

\* sendMessage past its listener check; without a listener it returns at once.
Call(s, type) ==
    /\ tpc[s] = "idle" /\ calls[s] < MaxSends
    /\ listening
    /\ calls' = [calls EXCEPT ![s] = @ + 1]
    /\ message' = [message EXCEPT ![s] = [type |-> type, from |-> s, number |-> calls[s] + 1]]
    /\ attempt' = [attempt EXCEPT ![s] = 0]
    /\ tpc' = [tpc EXCEPT ![s] = "send"]
    /\ UNCHANGED <<queue, batcher, listening, delivered, evictions>>

Full(q) == Len(queue[q]) >= QueueSize

Return(s) == /\ tpc' = [tpc EXCEPT ![s] = "idle"]
             /\ message' = [message EXCEPT ![s] = NoMessage]
             /\ UNCHANGED calls

PushFront(q, m) == <<m>> \o queue[q]     \* faulty variant
Push(q, m)      == Append(queue[q], m)

\* The non-blocking send succeeds.
Enqueue(s) ==
    /\ tpc[s] = "send"
    /\ LET q == QueueOf(message[s])
       IN  ~Full(q) /\ queue' = [queue EXCEPT ![q] = Push(q, message[s])]
    /\ Return(s)
    /\ UNCHANGED <<attempt, batcher, listening, delivered, evictions>>

\* enqueueState gives up on a full channel: the new message is dropped.
Drop(s) ==
    /\ tpc[s] = "send" /\ ~Evicts(message[s]) /\ Full(QueueOf(message[s]))
    /\ Return(s)
    /\ UNCHANGED <<queue, attempt, batcher, listening, delivered, evictions>>

\* enqueueLatest turns to the oldest message instead.
FindFull(s) ==
    /\ tpc[s] = "send" /\ Evicts(message[s]) /\ Full(QueueOf(message[s]))
    /\ tpc' = [tpc EXCEPT ![s] = "evict"]
    /\ UNCHANGED <<queue, calls, message, attempt, batcher, listening, delivered, evictions>>

\* The non-blocking receive; the batcher may have emptied the channel by now.
\* After the last attempt the call gives its own message up.
Evict(s) ==
    /\ tpc[s] = "evict"
    /\ LET q == QueueOf(message[s])
       IN  IF queue[q] = <<>> THEN UNCHANGED <<queue, evictions>>
           ELSE /\ queue' = [queue EXCEPT ![q] = Tail(@)]
                /\ evictions' = evictions \cup {[victim |-> Head(queue[q]), by |-> message[s]]}
    /\ attempt' = [attempt EXCEPT ![s] = @ + 1]
    /\ IF attempt[s] + 1 >= EvictAttempts
       THEN Return(s)
       ELSE /\ tpc' = [tpc EXCEPT ![s] = "send"]
            /\ UNCHANGED <<calls, message>>
    /\ UNCHANGED <<batcher, listening, delivered>>

---------------------------------------------------------------------------
(* runMessageBatcher *)

\* flush and sendMessageBatch: deliverEvent drops the batch when nobody listens.
Deliver(messages) == delivered' = IF listening THEN delivered \o messages ELSE delivered

Overfull(n)  == n > BatchSize            \* faulty variant
BatchFull(n) == n >= BatchSize

\* take: a full batch is flushed at once.
Take(q) ==
    /\ queue[q] # <<>>
    /\ queue' = [queue EXCEPT ![q] = Tail(@)]
    /\ LET grown == Append(batch, Head(queue[q]))
       IN  IF BatchFull(Len(grown))
           THEN batch' = <<>> /\ Deliver(grown)
           ELSE batch' = grown /\ UNCHANGED delivered
    /\ UNCHANGED <<senders, listening, evictions>>

Stay == UNCHANGED <<queue, batch, delivered, senders, listening, evictions>>

Passed == skipped' = IF queue["bulk"] = <<>> THEN 0 ELSE skipped + 1

\* State messages are taken first, always.  Then a burst of priority messages
\* owes the bulk channel one look.
PollState ==
    /\ bpc = "state"
    /\ \/ /\ Take("state")
          /\ UNCHANGED <<bpc, burst, skipped>>
       \/ /\ queue["state"] = <<>> /\ burst >= PriorityBurst
          /\ bpc' = "bulk" /\ burst' = 0
          /\ Stay /\ UNCHANGED skipped
       \/ /\ queue["state"] = <<>> /\ burst < PriorityBurst
          /\ bpc' = "priority"
          /\ Stay /\ UNCHANGED <<burst, skipped>>

PollBulk ==
    /\ bpc = "bulk"
    /\ \/ Take("bulk") /\ bpc' = "state"
       \/ queue["bulk"] = <<>> /\ bpc' = "priority" /\ Stay
    /\ skipped' = 0
    /\ UNCHANGED burst

BurstKept  == burst                      \* faulty variant
BurstGrown == burst + 1

PollPriority ==
    /\ bpc = "priority"
    /\ \/ /\ Take("priority")
          /\ bpc' = "state" /\ burst' = BurstGrown
          /\ Passed
       \/ /\ queue["priority"] = <<>> /\ bpc' = "select"
          /\ Stay /\ UNCHANGED <<burst, skipped>>

NoTimer == FALSE                         \* faulty variant
Timer   == batch # <<>>

\* The blocking select picks any channel that is ready by then, or the timer,
\* which runs while the batch holds a message.
Select ==
    /\ bpc = "select"
    /\ bpc' = "state"
    /\ \/ Take("state") /\ UNCHANGED <<burst, skipped>>
       \/ Take("priority") /\ burst' = BurstGrown /\ Passed
       \/ Take("bulk") /\ burst' = 0 /\ skipped' = 0
       \/ /\ Timer
          /\ batch' = <<>> /\ Deliver(batch)
          /\ UNCHANGED <<queue, burst, skipped, senders, listening, evictions>>

---------------------------------------------------------------------------
\* SetEventListener (core/lib.go): Flutter's engine detaches or comes back.
Listen ==
    /\ listening' = ~listening
    /\ UNCHANGED <<queue, senders, batcher, delivered, evictions>>

Batcher == PollState \/ PollBulk \/ PollPriority \/ Select
Sender(s) == Enqueue(s) \/ Drop(s) \/ FindFull(s) \/ Evict(s)

Next ==
    \/ \E s \in Senders : Sender(s) \/ \E type \in Types : Call(s, type)
    \/ Batcher
    \/ Listen

\* The scheduler runs every goroutine that can run, and timers fire.
Fairness == WF_vars(Batcher) /\ \A s \in Senders : WF_vars(Sender(s))

Spec     == Init /\ [][Next]_vars
FairSpec == Spec /\ Fairness

---------------------------------------------------------------------------
\* The fields have the values their declarations allow; in particular a full
\* batch never waits.
TypeOK ==
    /\ queue \in [Queues -> Seq(Message)]
    /\ calls \in [Senders -> 0..MaxSends]
    /\ tpc \in [Senders -> {"idle", "send", "evict"}]
    /\ message \in [Senders -> Message \cup {NoMessage}]
    /\ \A s \in Senders : tpc[s] # "idle" => message[s] \in Message
    /\ attempt \in [Senders -> 0..EvictAttempts]
    /\ bpc \in {"state", "bulk", "priority", "select"}
    /\ batch \in Seq(Message) /\ Len(batch) < BatchSize
    /\ burst \in Nat /\ skipped \in Nat
    /\ listening \in BOOLEAN
    /\ delivered \in Seq(Message)
    /\ evictions \subseteq [victim : Message, by : Message]

\* "One bulk opportunity is guaranteed after eight priority messages"
\* (.agents/architecture.md:370): a waiting bulk message is passed over by at
\* most a burst of them.
BulkOpportunity == skipped <= PriorityBurst

\* "Bulk floods cannot evict state", "a full priority or bulk queue evicts only
\* its own oldest event" and "DNS events never evict" (architecture.md:366).
EvictsOwnQueue ==
    \A e \in evictions : /\ e.by.type \notin {"dns", "requestTraffic"}
                         /\ e.victim.type \notin {"loaded", "geoUpdate", "routeChanged"}
                         /\ QueueOf(e.by) = QueueOf(e.victim)

InTransit == delivered \o batch
Same(m, n) == m.from = n.from /\ QueueOf(m) = QueueOf(n)

\* What one goroutine sent through one channel reaches the host in the order
\* it was sent, and once, however the channels are drained.
InOrder ==
    \A q \in Queues :
        LET line == InTransit \o queue[q]
        IN  \A i, j \in DOMAIN line :
                i < j /\ Same(line[i], line[j]) => line[i].number < line[j].number

Everywhere == {InTransit[i] : i \in DOMAIN InTransit}
              \cup UNION {{queue[q][i] : i \in DOMAIN queue[q]} : q \in Queues}

\* A state message that was queued is never lost on its way: it is delivered
\* or still on its way, unless nobody was listening when it was.
StateKept ==
    [][\A m \in Message :
         /\ m \in Everywhere /\ ClassOf(m.type) = "state"
         /\ listening
         => m \in Everywhere']_vars

\* The newest event is retried after an eviction (architecture.md:368): a call
\* never throws an event out only to give up its own as well.
EvictionIsRetried ==
    [][\A s \in Senders : tpc[s] = "evict" /\ tpc'[s] = "idle" => UNCHANGED queue]_vars

\* Whatever was queued leaves the channels and the batch: no event waits for
\* ever behind the others (the 16 ms timer, the burst limit).
Drains == <>[](\A q \in Queues : queue[q] = <<>>) /\ <>[](batch = <<>>)
=============================================================================
