--------------------------- MODULE FrameStreamProofs ---------------------------
(***************************************************************************)
(* Proofs about FrameStream: for any number of goroutines and any size of  *)
(* frames the host reads a framed stream, the Core gives the connection up *)
(* for a frame cut short and for nothing else, and a run of failures is    *)
(* logged once.                                                            *)
(***************************************************************************)
EXTENDS FrameStream, TLAPS

Inside == {"take", "write", "close"}

\* The fields the stream depends on have their types, writeMu its holder.
StreamType ==
    /\ pc \in [Senders -> {"idle", "lock", "take", "write", "close"}]
    /\ sends \in [Senders -> 0..MaxSends]
    /\ \A s \in Senders : pc[s] # "idle" => sends[s] > 0
    /\ written \in [Senders -> 0..FrameSize]
    /\ writeMu \in Senders \cup {None}
    /\ \A s \in Senders : pc[s] \in Inside <=> writeMu = s
    /\ conn \in BOOLEAN /\ open \in BOOLEAN /\ serving \in BOOLEAN
    /\ wire \in Seq(Unit)

\* Who holds the connection: a goroutine that writes while it is open or served,
\* nobody once it is to be closed.
LinkInv ==
    /\ open \/ serving => \A s \in Senders : pc[s] = "write" => conn
    /\ \A s \in Senders : pc[s] = "close" => ~conn

Whole == wire # <<>> => wire[Len(wire)].index = FrameSize

\* Where the stream ends: in the middle of the frame being written, or at the
\* end of one.
TailInv ==
    /\ \A s \in Senders :
         pc[s] = "write" /\ conn =>
           /\ written[s] < FrameSize
           /\ written[s] = 0 => Whole
           /\ written[s] > 0 => /\ wire # <<>>
                                /\ wire[Len(wire)] = [frame |-> Mine(s), index |-> written[s]]
    /\ \A s \in Senders : pc[s] # "write" => written[s] = 0 \/ pc[s] = "close"
    /\ conn /\ (\A s \in Senders : pc[s] # "write") => Whole

ChainInv ==
    /\ wire # <<>> => wire[1].index = 1
    /\ \A i \in 1..(Len(wire) - 1) : Follows(wire[i], wire[i + 1])

StreamInv == StreamType /\ LinkInv /\ TailInv /\ ChainInv

LEMMA InitStreamInv == Init => StreamInv
<1> SUFFICES ASSUME Init PROVE StreamInv
  OBVIOUS
<1>1. StreamType
  BY FrameAssumption DEF Init, StreamType, Inside
<1>2. LinkInv
  BY DEF Init, LinkInv
<1>3. TailInv
  BY DEF Init, TailInv, Whole
<1>4. ChainInv
  BY DEF Init, ChainInv
<1> QED BY <1>1, <1>2, <1>3, <1>4 DEF StreamInv

---------------------------------------------------------------------------
\* Units taken go on with the frame at the end of the wire.
LEMMA TakenKeeps ==
    ASSUME StreamInv, NEW s \in Senders, pc[s] = "write", conn,
           NEW n \in 0..(FrameSize - written[s]), Taken(s, n)
    PROVE  /\ ChainInv'
           /\ wire' \in Seq(Unit)
           /\ n = 0 => wire' = wire
           /\ n > 0 => /\ wire' # <<>>
                       /\ wire'[Len(wire')] = [frame |-> Mine(s), index |-> written[s] + n]
<1> DEFINE L == Len(wire)
<1>1. wire' = wire \o [i \in 1..n |-> [frame |-> Mine(s), index |-> written[s] + i]]
  BY DEF Taken
<1>2. sends[s] \in 1..MaxSends /\ written[s] \in 0..FrameSize
  <2>1. sends \in [Senders -> 0..MaxSends] /\ written \in [Senders -> 0..FrameSize]
    BY DEF StreamInv, StreamType
  <2>2. sends[s] > 0
    BY DEF StreamInv, StreamType
  <2> QED BY <2>1, <2>2, FrameAssumption
<1>3. written[s] < FrameSize /\ n \in Nat /\ written[s] + n =< FrameSize
  <2>1. written[s] < FrameSize
    BY DEF StreamInv, TailInv
  <2>2. written[s] \in Nat /\ FrameSize \in Nat
    BY <1>2, FrameAssumption
  <2> QED BY <2>1, <2>2
<1>4. Mine(s) \in Frame
  BY <1>2 DEF Mine, Frame
<1> DEFINE more == [i \in 1..n |-> [frame |-> Mine(s), index |-> written[s] + i]]
<1>5. more \in Seq(Unit) /\ Len(more) = n
  <2>1. \A i \in 1..n : [frame |-> Mine(s), index |-> written[s] + i] \in Unit
    BY <1>2, <1>3, <1>4, FrameAssumption DEF Unit
  <2>2. more \in [1..n -> Unit]
    BY <2>1
  <2> QED BY <2>2, <1>3
<1>6. wire \in Seq(Unit) /\ L \in Nat
  BY DEF StreamInv, StreamType
<1>7. /\ wire' \in Seq(Unit) /\ Len(wire') = L + n
      /\ \A i \in 1..L : wire'[i] = wire[i]
      /\ \A i \in 1..n : wire'[L + i] = [frame |-> Mine(s), index |-> written[s] + i]
  BY <1>1, <1>3, <1>5, <1>6
<1>8. n > 0 => wire' # <<>> /\ wire'[Len(wire')] = [frame |-> Mine(s), index |-> written[s] + n]
  BY <1>3, <1>6, <1>7
<1>10. n = 0 => wire' = wire
  <2> SUFFICES ASSUME n = 0 PROVE wire' = wire
    OBVIOUS
  <2>1. Len(wire') = Len(wire) /\ \A i \in 1..L : wire'[i] = wire[i]
    BY <1>6, <1>7
  <2> QED BY <2>1, <1>6, <1>7
<1>9. ASSUME n > 0 PROVE ChainInv'
  <2>1. wire'[1].index = 1
    <3>1. CASE L = 0
      <4>1. wire = <<>> /\ written[s] = 0
        BY <3>1, <1>2, <1>6, FrameAssumption DEF StreamInv, TailInv
      <4>2. wire'[1] = [frame |-> Mine(s), index |-> 0 + 1]
        BY <1>7, <1>9, <1>3, <3>1, <4>1
      <4> QED BY <4>2
    <3>2. CASE L > 0
      <4>1. wire[1].index = 1 /\ wire'[1] = wire[1]
        BY <3>2, <1>6, <1>7 DEF StreamInv, ChainInv
      <4> QED BY <4>1
    <3> QED BY <3>1, <3>2, <1>6
  <2>2. ASSUME NEW i \in 1..(Len(wire') - 1) PROVE Follows(wire'[i], wire'[i + 1])
    <3>1. CASE i < L
      <4>1. wire'[i] = wire[i] /\ wire'[i + 1] = wire[i + 1] /\ i \in 1..(L - 1)
        BY <3>1, <1>6, <1>7
      <4> QED BY <4>1 DEF StreamInv, ChainInv
    <3>2. CASE i = L
      <4>1. L > 0 /\ wire'[i] = wire[L] /\ wire # <<>>
        BY <3>2, <1>6, <1>7
      <4>2. wire'[i + 1] = [frame |-> Mine(s), index |-> written[s] + 1]
        BY <3>2, <1>3, <1>7, <1>9
      <4>3. CASE written[s] = 0
        <5>1. wire[L].index = FrameSize
          BY <4>1, <4>3 DEF StreamInv, TailInv, Whole
        <5> QED BY <4>1, <4>2, <4>3, <5>1, FrameAssumption DEF Follows
      <4>4. CASE written[s] > 0
        <5>1. wire[L] = [frame |-> Mine(s), index |-> written[s]]
          BY <4>4 DEF StreamInv, TailInv
        <5> QED BY <4>1, <4>2, <5>1, <1>3 DEF Follows
      <4> QED BY <4>3, <4>4, <1>2
    <3>3. CASE i > L
      <4>1. PICK j \in 1..n : i = L + j /\ j + 1 \in 1..n
        <5>1. i - L \in 1..n /\ (i - L) + 1 \in 1..n /\ i = L + (i - L)
          BY <3>3, <1>3, <1>6, <1>7
        <5> QED BY <5>1
      <4>2. /\ wire'[i] = [frame |-> Mine(s), index |-> written[s] + j]
            /\ wire'[i + 1] = [frame |-> Mine(s), index |-> (written[s] + j) + 1]
        <5>1. j \in Nat /\ L \in Nat /\ written[s] \in Nat
          BY <1>2, <1>3, <1>6, FrameAssumption
        <5>2. i + 1 = L + (j + 1) /\ written[s] + (j + 1) = (written[s] + j) + 1
          BY <4>1, <5>1
        <5> QED BY <4>1, <5>2, <1>7
      <4>3. written[s] + j < FrameSize
        <5>1. j \in Nat /\ j < n
          BY <4>1, <1>3
        <5>2. written[s] \in Nat /\ FrameSize \in Nat
          BY <1>2, FrameAssumption
        <5> QED BY <5>1, <5>2, <1>3
      <4> QED BY <4>2, <4>3 DEF Follows
    <3> QED BY <3>1, <3>2, <3>3, <1>6, <1>7
  <2> QED BY <2>1, <2>2 DEF ChainInv
<1>11. n = 0 => ChainInv'
  BY <1>10 DEF StreamInv, ChainInv
<1> QED BY <1>3, <1>7, <1>8, <1>9, <1>10, <1>11

---------------------------------------------------------------------------
\* The other steps leave the wire alone.
LEMMA SameWire == ASSUME ChainInv, UNCHANGED wire PROVE ChainInv'
BY DEF ChainInv

\* The deferred unlock leaves writeMu to the others.
LEMMA ReturnKeeps ==
    ASSUME StreamType, NEW s \in Senders, writeMu = s, Return(s),
           conn' \in BOOLEAN, open' \in BOOLEAN, UNCHANGED serving, wire' \in Seq(Unit)
    PROVE  StreamType'
<1>1. /\ pc' = [pc EXCEPT ![s] = "idle"] /\ written' = [written EXCEPT ![s] = 0]
      /\ writeMu' = None /\ sends' = sends
  BY DEF Return, Goto
<1>2. /\ pc' \in [Senders -> {"idle", "lock", "take", "write", "close"}]
      /\ \A t \in Senders : pc'[t] = IF t = s THEN "idle" ELSE pc[t]
  BY <1>1 DEF StreamType
<1>3. written' \in [Senders -> 0..FrameSize]
  BY <1>1, FrameAssumption DEF StreamType
<1>4. \A t \in Senders : pc'[t] \in Inside <=> writeMu' = t
  BY <1>1, <1>2, FrameAssumption DEF StreamType, Inside
<1>5. \A t \in Senders : pc'[t] # "idle" => sends'[t] > 0
  BY <1>1, <1>2 DEF StreamType
<1>6. sends' \in [Senders -> 0..MaxSends] /\ writeMu' \in Senders \cup {None}
  BY <1>1 DEF StreamType
<1>7. wire' \in Seq(Unit) /\ serving' \in BOOLEAN
  BY DEF StreamType
<1> QED BY <1>2, <1>3, <1>4, <1>5, <1>6, <1>7 DEF StreamType

\* A write that goes on, without an error or past a deadline.
LEMMA WriteOnKeeps ==
    ASSUME StreamInv, NEW s \in Senders, pc[s] = "write", conn,
           NEW n \in 0..(FrameSize - written[s]), Taken(s, n),
           written[s] + n < FrameSize, WriteOn(s, n), UNCHANGED <<open, serving>>
    PROVE  StreamInv'
<1>1. /\ written' = [written EXCEPT ![s] = written[s] + n]
      /\ UNCHANGED <<pc, sends, writeMu, conn, open, serving>>
  BY DEF WriteOn
<1>2. /\ ChainInv' /\ wire' \in Seq(Unit) /\ (n = 0 => wire' = wire)
      /\ n > 0 => /\ wire' # <<>>
                  /\ wire'[Len(wire')] = [frame |-> Mine(s), index |-> written[s] + n]
  BY TakenKeeps
<1>3. written \in [Senders -> 0..FrameSize] /\ written[s] \in Nat /\ n \in Nat /\ FrameSize \in Nat
  BY FrameAssumption DEF StreamInv, StreamType
<1>4. StreamType'
  <2>1. written' \in [Senders -> 0..FrameSize]
    BY <1>1, <1>3
  <2> QED BY <1>1, <1>2, <2>1 DEF StreamInv, StreamType
<1>5. LinkInv'
  BY <1>1 DEF StreamInv, LinkInv
<1>6. \A t \in Senders : pc[t] = "write" => t = s
  BY FrameAssumption DEF StreamInv, StreamType, Inside
<1>7. written'[s] = written[s] + n /\ Mine(s)' = Mine(s)
  BY <1>1, <1>3 DEF Mine
<1>8. \A t \in Senders : t # s => written'[t] = written[t]
  BY <1>1, <1>3
<1>9. TailInv'
  <2>1. CASE n = 0
    <3>1. wire' = wire /\ written'[s] = written[s]
      BY <2>1, <1>2, <1>3, <1>7
    <3> QED BY <3>1, <1>1, <1>7, <1>8, <1>6 DEF StreamInv, TailInv, Whole
  <2>2. CASE n > 0
    <3>1. written'[s] < FrameSize /\ written'[s] > 0
      BY <2>2, <1>3, <1>7
    <3>2. wire' # <<>> /\ wire'[Len(wire')] = [frame |-> Mine(s)', index |-> written'[s]]
      BY <2>2, <1>2, <1>7
    <3> QED BY <1>1, <1>6, <1>8, <3>1, <3>2 DEF StreamInv, TailInv
  <2> QED BY <2>1, <2>2, <1>3
<1> QED BY <1>2, <1>4, <1>5, <1>9 DEF StreamInv

\* The last units end the frame.
LEMMA WriteEndKeeps ==
    ASSUME StreamInv, NEW s \in Senders, pc[s] = "write", conn,
           NEW n \in 1..(FrameSize - written[s]), Taken(s, n),
           written[s] + n = FrameSize, Return(s), UNCHANGED link
    PROVE  StreamInv'
<1>1. /\ pc' = [pc EXCEPT ![s] = "idle"] /\ written' = [written EXCEPT ![s] = 0]
      /\ writeMu' = None /\ UNCHANGED <<sends, conn, open, serving>>
  BY DEF Return, Goto, link
<1>2. n \in 0..(FrameSize - written[s]) /\ n > 0
  BY FrameAssumption DEF StreamInv, StreamType
<1>3. /\ ChainInv' /\ wire' \in Seq(Unit)
      /\ wire' # <<>> /\ wire'[Len(wire')] = [frame |-> Mine(s), index |-> written[s] + n]
  BY <1>2, TakenKeeps
<1>4. writeMu = s /\ conn' \in BOOLEAN /\ open' \in BOOLEAN
  BY <1>1 DEF StreamInv, StreamType, Inside
<1>5. StreamType'
  BY <1>1, <1>3, <1>4, ReturnKeeps DEF StreamInv
<1>6. LinkInv'
  BY <1>1 DEF StreamInv, StreamType, LinkInv
<1>7. Whole'
  BY <1>3 DEF Whole
<1>8. TailInv'
  BY <1>1, <1>4, <1>7 DEF StreamInv, StreamType, TailInv, Inside
<1> QED BY <1>3, <1>5, <1>6, <1>8 DEF StreamInv

\* Nothing of the frame is on the wire: it is dropped.
LEMMA DropKeeps ==
    ASSUME StreamInv, NEW s \in Senders, pc[s] = "write", written[s] = 0,
           Drop(s), UNCHANGED <<open, serving, wire>>
    PROVE  StreamInv'
<1>1. /\ pc' = [pc EXCEPT ![s] = "idle"] /\ written' = [written EXCEPT ![s] = 0]
      /\ writeMu' = None /\ UNCHANGED <<sends, conn, open, serving>>
  BY DEF Drop, Return, Goto
<1>2. writeMu = s /\ conn' \in BOOLEAN /\ open' \in BOOLEAN /\ wire' \in Seq(Unit)
  BY <1>1 DEF StreamInv, StreamType, Inside
<1>3. StreamType'
  BY <1>1, <1>2, ReturnKeeps DEF StreamInv, Drop
<1>4. LinkInv'
  BY <1>1 DEF StreamInv, StreamType, LinkInv
<1>5. conn => Whole
  BY DEF StreamInv, TailInv
<1>6. TailInv'
  BY <1>1, <1>2, <1>5 DEF StreamInv, StreamType, TailInv, Inside, Whole
<1> QED BY <1>3, <1>4, <1>6, SameWire DEF StreamInv

\* A frame that fails half-way takes the connection with it.
LEMMA FailKeeps ==
    ASSUME StreamInv, NEW s \in Senders, pc[s] = "write",
           NEW n \in 0..(FrameSize - written[s]), Fail(s, n),
           ChainInv', wire' \in Seq(Unit), UNCHANGED <<open, serving>>
    PROVE  StreamInv'
<1>1. /\ pc' = [pc EXCEPT ![s] = "close"] /\ conn' = FALSE
      /\ written' = [written EXCEPT ![s] = written[s] + n]
      /\ UNCHANGED <<sends, writeMu, open, serving>>
  BY DEF Fail, Goto
<1>2. written' \in [Senders -> 0..FrameSize]
  <2>1. written \in [Senders -> 0..FrameSize] /\ FrameSize \in Nat
    BY FrameAssumption DEF StreamInv, StreamType
  <2>2. written[s] + n \in 0..FrameSize
    BY <2>1
  <2> QED BY <1>1, <2>1, <2>2
<1>3. \A t \in Senders : t # s => pc[t] # "write"
  BY FrameAssumption DEF StreamInv, StreamType, Inside
<1>4. StreamType'
  BY <1>1, <1>2 DEF StreamInv, StreamType, Inside
<1>5. LinkInv'
  BY <1>1, <1>3 DEF StreamInv, StreamType, LinkInv
<1>6. TailInv'
  <2>1. written \in [Senders -> 0..FrameSize] /\ pc \in [Senders -> {"idle", "lock", "take", "write", "close"}]
    BY DEF StreamInv, StreamType
  <2>2. ASSUME NEW t \in Senders PROVE pc'[t] # "write" /\ (written'[t] = 0 \/ pc'[t] = "close")
    BY <1>1, <1>3, <2>1 DEF StreamInv, TailInv
  <2> QED BY <1>1, <2>2 DEF TailInv
<1> QED BY <1>4, <1>5, <1>6 DEF StreamInv

\* What the socket's answer leaves of the stream: the connection is there when it
\* takes anything.
LEMMA CutKeeps ==
    ASSUME StreamInv, NEW s \in Senders, pc[s] = "write",
           NEW n \in 0..(FrameSize - written[s]), Taken(s, n), n > 0 => open
    PROVE  ChainInv' /\ wire' \in Seq(Unit) /\ (n = 0 => wire' = wire)
<1>1. CASE conn
  BY <1>1, TakenKeeps
<1>2. CASE ~conn
  <2>1. ~open
    BY <1>2 DEF StreamInv, LinkInv
  <2>2. n = 0
    BY <2>1, FrameAssumption DEF StreamInv, StreamType
  <2>3. wire' = wire
    <3>1. wire' = wire \o [i \in 1..0 |-> [frame |-> Mine(s), index |-> written[s] + i]]
      BY <2>2 DEF Taken
    <3>2. [i \in 1..0 |-> [frame |-> Mine(s), index |-> written[s] + i]] = <<>>
      OBVIOUS
    <3>3. wire \in Seq(Unit)
      BY DEF StreamInv, StreamType
    <3> QED BY <3>1, <3>2, <3>3
  <2> QED BY <2>3, SameWire DEF StreamInv, StreamType
<1> QED BY <1>1, <1>2

LEMMA NextStreamInv == StreamInv /\ [Next]_vars => StreamInv'
<1> SUFFICES ASSUME StreamInv, [Next]_vars PROVE StreamInv'
  OBVIOUS
<1> USE DEF StreamInv
<1>1. ASSUME NEW s \in Senders, Send(s) PROVE StreamInv'
  <2>1. StreamType'
    BY <1>1, FrameAssumption DEF Send, Goto, StreamType, Inside, link
  <2>2. LinkInv'
    BY <1>1 DEF Send, Goto, StreamType, LinkInv, link
  <2>3. TailInv'
    BY <1>1 DEF Send, Goto, StreamType, TailInv, Whole, Mine, link
  <2> QED BY <1>1, <2>1, <2>2, <2>3, SameWire DEF Send
<1>2. ASSUME NEW s \in Senders, Lock(s) PROVE StreamInv'
  <2>1. StreamType'
    BY <1>2, FrameAssumption DEF Lock, MyTurn, Goto, StreamType, Inside, link
  <2>2. LinkInv'
    BY <1>2 DEF Lock, Goto, StreamType, LinkInv, link
  <2>3. TailInv'
    BY <1>2 DEF Lock, Goto, StreamType, TailInv, Whole, Mine, link
  <2> QED BY <1>2, <2>1, <2>2, <2>3, SameWire DEF Lock
<1>3. ASSUME NEW s \in Senders, Take(s) PROVE StreamInv'
  <2>1. StreamType'
    <3>1. pc[s] = "take" /\ writeMu = s /\ UNCHANGED <<conn, open, serving, wire, sends>>
      BY <1>3 DEF Take, Return, StreamType, Inside, link
    <3>2. \/ Goto(s, "write") /\ UNCHANGED <<written, writeMu>>
          \/ Return(s)
      BY <1>3 DEF Take
    <3>3. CASE Goto(s, "write") /\ UNCHANGED <<written, writeMu>>
      <4>1. /\ pc' \in [Senders -> {"idle", "lock", "take", "write", "close"}]
            /\ \A t \in Senders : pc'[t] = IF t = s THEN "write" ELSE pc[t]
        BY <3>3 DEF Goto, StreamType
      <4>2. \A t \in Senders : pc'[t] \in Inside <=> writeMu' = t
        BY <3>1, <3>3, <4>1 DEF StreamType, Inside
      <4>3. \A t \in Senders : pc'[t] # "idle" => sends'[t] > 0
        BY <3>1, <4>1 DEF StreamType
      <4>4. /\ sends' \in [Senders -> 0..MaxSends] /\ written' \in [Senders -> 0..FrameSize]
            /\ writeMu' \in Senders \cup {None} /\ wire' \in Seq(Unit)
        BY <3>1, <3>3 DEF StreamType
      <4>5. conn' \in BOOLEAN /\ open' \in BOOLEAN /\ serving' \in BOOLEAN
        BY <3>1 DEF StreamType
      <4> QED BY <4>1, <4>2, <4>3, <4>4, <4>5 DEF StreamType
    <3>4. CASE Return(s)
      <4>1. conn' \in BOOLEAN /\ open' \in BOOLEAN
        BY <3>1 DEF StreamType
      <4>2. UNCHANGED serving /\ wire' \in Seq(Unit)
        BY <3>1 DEF StreamType
      <4> QED BY <3>1, <3>4, <4>1, <4>2, ReturnKeeps
    <3> QED BY <3>2, <3>3, <3>4
  <2>2. LinkInv'
    BY <1>3 DEF Take, Return, Goto, StreamType, LinkInv, link
  <2>3. TailInv'
    <3>1. \A t \in Senders : pc[t] # "write" /\ written[s] = 0
      BY <1>3 DEF Take, StreamType, TailInv, Inside
    <3> QED BY <1>3, <3>1, FrameAssumption DEF Take, Return, Goto, StreamType, TailInv, Whole, Mine, link
  <2> QED BY <1>3, <2>1, <2>2, <2>3, SameWire DEF Take
<1>4. ASSUME NEW s \in Senders, Write(s) PROVE StreamInv'
  <2>1. PICK n \in 1..(FrameSize - written[s]) :
          /\ Taken(s, n)
          /\ \/ written[s] + n < FrameSize /\ WriteOn(s, n)
             \/ written[s] + n = FrameSize /\ Return(s) /\ UNCHANGED conn
    BY <1>4 DEF Write
  <2>2. pc[s] = "write" /\ open /\ UNCHANGED <<open, serving>>
    BY <1>4 DEF Write
  <2>3. conn
    BY <2>2 DEF LinkInv
  <2>4. n \in 0..(FrameSize - written[s])
    BY FrameAssumption DEF StreamType
  <2>5. CASE written[s] + n < FrameSize /\ WriteOn(s, n)
    BY <2>1, <2>2, <2>3, <2>4, <2>5, WriteOnKeeps
  <2>6. CASE written[s] + n = FrameSize /\ Return(s) /\ UNCHANGED conn
    BY <2>1, <2>2, <2>3, <2>6, WriteEndKeeps DEF link
  <2> QED BY <2>1, <2>5, <2>6
<1>5. ASSUME NEW s \in Senders, Cut(s) PROVE StreamInv'
  <2>1. PICK n \in 0..(FrameSize - written[s]), a \in Failures :
          /\ n > 0 => open
          /\ a # "error" => open
          /\ a = "timeout" => written[s] + n < FrameSize
          /\ Taken(s, n)
          /\ \/ Droppable(s, n) /\ Drop(s)
             \/ Resumed(a) /\ WriteOn(s, n)
             \/ Fail(s, n)
    BY <1>5 DEF Cut
  <2>2. pc[s] = "write" /\ UNCHANGED <<open, serving>>
    BY <1>5 DEF Cut
  <2>3. ChainInv' /\ wire' \in Seq(Unit) /\ (n = 0 => wire' = wire)
    BY <2>1, <2>2, CutKeeps
  <2>4. CASE Droppable(s, n) /\ Drop(s)
    <3>1. n = 0 /\ written[s] = 0
      BY <2>4, FrameAssumption DEF Droppable, StreamType
    <3> QED BY <2>2, <2>3, <2>4, <3>1, DropKeeps
  <2>5. CASE Resumed(a) /\ WriteOn(s, n)
    <3>1. a = "timeout" /\ open /\ conn
      BY <2>1, <2>2, <2>5 DEF Resumed, LinkInv
    <3> QED BY <2>1, <2>2, <2>5, <3>1, WriteOnKeeps
  <2>6. CASE Fail(s, n)
    BY <2>2, <2>3, <2>6, FailKeeps
  <2> QED BY <2>1, <2>4, <2>5, <2>6
<1>7. ASSUME NEW s \in Senders, Close(s) PROVE StreamInv'
  <2>1. StreamType'
    <3>1. writeMu = s /\ open' = FALSE /\ UNCHANGED <<conn, serving, wire>>
      BY <1>7 DEF Close, CloseConn, StreamType, Inside
    <3> QED BY <1>7, <3>1, ReturnKeeps DEF Close, StreamType
  <2>2. LinkInv'
    BY <1>7 DEF Close, CloseConn, Return, Goto, StreamType, LinkInv
  <2>3. TailInv'
    <3>1. ~conn
      BY <1>7 DEF Close, LinkInv
    <3> QED BY <1>7, <3>1 DEF Close, Return, Goto, StreamType, TailInv
  <2> QED BY <1>7, <2>1, <2>2, <2>3, SameWire DEF Close
<1>8. CASE Serve
  <2>1. StreamType'
    BY <1>8 DEF Serve, StreamType, Inside, locals
  <2>2. LinkInv'
    BY <1>8 DEF Serve, LinkInv, locals
  <2>3. TailInv'
    BY <1>8 DEF Serve, TailInv, locals
  <2> QED BY <1>8, <2>1, <2>2, <2>3, SameWire DEF Serve
<1>9. CASE Host
  <2>1. StreamType'
    BY <1>9 DEF Host, StreamType, Inside, locals, link
  <2>2. LinkInv'
    BY <1>9 DEF Host, LinkInv, locals, link
  <2>3. TailInv'
    BY <1>9 DEF Host, TailInv, Whole, Mine, locals, link
  <2> QED BY <1>9, <2>1, <2>2, <2>3, SameWire DEF Host
<1>10. CASE UNCHANGED vars
  BY <1>10 DEF vars, locals, link, StreamType, LinkInv, TailInv, ChainInv, Whole, Mine, Inside
<1> QED BY <1>1, <1>2, <1>3, <1>4, <1>5, <1>7, <1>8, <1>9, <1>10 DEF Next, Step

LEMMA AlwaysStreamInv == Spec => []StreamInv
<1> QED BY InitStreamInv, NextStreamInv, PTL DEF Spec

---------------------------------------------------------------------------
\* The host reads whole frames one after the other, whichever goroutines write
\* and however their writes are cut up (send, writeFrame, resumingWriter).
THEOREM FramedHolds == Spec => []Framed
<1>1. StreamInv => Framed
  <2> SUFFICES ASSUME StreamInv PROVE Framed
    OBVIOUS
  <2>1. ASSUME wire # <<>>, wire[Len(wire)].index < FrameSize, conn
        PROVE  writeMu # None /\ Mine(writeMu) = wire[Len(wire)].frame
    <3>1. wire[Len(wire)].index # FrameSize
      BY <2>1, FrameAssumption
    <3>2. ~Whole
      BY <2>1, <3>1 DEF Whole
    <3>3. PICK s \in Senders : pc[s] = "write"
      BY <2>1, <3>2 DEF StreamInv, TailInv
    <3>4. written[s] \in Nat /\ written[s] # 0
      <4>1. written[s] \in Nat
        BY FrameAssumption DEF StreamInv, StreamType
      <4>2. written[s] # 0
        BY <2>1, <3>2, <3>3 DEF StreamInv, TailInv
      <4> QED BY <4>1, <4>2
    <3>5. wire[Len(wire)] = [frame |-> Mine(s), index |-> written[s]]
      BY <2>1, <3>3, <3>4 DEF StreamInv, TailInv
    <3>6. writeMu = s
      BY <3>3 DEF StreamInv, StreamType, Inside
    <3> QED BY <3>5, <3>6, FrameAssumption
  <2> QED BY <2>1 DEF StreamInv, ChainInv, Framed
<1> QED BY <1>1, AlwaysStreamInv, PTL

\* The Core that listens has given the connection up only with a lost frame cut
\* short at the end of the wire: no order of stalls, dropped frames, deadlines
\* that cannot be set and read loops that end makes it let go for less (send,
\* resume, serve).
THEOREM KeepsConnectionHolds == Spec => []KeepsConnection
<1>1. Init => KeepsConnection
  BY DEF Init, KeepsConnection
<1>2. StreamInv /\ KeepsConnection /\ [Next]_vars => KeepsConnection'
  <2> SUFFICES ASSUME StreamInv, KeepsConnection, [Next]_vars PROVE KeepsConnection'
    OBVIOUS
  <2> USE DEF StreamInv
  <2>1. ASSUME NEW s \in Senders, Send(s) \/ Lock(s) \/ Close(s) PROVE KeepsConnection'
    BY <2>1 DEF Send, Lock, Close, link, KeepsConnection
  <2>2. ASSUME NEW s \in Senders, Take(s) PROVE KeepsConnection'
    BY <2>2 DEF Take, GiveUp, link, KeepsConnection
  <2>3. ASSUME NEW s \in Senders, Write(s) PROVE KeepsConnection'
    <3>1. conn /\ conn' = conn
      BY <2>3 DEF Write, WriteOn, LinkInv
    <3> QED BY <3>1 DEF KeepsConnection
  <2>4. ASSUME NEW s \in Senders, Cut(s), serving PROVE KeepsConnection'
    <3>1. PICK n \in 0..(FrameSize - written[s]), a \in Failures :
            /\ a = "timeout" => written[s] + n < FrameSize
            /\ Taken(s, n)
            /\ cut' = IF a # "timeout" /\ written[s] + n > 0 THEN cut \cup {Mine(s)} ELSE cut
            /\ \/ Droppable(s, n) /\ Drop(s)
               \/ Resumed(a) /\ WriteOn(s, n)
               \/ ~Droppable(s, n) /\ ~Resumed(a) /\ Fail(s, n)
      BY <2>4 DEF Cut
    <3>2. pc[s] = "write" /\ conn
      BY <2>4 DEF Cut, LinkInv
    <3>3. CASE conn' = conn
      BY <3>2, <3>3 DEF KeepsConnection
    <3>4. CASE ~Droppable(s, n) /\ ~Resumed(a) /\ Fail(s, n)
      <4>1. written[s] \in Nat /\ n \in Nat /\ written[s] + n > 0
        <5>1. written[s] \in Nat /\ n \in Nat
          BY FrameAssumption DEF StreamType
        <5> QED BY <5>1, <3>4 DEF Droppable
      <4>2. Mine(s) \in cut' /\ Mine(s) \in lost'
        BY <3>1, <3>4, <4>1 DEF Resumed, Fail, GiveUp
      <4>3. /\ n = 0 => wire' = wire
            /\ n > 0 => /\ wire' # <<>>
                        /\ wire'[Len(wire')] = [frame |-> Mine(s), index |-> written[s] + n]
        BY <3>1, <3>2, TakenKeeps
      <4>4. wire' # <<>> /\ wire'[Len(wire')].frame = Mine(s)
        <5>1. CASE n > 0
          BY <4>3, <5>1
        <5>2. CASE n = 0
          <6>1. wire # <<>> /\ wire[Len(wire)] = [frame |-> Mine(s), index |-> written[s]]
            BY <5>2, <4>1, <3>2 DEF TailInv
          <6> QED BY <6>1, <5>2, <4>3
        <5> QED BY <4>1, <5>1, <5>2
      <4> QED BY <4>2, <4>4 DEF KeepsConnection
    <3> QED BY <3>1, <3>3, <3>4 DEF Drop, WriteOn
  <2>5. ASSUME NEW s \in Senders, Cut(s), ~serving PROVE KeepsConnection'
    BY <2>5 DEF Cut, KeepsConnection
  <2>6. CASE Serve \/ Host \/ UNCHANGED vars
    BY <2>6 DEF Serve, Host, vars, link, KeepsConnection
  <2> QED BY <2>1, <2>2, <2>3, <2>4, <2>5, <2>6 DEF Next, Step
<1> QED BY <1>1, <1>2, AlwaysStreamInv, PTL DEF Spec

\* Something logged sets the latch.
LogInv == logged \in {0, 1} /\ (logged # 0 => reported)

\* A failure is logged only if a frame got through since the last one
\* (logDeliveryError, deliveryFailureReported).
THEOREM LoggedOnceHolds == Spec => []LoggedOnce
<1>1. Init => LogInv
  BY DEF Init, LogInv
<1>2. LogInv /\ [Next]_vars => LogInv'
  <2> SUFFICES ASSUME LogInv, [Next]_vars PROVE LogInv'
    OBVIOUS
  <2>1. ASSUME NEW s \in Senders, Send(s) \/ Step(s) PROVE LogInv'
    <3>1. ASSUME LogOnce PROVE LogInv'
      BY <3>1 DEF LogOnce, LogInv
    <3>2. ASSUME UNCHANGED <<logged, reported>> PROVE LogInv'
      BY <3>2 DEF LogInv
    <3>3. CASE Send(s) \/ Lock(s) \/ Close(s)
      BY <3>2, <3>3 DEF Send, Lock, Close
    <3>4. CASE Take(s)
      BY <3>1, <3>2, <3>4 DEF Take, GiveUp
    <3>5. CASE Write(s)
      <4>1. logged' = 0 \/ UNCHANGED <<logged, reported>>
        BY <3>5 DEF Write, WriteOn
      <4> QED BY <4>1, <3>2 DEF LogInv
    <3>6. CASE Cut(s)
      <4>1. LogOnce \/ UNCHANGED <<logged, reported>>
        BY <3>6 DEF Cut, Drop, Fail, GiveUp, WriteOn
      <4> QED BY <4>1, <3>1, <3>2
    <3> QED BY <2>1, <3>3, <3>4, <3>5, <3>6 DEF Step
  <2>2. CASE Serve \/ Host \/ UNCHANGED vars
    BY <2>2 DEF Serve, Host, vars, LogInv
  <2> QED BY <2>1, <2>2 DEF Next
<1>3. LogInv => LoggedOnce
  BY DEF LogInv, LoggedOnce
<1> QED BY <1>1, <1>2, <1>3, PTL DEF Spec
=============================================================================
