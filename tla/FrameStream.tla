------------------------------ MODULE FrameStream ------------------------------
(***************************************************************************)
(* How the desktop Core writes frames to its host (core/server.go, send).  *)
(* The replies of all method calls and the message batcher share one       *)
(* connection; writeMu keeps their frames apart.  A write may time out     *)
(* with part of the frame on the wire: it is then resumed for as long as   *)
(* the host stalls.  A frame none of which was written is dropped, and a   *)
(* half-written one that fails outright ends the connection.  The read     *)
(* loop ends it too, when a read fails or asks for too much.               *)
(*                                                                         *)
(* A frame is FrameSize units, its length included.  The host and the      *)
(* socket are external: the host reads, stalls, wakes or is gone, and the  *)
(* socket may fail a write, a deadline or a read whatever the host does.   *)
(***************************************************************************)
EXTENDS Naturals, Sequences

CONSTANTS
    Senders,      \* goroutines that call send
    FrameSize,    \* units of a frame
    MaxSends,     \* bound: frames per goroutine
    None

ASSUME FrameAssumption ==
    /\ FrameSize \in Nat \ {0} /\ MaxSends \in Nat
    /\ None \notin Senders

VARIABLES
    pc,          \* each goroutine in send
    sends,       \* bounded counter: frames it has sent, this one included
    written,     \* resumingWriter.written
    writeMu,     \* its holder
    conn,        \* conn is set
    open,        \* the connection is not closed
    serving,     \* serve is in its read loop
    reported,    \* deliveryFailureReported
    host,        \* what the host does
    wire,        \* every unit the connection has taken
    logged,      \* history: failures logged since the last frame that got through
    lost,        \* history: frames given up
    cut          \* history: frames the socket failed with a part on the wire

locals == <<pc, sends, written>>
link   == <<conn, open, serving>>
vars   == <<locals, writeMu, link, reported, host, wire, logged, lost, cut>>

Frame   == [from : Senders, number : 1..MaxSends]
Unit    == [frame : Frame, index : 1..FrameSize]
Mine(s) == [from |-> s, number |-> sends[s]]

Init ==
    /\ pc = [s \in Senders |-> "idle"] /\ sends = [s \in Senders |-> 0]
    /\ written = [s \in Senders |-> 0] /\ writeMu = None
    /\ conn = TRUE /\ open = TRUE /\ serving = TRUE
    /\ reported = FALSE /\ host = "reading"
    /\ wire = <<>> /\ logged = 0 /\ lost = {} /\ cut = {}

---------------------------------------------------------------------------
Goto(s, p) == pc' = [pc EXCEPT ![s] = p]

Send(s) ==
    /\ pc[s] = "idle" /\ sends[s] < MaxSends
    /\ sends' = [sends EXCEPT ![s] = @ + 1]
    /\ Goto(s, "lock")
    /\ UNCHANGED <<written, writeMu, link, reported, host, wire, logged, lost, cut>>

AnyTurn == TRUE                         \* faulty variant
MyTurn  == writeMu = None

Lock(s) ==
    /\ pc[s] = "lock" /\ MyTurn
    /\ writeMu' = s /\ Goto(s, "take")
    /\ UNCHANGED <<sends, written, link, reported, host, wire, logged, lost, cut>>

\* The deferred unlock.
ReturnLocked(s) == /\ Goto(s, "idle")            \* faulty variant
                   /\ written' = [written EXCEPT ![s] = 0]
                   /\ writeMu' = IF pc[s] = "take" THEN s ELSE None
                   /\ UNCHANGED sends
Return(s) == /\ Goto(s, "idle")
             /\ written' = [written EXCEPT ![s] = 0]
             /\ writeMu' = None
             /\ UNCHANGED sends

\* logDeliveryError: the first failure speaks for those that follow it.
LogAlways == logged' = logged + 1 /\ reported' = TRUE       \* faulty variant
LogOnce   == /\ logged' = IF reported THEN logged ELSE logged + 1
             /\ reported' = TRUE

GiveUp(s) == LogOnce /\ lost' = lost \cup {Mine(s)}

\* A write deadline that cannot be set is only logged.
Take(s) ==
    /\ pc[s] = "take"
    /\ \/ /\ conn /\ Goto(s, "write")
          /\ LogOnce \/ UNCHANGED <<logged, reported>>
          /\ UNCHANGED <<sends, written, writeMu, lost>>
       \/ ~conn /\ GiveUp(s) /\ Return(s)
    /\ UNCHANGED <<link, host, wire, cut>>

\* The connection takes n more units of the frame.
Taken(s, n) ==
    wire' = wire \o [i \in 1..n |-> [frame |-> Mine(s), index |-> written[s] + i]]

WriteOn(s, n) == /\ written' = [written EXCEPT ![s] = @ + n]
                 /\ UNCHANGED <<pc, sends, writeMu, conn, reported, logged, lost>>

\* The socket answers without an error; the last units end the frame.
Write(s) ==
    /\ pc[s] = "write" /\ open /\ host = "reading"
    /\ \E n \in 1..(FrameSize - written[s]) :
         /\ Taken(s, n)
         /\ \/ written[s] + n < FrameSize /\ WriteOn(s, n)
            \/ /\ written[s] + n = FrameSize /\ Return(s)
               /\ reported' = FALSE /\ logged' = 0
               /\ UNCHANGED <<conn, lost>>
    /\ UNCHANGED <<open, serving, host, cut>>

DropsAny(s, n)  == TRUE                   \* faulty variant
Droppable(s, n) == written[s] + n = 0

Drop(s) == GiveUp(s) /\ Return(s) /\ UNCHANGED conn

\* What a write may fail with: a deadline that passed, one that passed and that
\* resume does not wait out (it cannot be set again, or the piece is all taken),
\* or another error, io.ErrShortWrite and a frame that is too large among them.
Failures == {"timeout", "refused", "error"}

NeverResumed(a) == FALSE                  \* faulty variant
Resumed(a)      == a = "timeout"

\* A hard error in the middle of a frame: the stream cannot be framed again.
Fail(s, n) ==
    /\ GiveUp(s) /\ Goto(s, "close") /\ conn' = FALSE
    /\ written' = [written EXCEPT ![s] = @ + n]
    /\ UNCHANGED <<sends, writeMu>>

\* The socket answers with an error, n more units taken: the frame is dropped,
\* written on, or ends the connection.
Cut(s) ==
    /\ pc[s] = "write"
    /\ \E n \in 0..(FrameSize - written[s]), a \in Failures :
         /\ n > 0 => open /\ host = "reading"
         /\ a # "error" => open
         /\ a = "timeout" => written[s] + n < FrameSize
         /\ Taken(s, n)
         /\ cut' = IF a # "timeout" /\ written[s] + n > 0 THEN cut \cup {Mine(s)} ELSE cut
         /\ \/ Droppable(s, n) /\ Drop(s)
            \/ ~Droppable(s, n) /\ Resumed(a) /\ WriteOn(s, n)
            \/ ~Droppable(s, n) /\ ~Resumed(a) /\ Fail(s, n)
    /\ UNCHANGED <<open, serving, host>>

CloseForgotten(s) == open' = open         \* faulty variant
CloseConn(s)      == open' = FALSE

Close(s) ==
    /\ pc[s] = "close"
    /\ CloseConn(s) /\ Return(s)
    /\ UNCHANGED <<conn, serving, reported, host, wire, logged, lost, cut>>

\* serve: a read ends the loop, at the end of the connection or by an error of
\* its own, and the deferred call closes what send has not taken away.
Serve ==
    /\ serving
    /\ serving' = FALSE /\ conn' = FALSE
    /\ open' = (open /\ ~conn)
    /\ UNCHANGED <<locals, writeMu, reported, host, wire, logged, lost, cut>>

\* The host is suspended and resumed, or ends.
Host ==
    /\ host # "gone"
    /\ host' \in {"reading", "stalled", "gone"} \ {host}
    /\ UNCHANGED <<locals, writeMu, link, reported, wire, logged, lost, cut>>

Step(s) == Lock(s) \/ Take(s) \/ Write(s) \/ Cut(s) \/ Close(s)
Next    == \/ \E s \in Senders : Send(s) \/ Step(s)
           \/ Serve
           \/ Host

Broken == ~open \/ host = "gone"

\* Goroutines run and writeMu reaches everyone; a host that reads is written to,
\* a broken connection fails reads and writes, and a host that stalls comes back
\* or goes for good.  No other failure is owed.
Owed(s)  == Lock(s) \/ Take(s) \/ Write(s) \/ (Broken /\ Cut(s)) \/ Close(s)
Fairness == /\ \A s \in Senders : SF_vars(Owed(s))
            /\ WF_vars(Broken /\ Serve) /\ SF_vars(host = "stalled" /\ Host)

Spec     == Init /\ [][Next]_vars
FairSpec == Spec /\ Fairness

---------------------------------------------------------------------------
\* The fields have the values their declarations allow, and writeMu is held by
\* the goroutine that is past it.
TypeOK ==
    /\ pc \in [Senders -> {"idle", "lock", "take", "write", "close"}]
    /\ sends \in [Senders -> 0..MaxSends]
    /\ \A s \in Senders : pc[s] # "idle" => sends[s] > 0
    /\ written \in [Senders -> 0..FrameSize]
    /\ writeMu \in Senders \cup {None}
    /\ \A s \in Senders : pc[s] \in {"take", "write", "close"} <=> writeMu = s
    /\ conn \in BOOLEAN /\ open \in BOOLEAN /\ serving \in BOOLEAN
    /\ reported \in BOOLEAN /\ host \in {"reading", "stalled", "gone"}
    /\ wire \in Seq(Unit)
    /\ logged \in Nat /\ lost \subseteq Frame /\ cut \subseteq Frame

\* One unit follows another as the host reads them.
Follows(u, v) == IF u.index < FrameSize THEN v = [u EXCEPT !.index = @ + 1] ELSE v.index = 1

\* What the host reads is framed: whole frames one after the other, and a frame
\* cut short is the last thing the connection takes.
Framed ==
    /\ wire # <<>> => wire[1].index = 1
    /\ \A i \in 1..(Len(wire) - 1) : Follows(wire[i], wire[i + 1])
    /\ wire # <<>> /\ wire[Len(wire)].index < FrameSize
       => \/ ~conn
          \/ writeMu # None /\ Mine(writeMu) = wire[Len(wire)].frame

\* A frame that was given up did not reach the host while the connection lasts:
\* "drops that one frame and keeps the connection" (.agents/rules.md:211).
LostWhole ==
    conn => \A i \in DOMAIN wire : wire[i].frame \notin lost

\* While the Core listens it gives the connection up for one reason only: the
\* last thing on the wire is a frame that is lost, and the socket failed in the
\* middle of it.  A stall that is waited out, a frame dropped whole and a deadline
\* that cannot be set never cost the connection (send, resume).
KeepsConnection ==
    serving /\ ~conn => wire # <<>> /\ wire[Len(wire)].frame \in lost \cap cut

\* A frame begun is finished, however long the host stalls, unless the socket
\* fails in it or the connection breaks first ("a stall is waited out for as long
\* as it lasts", server.go:90).
Finishes ==
    \A s \in Senders :
        pc[s] = "write" /\ written[s] > 0
        ~> \/ pc[s] = "idle" /\ Mine(s) \notin lost
           \/ Mine(s) \in cut
           \/ pc[s] = "write" /\ Broken

\* A connection that send gave up ends serve, and the Core with it: a Core that
\* nobody can hear does not stay.
GivenUpEnds == ~conn ~> ~serving

\* A run of failures is logged once: the log is itself delivered by send.
LoggedOnce == logged <= 1

\* Every send returns, whatever the host does, unless it stalls for ever.
SendsEnd == \A s \in Senders : pc[s] = "lock" ~> pc[s] = "idle"
=============================================================================
