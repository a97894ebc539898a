----------------------------- MODULE SpilledReplies -----------------------------
(***************************************************************************)
(* The files a desktop Core writes for the host, and who owns them: a reply *)
(* too large for a frame goes to a file of the spill directory             *)
(* (core/method.go, core/spill.go), and so does a built profile; a setup    *)
(* writes config.yaml (core/profile_base.go).  The host reads each spilled  *)
(* file and deletes it (lib/core/spill.dart, rpc_client.dart).  A Core that *)
(* runs as root gives what it made back to the user, the spill directory at *)
(* once and the rest in debounced sweeps (core/ownership_unix.go).          *)
(*                                                                         *)
(* A file is known by the call that made it.  What is in it does not        *)
(* matter, only whether all of it is there.                                 *)
(***************************************************************************)
EXTENDS Naturals

CONSTANTS
    Calls,      \* calls under way at once
    Sweeps,     \* sweeps under way at once
    Elevated,   \* the Core runs as root, for a user who is not
    MaxAsked,   \* bound: calls ever made
    MaxDeaths,  \* bound: Cores that end
    None

ASSUME SpillAssumption ==
    /\ Elevated \in BOOLEAN /\ MaxAsked \in Nat /\ MaxDeaths \in Nat
    /\ {"dir", "config"} \cap Calls = {}
    /\ None \notin Calls \cup {"root", "user"}

VARIABLES
    core,      \* "up" or "down"
    deaths, asked,
    pc,        \* where a call's goroutine is
    kind,      \* what a call asks: a "query", or a "setup"
    wire,      \* a reply on its way: "none", "inline", or the name of a "file"; or
               \* "dropped", by a send that wrote none of it
    host,      \* the host's side of a call
    owner,     \* of each entry of the home directory, None if it is not there
    file,      \* a call's file: "part" or "whole"
    config,    \* what config.yaml holds: how much of it, and whose file it was
    configMu,
    pending,   \* reclaimPending
    sweep      \* each sweep: where it is, and the entries it still has to visit

goroutines == <<pc, kind, wire, configMu>>
disk       == <<owner, file, config>>
sweeping   == <<pending, sweep>>
spillVars == <<core, deaths, asked, goroutines, host, disk, sweeping>>

Entries == Calls \cup {"dir", "config"}
Maker   == IF Elevated THEN "root" ELSE "user"
NoSweep == [at |-> "none", targets |-> {}]

Spilled(e)  == e \in Calls /\ kind[e] = "query"
InHome(e)   == ~Spilled(e)
Cleared(e)  == Spilled(e)
Exists(e)   == owner[e] # None
Inode(e)    == IF e = "config" THEN config.of ELSE e

SpillInit ==
    /\ core = "down" /\ deaths = 0 /\ asked = 0
    /\ pc = [c \in Calls |-> "idle"] /\ kind = [c \in Calls |-> "query"]
    /\ wire = [c \in Calls |-> "none"] /\ host = [c \in Calls |-> "idle"]
    /\ \E d \in {None, "user", Maker} :
           owner = [e \in Entries |-> IF e = "dir" THEN d
                                      ELSE IF e = "config" THEN "user" ELSE None]
    /\ file = [c \in Calls |-> "part"]
    /\ config = [held |-> "whole", of |-> None]
    /\ configMu = None /\ pending = FALSE
    /\ sweep = [s \in Sweeps |-> NoSweep]

---------------------------------------------------------------------------
(* The Core and its calls *)

\* What the sweep at the start makes of an owner.
SweptAtStart(o) == IF o = "root" THEN "user" ELSE o

\* The init call of a new Core: a sweep of its own, then the spilled files of
\* the Cores before it are removed.  No other call is about yet.
Boot ==
    /\ core = "down" /\ core' = "up"
    /\ owner' = [e \in Entries |->
                    IF Cleared(e) THEN None ELSE SweptAtStart(owner[e])]
    /\ UNCHANGED <<deaths, asked, goroutines, host, file, config, sweeping>>

\* The Core dies wherever its goroutines are, or its link is lost and it ends.
\* The host fails the calls that wait; a file it is reading it goes on reading.
CoreEnds ==
    /\ core = "up" /\ deaths < MaxDeaths
    /\ core' = "down" /\ deaths' = deaths + 1
    /\ pc' = [c \in Calls |-> "idle"] /\ wire' = [c \in Calls |-> "none"]
    /\ configMu' = None /\ pending' = FALSE
    /\ sweep' = [s \in Sweeps |-> NoSweep]
    /\ host' = [c \in Calls |-> CASE host[c] = "waiting" -> "idle"
                                  [] host[c] = "reading" -> "stale"
                                  [] OTHER -> host[c]]
    /\ UNCHANGED <<asked, kind, disk>>

\* A setup's temporary file that a dead Core left is nobody's: the next file
\* of the call has another name.
Ask(c, k) ==
    /\ core = "up" /\ asked < MaxAsked /\ asked' = asked + 1
    /\ pc[c] = "idle" /\ host[c] = "idle" /\ wire[c] \in {"none", "dropped"}
    /\ Exists(c) => ~Spilled(c)
    /\ pc' = [pc EXCEPT ![c] = "handle"] /\ host' = [host EXCEPT ![c] = "waiting"]
    /\ kind' = [kind EXCEPT ![c] = k] /\ wire' = [wire EXCEPT ![c] = "none"]
    /\ owner' = [owner EXCEPT ![c] = None]
    /\ UNCHANGED <<core, deaths, configMu, file, config, sweeping>>

Goto(c, from, to) ==
    /\ core = "up" /\ pc[c] = from /\ pc' = [pc EXCEPT ![c] = to]
    /\ UNCHANGED <<core, deaths, asked, kind, host>>

\* The panic ends the goroutine with nothing answered.
PanicIsSilent(c, end) ==                                         \* faulty variant
    IF end = "panic" THEN "idle"
    ELSE IF end = "done" THEN (IF kind[c] = "query" THEN "mkdir" ELSE "lock") ELSE "answer"

\* Where a handler's end leads: what is small enough, an error and a panic the
\* recovery turned into an error are answered as they are.
AfterHandler(c, end) ==
    IF end = "done" THEN (IF kind[c] = "query" THEN "mkdir" ELSE "lock") ELSE "answer"

Handle(c) ==
    /\ \E end \in {"done", "small", "error", "panic"} :
           Goto(c, "handle", AfterHandler(c, end))
    /\ UNCHANGED <<wire, configMu, disk, sweeping>>

MakeDir(c) ==
    /\ Goto(c, "mkdir", "own")
    /\ owner' = [owner EXCEPT !["dir"] = IF @ = None THEN Maker ELSE @]
    /\ UNCHANGED <<wire, configMu, file, config, sweeping>>

\* The directory waits for the sweep like the rest.
LeavesDir(c) ==                                                  \* faulty variant
    /\ Goto(c, "own", "create")
    /\ UNCHANGED <<wire, configMu, disk, sweeping>>

\* reclaimDirOwnership: the directory is the user's before a reply names it.
OwnDir(c) ==
    /\ Goto(c, "own", "create")
    /\ owner' = [owner EXCEPT !["dir"] = "user"]
    /\ UNCHANGED <<wire, configMu, file, config, sweeping>>

LockConfig(c) ==
    /\ configMu = None /\ configMu' = c
    /\ Goto(c, "lock", "create")
    /\ UNCHANGED <<wire, disk, sweeping>>

\* The temporary name is new: no sweep has seen it.
Create(c) ==
    /\ Goto(c, "create", "fill")
    /\ owner' = [owner EXCEPT ![c] = Maker]
    /\ file' = [file EXCEPT ![c] = "part"]
    /\ sweep' = [s \in Sweeps |->
                    [sweep[s] EXCEPT !.targets = {t \in @ : t.entry # c}]]
    /\ UNCHANGED <<wire, configMu, config, pending>>

\* A profile that cannot be read or merged, a directory or a file not made.
CreateFails(c) ==
    /\ \/ Goto(c, "create", "answer")
       \/ Goto(c, "mkdir", "answer")
    /\ UNCHANGED <<wire, configMu, disk, sweeping>>

\* The file is written piece by piece, given its mode and closed.
Fill(c) ==
    /\ Goto(c, "fill", IF kind[c] = "query" THEN "schedule" ELSE "rename")
    /\ file' = [file EXCEPT ![c] = "whole"]
    /\ UNCHANGED <<wire, configMu, owner, config, sweeping>>

\* The failed write is not looked at.
WritesUnchecked(c) ==                                            \* faulty variant
    /\ Goto(c, "fill", IF kind[c] = "query" THEN "schedule" ELSE "rename")
    /\ UNCHANGED <<wire, configMu, disk, sweeping>>

\* One of these fails: the file is removed, and a query is answered inline, a
\* setup with the error.
FillFails(c) ==
    /\ Goto(c, "fill", "answer")
    /\ owner' = [owner EXCEPT ![c] = None]
    /\ UNCHANGED <<wire, configMu, file, config, sweeping>>

Rename(c) ==
    /\ Goto(c, "rename", "schedule")
    /\ config' = [held |-> file[c], of |-> c]
    /\ owner' = [owner EXCEPT ![c] = None, !["config"] = owner[c]]
    /\ UNCHANGED <<wire, configMu, file, sweeping>>

RenameFails(c) ==
    /\ Goto(c, "rename", "answer")
    /\ owner' = [owner EXCEPT ![c] = None]
    /\ UNCHANGED <<wire, configMu, file, config, sweeping>>

Schedule(c) ==
    /\ Goto(c, "schedule", IF kind[c] = "query" THEN "tell" ELSE "answer")
    /\ IF Elevated /\ ~pending
       THEN \E s \in Sweeps :
                /\ sweep[s].at = "none" /\ pending' = TRUE
                /\ sweep' = [sweep EXCEPT ![s].at = "sleep"]
       ELSE UNCHANGED sweeping
    /\ UNCHANGED <<wire, configMu, disk>>

\* send writes the frame, or reports it and drops it: it is too large, its deadline
\* passed before a byte of it was taken, or the connection has just been given up.  A
\* frame that is cut short ends the Core (FrameStream).
Reply(c) ==
    /\ \/ Goto(c, "answer", "idle") /\ wire' = [wire EXCEPT ![c] = "inline"]
       \/ Goto(c, "tell", "idle") /\ wire' = [wire EXCEPT ![c] = "file"]
       \/ (Goto(c, "answer", "idle") \/ Goto(c, "tell", "idle"))
          /\ wire' = [wire EXCEPT ![c] = "dropped"]
    /\ configMu' = IF configMu = c THEN None ELSE configMu
    /\ UNCHANGED <<disk, sweeping>>

CallStep(c) ==
    \/ Handle(c) \/ MakeDir(c) \/ OwnDir(c) \/ LockConfig(c) \/ Create(c)
    \/ CreateFails(c) \/ Fill(c) \/ FillFails(c) \/ Rename(c) \/ RenameFails(c) \/ Schedule(c)
    \/ Reply(c)

---------------------------------------------------------------------------
(* A sweep: it sleeps, walks the home directory and the spill directory in   *)
(* it, then gives back one entry after the other.                            *)

Root(S)      == {[entry |-> e, inode |-> Inode(e)] : e \in {x \in S : owner[x] = "root"}}
Followers    == [sleep |-> "home", home |-> "spill", spill |-> "reclaim", reclaim |-> "none"]

\* The debounce ends with the sweep.
ClearsLast(at) == at = "reclaim"                                 \* faulty variant

\* The debounce ends before the walk begins: what is asked for from then on
\* gets a sweep of its own.
ClearsPending(at) == at = "sleep"

Walked(at) ==
    CASE at = "home"  -> Root({e \in Entries : InHome(e)})
      [] at = "spill" -> Root({e \in Entries : Spilled(e)})
      [] OTHER        -> {}

SweepOn(s) ==
    LET at == sweep[s].at IN
    /\ at # "none"
    /\ at = "reclaim" => sweep[s].targets = {}
    /\ sweep' = [sweep EXCEPT ![s] =
                    [at |-> Followers[at], targets |-> @.targets \cup Walked(at)]]
    /\ pending' = (pending /\ ~ClearsPending(at))
    /\ UNCHANGED <<core, deaths, asked, goroutines, host, disk>>

\* The path may be gone by now, or lead to another file: that one is skipped.
Reclaims(t) == owner[t.entry] = "root" /\ Inode(t.entry) = t.inode

ReclaimEntry(s) ==
    /\ sweep[s].at = "reclaim"
    /\ \E t \in sweep[s].targets :
           /\ sweep' = [sweep EXCEPT ![s].targets = @ \ {t}]
           /\ owner' = IF Reclaims(t) THEN [owner EXCEPT ![t.entry] = "user"] ELSE owner
    /\ UNCHANGED <<core, deaths, asked, goroutines, host, file, config, pending>>

SweepStep(s) == SweepOn(s) \/ ReclaimEntry(s)

---------------------------------------------------------------------------
(* The host *)

\* A call that timed out is forgotten; the Core does not know.
GiveUp(c) ==
    /\ host[c] = "waiting" /\ host' = [host EXCEPT ![c] = "idle"]
    /\ UNCHANGED <<core, deaths, asked, goroutines, disk, sweeping>>

\* A late reply is dropped with the name in it.
DropsLate(c) ==                                                  \* faulty variant
    IF wire[c] = "file" /\ host[c] = "waiting" THEN "reading" ELSE "idle"

\* What a reply makes the host do; nobody waits for a late one.
OnReply(c) ==
    IF wire[c] = "inline" THEN "idle"
    ELSE IF host[c] = "waiting" THEN "reading" ELSE "discarding"

Receive(c) ==
    /\ wire[c] \in {"inline", "file"} /\ wire' = [wire EXCEPT ![c] = "none"]
    /\ host' = [host EXCEPT ![c] = OnReply(c)]
    /\ UNCHANGED <<core, deaths, asked, pc, kind, configMu, disk, sweeping>>

\* The file is deleted once read, whatever came of that, or without a look at
\* it; the user may delete in a directory that is the user's.
LetGo(c) ==
    /\ host[c] \in {"reading", "stale", "discarding"}
    /\ host' = [host EXCEPT ![c] = "idle"]
    /\ owner' = IF owner["dir"] = "user" THEN [owner EXCEPT ![c] = None] ELSE owner
    /\ UNCHANGED <<core, deaths, asked, goroutines, file, config, sweeping>>

HostStep(c) == Receive(c) \/ LetGo(c)

SpillNext ==
    \/ Boot \/ CoreEnds
    \/ \E c \in Calls, k \in {"query", "setup"} : Ask(c, k)
    \/ \E c \in Calls : CallStep(c) \/ HostStep(c) \/ GiveUp(c)
    \/ \E s \in Sweeps : SweepStep(s)

\* A goroutine of the Core runs on while the Core is up, and the host's event
\* loop takes up what arrived; nothing makes a Core end or a call time out.
SpillFairness ==
    /\ \A c \in Calls : WF_spillVars(CallStep(c)) /\ WF_spillVars(HostStep(c))
    /\ \A s \in Sweeps : WF_spillVars(SweepStep(s))

SpillSpec == SpillInit /\ [][SpillNext]_spillVars /\ SpillFairness

---------------------------------------------------------------------------
(* Properties *)

\* While a Core is up, each file of the spill directory has somebody who will
\* delete it: the goroutine that makes it, the reply that names it, or the
\* host's task, whatever failed or came too late (core/spill.go:22, 57;
\* rpc_client.dart, _handleResponse).  Only where that reply was dropped is its file
\* left over, and the next Core starts without it (core/spill.go:77).
NothingLeft ==
    core = "up" => \A c \in Calls :
        Spilled(c) /\ Exists(c) =>
            \/ pc[c] # "idle" \/ wire[c] = "file" \/ host[c] \in {"reading", "discarding"}
            \/ wire[c] = "dropped"

\* Whatever a name leads to is all there: the file a reply of this Core names,
\* until the host has read it, and config.yaml, which others read at any time,
\* a Core that died over it included (core/profile_base.go:252).
NamedIsWhole ==
    /\ config.held = "whole"
    /\ \A c \in Calls : wire[c] = "file" \/ host[c] = "reading" =>
           Exists(c) /\ file[c] = "whole"

\* A call is answered even when its handler panics or its file cannot be
\* written (core/method.go:58-66): only a reply that was dropped leaves it to its
\* timeout (core/server.go:158).
Answered ==
    \A c \in Calls : host[c] = "waiting" ~> host[c] # "waiting" \/ wire[c] = "dropped"

\* What the Core made as root becomes the user's, or is gone, unless the Core
\* ends first: the debounce loses no request (core/ownership_unix.go:177-193).
Foreign   == core = "up" /\ \E e \in Entries : owner[e] = "root"
Reclaimed == Foreign ~> ~Foreign
================================================================================
