------------------------------ MODULE LatestIntent ------------------------------
(***************************************************************************)
(* What DesktopCoreLifecycle promises its callers, without the transport,  *)
(* the launcher and the worker: commands are answered in order, the latest *)
(* one decides what they are answered with, and what it is answered with   *)
(* is true of the Core processes.  DesktopLifecycle implements it.         *)
(***************************************************************************)
EXTENDS Naturals, Sequences

CONSTANTS
    Lease         \* the Core processes that may ever exist

VARIABLES
    asked,        \* the commands, by revision
    outcome,      \* what each was answered with; "pending" until then
    cores         \* processes spawned and not confirmed to have exited

vars == <<asked, outcome, cores>>

Targets  == {"running", "restarted", "stopped", "closed"}
Runs(t)  == t \in {"running", "restarted"}
Closing  == asked # <<>> /\ asked[Len(asked)] = "closed"
Pending  == {r \in DOMAIN outcome : outcome[r] = "pending"}

Init == asked = <<>> /\ outcome = <<>> /\ cores = {}

Ask == /\ ~Closing
       /\ \E t \in Targets : asked' = Append(asked, t)
       /\ outcome' = Append(outcome, "pending")
       /\ UNCHANGED cores

\* The latest command is met: it was applied, and every command still waiting
\* was satisfied by it or overtaken.  A stop leaves no process, a start one.
Serve ==
    /\ Pending # {}
    /\ LET last == asked[Len(asked)]
       IN  /\ last = "stopped" => cores = {}
           /\ Runs(last) => \E l \in Lease : cores = {l}
           /\ outcome' = [r \in DOMAIN outcome |->
                IF outcome[r] # "pending" THEN outcome[r]
                ELSE IF r = Len(asked) THEN "applied"
                ELSE IF asked[r] = last \/ (Runs(asked[r]) /\ Runs(last))
                THEN "coalesced" ELSE "superseded"]
    /\ UNCHANGED <<asked, cores>>

\* An attempt failed: with it the commands up to some revision, all of them
\* once the application is closing.
Refuse ==
    /\ \E n \in DOMAIN asked :
         /\ Closing => n = Len(asked)
         /\ outcome' = [r \in DOMAIN outcome |->
              IF outcome[r] = "pending" /\ r <= n THEN "failed" ELSE outcome[r]]
    /\ UNCHANGED <<asked, cores>>

\* A process is spawned only while none is out.
Launch == /\ cores = {}
          /\ \E l \in Lease : cores' = {l}
          /\ UNCHANGED <<asked, outcome>>

Retire == /\ cores' = {}
          /\ UNCHANGED <<asked, outcome>>

Next == Ask \/ Serve \/ Refuse \/ Launch \/ Retire

\* Every command is answered.
Spec     == Init /\ [][Next]_vars
FairSpec == Spec /\ WF_vars(Serve \/ Refuse)
=============================================================================
