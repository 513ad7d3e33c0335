---------------------------- MODULE JobLifecycle ----------------------------
(***************************************************************************)
(* What a durable job promises: at most MaxAttempts attempts, one at a     *)
(* time; only the attempt that is running publishes; a job completes with  *)
(* the results of its running attempt; a job that ends without results has *)
(* used every attempt.  Leases, versions, heartbeats and reads that are    *)
(* stale when they are used are what JobClaims implements this with.       *)
(***************************************************************************)
EXTENDS Integers

CONSTANTS Jobs, MaxAttempts

VARIABLES status,    \* of each job
          tried,     \* how many attempts have begun
          published  \* the attempt whose results are the published ones, 0: none

vars == <<status, tried, published>>

Init ==
    /\ status = [j \in Jobs |-> "queued"]
    /\ tried = [j \in Jobs |-> 0]
    /\ published = [j \in Jobs |-> 0]

Start(j) ==
    /\ status[j] = "queued"
    /\ tried[j] < MaxAttempts
    /\ status' = [status EXCEPT ![j] = "running"]
    /\ tried' = [tried EXCEPT ![j] = @ + 1]
    /\ UNCHANGED published

Publish(j) ==
    /\ status[j] = "running"
    /\ published' = [published EXCEPT ![j] = tried[j]]
    /\ UNCHANGED <<status, tried>>

Complete(j) ==
    /\ status[j] = "running"
    /\ published[j] = tried[j]
    /\ status' = [status EXCEPT ![j] = "completed"]
    /\ UNCHANGED <<tried, published>>

\* The attempt failed or its worker was lost, and another one is left.
Requeue(j) ==
    /\ status[j] = "running"
    /\ tried[j] < MaxAttempts
    /\ status' = [status EXCEPT ![j] = "queued"]
    /\ UNCHANGED <<tried, published>>

\* "failed" when the last worker said so, "interrupted" when it was lost.
GiveUp(j) ==
    /\ status[j] = "running"
    /\ tried[j] = MaxAttempts
    /\ \E s \in {"failed", "interrupted"} : status' = [status EXCEPT ![j] = s]
    /\ UNCHANGED <<tried, published>>

Next == \E j \in Jobs : Start(j) \/ Publish(j) \/ Complete(j) \/ Requeue(j) \/ GiveUp(j)

Spec == Init /\ [][Next]_vars
=============================================================================
