-------------------------- MODULE LatestWinsQueue --------------------------
(***************************************************************************)
(* What the theme queue of core/internal/matugen/queue.go promises to its  *)
(* callers, with no worker, mutex or channel in sight: at most one job is  *)
(* being served and at most one waits; a newer job displaces the waiting   *)
(* one, which is told it was cancelled; the served job is finished before  *)
(* the waiting one is served; every job is resolved exactly once.          *)
(***************************************************************************)
EXTENDS Naturals

CONSTANT MaxJobs

VARIABLES
    cur,      \* the job being served, NoJob when there is none
    pend,     \* the job waiting, NoJob when there is none
    fate      \* what each job's submitter has been told

lwVars == <<cur, pend, fate>>

LWJobs == 1 .. MaxJobs
NoJob == 0

LWInit ==
    /\ cur = NoJob
    /\ pend = NoJob
    /\ fate = [j \in LWJobs |-> "new"]

\* Jobs are numbered in the order they are submitted.
Request(j) ==
    /\ fate[j] = "new"
    /\ \A i \in 1 .. (j - 1) : fate[i] # "new"
    /\ IF cur = NoJob
         THEN /\ cur' = j
              /\ pend' = NoJob
              /\ fate' = [fate EXCEPT ![j] = "open"]
         ELSE /\ cur' = cur
              /\ pend' = j
              /\ fate' = [i \in LWJobs |-> IF i = j THEN "open"
                                             ELSE IF i = pend THEN "cancelled"
                                             ELSE fate[i]]

Serve ==
    /\ cur # NoJob
    /\ fate' = [fate EXCEPT ![cur] = "finished"]
    /\ cur' = pend
    /\ pend' = NoJob

LWNext == Serve \/ \E j \in LWJobs : Request(j)

LWSpec == LWInit /\ [][LWNext]_lwVars

=============================================================================
