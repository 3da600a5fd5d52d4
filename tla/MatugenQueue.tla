---------------------------- MODULE MatugenQueue ----------------------------
(***************************************************************************)
(* The theme job queue: core/internal/matugen/queue.go, the lock file that *)
(* serialises matugen.Run, and the socket handler matugen.queue that waits *)
(* on a job's Done channel (core/internal/server/matugen_handler.go).      *)
(*                                                                         *)
(* A job is submitted by a connection's goroutine.  Submit is one critical *)
(* section of q.mu, and so is finishJob.  A Submit that finds the queue    *)
(* idle spawns a worker goroutine, named here by the job that spawned it.  *)
(* Between finishJob and the next look at q.current a worker holds no      *)
(* lock: it is still alive while the queue already looks idle.             *)
(***************************************************************************)
EXTENDS Naturals

CONSTANT MaxJobs              \* bound: how many jobs are ever submitted
ASSUME MaxJobsAssumption == MaxJobs \in Nat \ {0}

Jobs == 1 .. MaxJobs
None == 0
Workers == Jobs               \* worker w is the goroutine that Submit(w) spawned

Results == {"ok", "fail", "canceled"}
Replies == {"none", "waiting", "queued", "completed", "cancelled", "error", "timeout"}
Busy == {"picked", "locking", "building", "finishing"}

VARIABLES
    submitted,   \* jobs 1 .. submitted have been submitted, in this order
    current,     \* q.current
    pending,     \* q.pending
    cancelled,   \* jobs whose Ctx is cancelled
    buffer,      \* the Done channel's one slot, "empty" or a Result
    closed,      \* jobs whose Done channel is closed
    wpc,         \* where each worker goroutine is
    wjob,        \* the worker's local variable job
    wres,        \* the worker's local variable result
    fileLock,    \* the worker that holds matugen.lock
    built,       \* jobs whose own Run returned without error
    reply        \* what the handler of each job has answered

queueVars == <<current, pending, cancelled>>
doneVars == <<buffer, closed>>
runVars == <<fileLock, built>>
vars == <<submitted, queueVars, doneVars, wpc, wjob, wres, runVars, reply>>

Init ==
    /\ submitted = 0
    /\ current = None
    /\ pending = None
    /\ cancelled = {}
    /\ buffer = [j \in Jobs |-> "empty"]
    /\ closed = {}
    /\ wpc = [w \in Workers |-> "unborn"]
    /\ wjob = [w \in Workers |-> None]
    /\ wres = [w \in Workers |-> "empty"]
    /\ fileLock = None
    /\ built = {}
    /\ reply = [j \in Jobs |-> "none"]

-----------------------------------------------------------------------------
(* Submit: the critical section, the spawn of a worker, and the handler's  *)
(* choice between answering at once and waiting.                           *)

\* Mutation: the displaced job's Done channel is left open.
CancelPendingLeavesOpen ==
    IF pending = None
      THEN UNCHANGED <<cancelled, doneVars>>
      ELSE /\ cancelled' = cancelled \cup {pending}
           /\ buffer' = [buffer EXCEPT ![pending] = "canceled"]
           /\ UNCHANGED closed

CancelPending ==
    IF pending = None
      THEN UNCHANGED <<cancelled, doneVars>>
      ELSE /\ cancelled' = cancelled \cup {pending}
           /\ buffer' = [buffer EXCEPT ![pending] = "canceled"]
           /\ closed' = closed \cup {pending}

Submit(j, wait) ==
    /\ j = submitted + 1
    /\ submitted' = j
    /\ CancelPending
    /\ IF current # None
         THEN /\ pending' = j
              /\ UNCHANGED <<current, wpc>>
         ELSE /\ current' = j
              /\ wpc' = [wpc EXCEPT ![j] = "looking"]
              /\ UNCHANGED pending
    /\ reply' = [reply EXCEPT ![j] = IF wait THEN "waiting" ELSE "queued"]
    /\ UNCHANGED <<wjob, wres, runVars>>

-----------------------------------------------------------------------------
(* runWorker.                                                              *)

\* Mutation: no nil check at the top of the loop.
LookNoNilCheck(w) ==
    /\ wpc[w] = "looking"
    /\ wpc' = [wpc EXCEPT ![w] = "picked"]
    /\ wjob' = [wjob EXCEPT ![w] = current]
    /\ UNCHANGED <<submitted, queueVars, doneVars, wres, runVars, reply>>

\* The top of the loop: leave when the queue is idle, else pick the job.
Look(w) ==
    /\ wpc[w] = "looking"
    /\ IF current = None
         THEN /\ wpc' = [wpc EXCEPT ![w] = "gone"]
              /\ UNCHANGED wjob
         ELSE /\ wpc' = [wpc EXCEPT ![w] = "picked"]
              /\ wjob' = [wjob EXCEPT ![w] = current]
    /\ UNCHANGED <<submitted, queueVars, doneVars, wres, runVars, reply>>

\* The select on job.Ctx: a cancelled job is finished without being run.
CheckCtx(w) ==
    /\ wpc[w] = "picked"
    /\ IF wjob[w] \in cancelled
         THEN /\ wpc' = [wpc EXCEPT ![w] = "finishing"]
              /\ wres' = [wres EXCEPT ![w] = "canceled"]
         ELSE /\ wpc' = [wpc EXCEPT ![w] = "locking"]
              /\ UNCHANGED wres
    /\ UNCHANGED <<submitted, queueVars, doneVars, wjob, runVars, reply>>

\* acquireMatugenLock: polled every 100 ms, given up after 45 s.
TakeFileLock(w) ==
    /\ wpc[w] = "locking"
    /\ fileLock = None
    /\ fileLock' = w
    /\ wpc' = [wpc EXCEPT ![w] = "building"]
    /\ UNCHANGED <<submitted, queueVars, doneVars, wjob, wres, built, reply>>

FileLockTimeout(w) ==
    /\ wpc[w] = "locking"
    /\ fileLock # None
    /\ wpc' = [wpc EXCEPT ![w] = "finishing"]
    /\ wres' = [wres EXCEPT ![w] = "fail"]
    /\ UNCHANGED <<submitted, queueVars, doneVars, wjob, runVars, reply>>

\* The rest of Run; ErrNoChanges counts as success.
Build(w, outcome) ==
    /\ wpc[w] = "building"
    /\ built' = IF outcome = "ok" THEN built \cup {wjob[w]} ELSE built
    /\ fileLock' = None
    /\ wres' = [wres EXCEPT ![w] = outcome]
    /\ wpc' = [wpc EXCEPT ![w] = "finishing"]
    /\ UNCHANGED <<submitted, queueVars, doneVars, wjob, reply>>

\* Mutation: the waiting job is dropped instead of promoted.
FinishJobDropsPending(result) ==
    /\ IF current = None
         THEN UNCHANGED doneVars
         ELSE /\ buffer' = [buffer EXCEPT ![current] = result]
              /\ closed' = closed \cup {current}
    /\ current' = None
    /\ pending' = None
    /\ UNCHANGED cancelled

\* finishJob: it resolves q.current, whichever job that is by now.
FinishJob(result) ==
    /\ IF current = None
         THEN UNCHANGED doneVars
         ELSE /\ buffer' = [buffer EXCEPT ![current] =
                               IF buffer[current] = "empty" THEN result
                                                            ELSE buffer[current]]
              /\ closed' = closed \cup {current}
    /\ current' = pending
    /\ pending' = None
    /\ UNCHANGED cancelled

\* Mutation: the worker returns after one job.
FinishOnce(w) ==
    /\ wpc[w] = "finishing"
    /\ FinishJob(wres[w])
    /\ wpc' = [wpc EXCEPT ![w] = "gone"]
    /\ wjob' = [wjob EXCEPT ![w] = None]
    /\ wres' = [wres EXCEPT ![w] = "empty"]
    /\ UNCHANGED <<submitted, runVars, reply>>

Finish(w) ==
    /\ wpc[w] = "finishing"
    /\ FinishJob(wres[w])
    /\ wpc' = [wpc EXCEPT ![w] = "looking"]
    /\ wjob' = [wjob EXCEPT ![w] = None]        \* job and result go out of scope
    /\ wres' = [wres EXCEPT ![w] = "empty"]
    /\ UNCHANGED <<submitted, runVars, reply>>

WorkerStep(w) ==
    \/ Look(w)
    \/ CheckCtx(w)
    \/ TakeFileLock(w)
    \/ FileLockTimeout(w)
    \/ \E outcome \in {"ok", "fail"} : Build(w, outcome)
    \/ Finish(w)

-----------------------------------------------------------------------------
(* handleMatugenQueue after Submit, when the request asked to wait.        *)

Answer(result) ==
    CASE result = "canceled" -> "cancelled"
      [] result = "fail"     -> "error"
      [] OTHER               -> "completed"    \* also the zero Result of a drained, closed channel

Receive(j) ==
    /\ reply[j] = "waiting"
    /\ buffer[j] # "empty" \/ j \in closed
    /\ reply' = [reply EXCEPT ![j] = Answer(buffer[j])]
    /\ buffer' = [buffer EXCEPT ![j] = "empty"]
    /\ UNCHANGED <<submitted, queueVars, closed, wpc, wjob, wres, runVars>>

\* The handler's 60 s timeout; select may take it although Done is ready too.
GiveUp(j) ==
    /\ reply[j] = "waiting"
    /\ reply' = [reply EXCEPT ![j] = "timeout"]
    /\ UNCHANGED <<submitted, queueVars, doneVars, wpc, wjob, wres, runVars>>

-----------------------------------------------------------------------------
Next ==
    \/ \E j \in Jobs, wait \in BOOLEAN : Submit(j, wait)
    \/ \E w \in Workers : WorkerStep(w)
    \/ \E j \in Jobs : Receive(j) \/ GiveUp(j)

Spec == Init /\ [][Next]_vars

\* The Go scheduler runs every goroutine that can run.
FairSpec ==
    /\ Spec
    /\ \A w \in Workers : WF_vars(WorkerStep(w))

-----------------------------------------------------------------------------
\* The variables range over what the program can hold; a worker past the nil
\* check of runWorker holds a job (a nil job would be dereferenced).
TypeOK ==
    /\ submitted \in 0 .. MaxJobs
    /\ current \in Jobs \cup {None}
    /\ pending \in Jobs \cup {None}
    /\ cancelled \in SUBSET Jobs
    /\ buffer \in [Jobs -> Results \cup {"empty"}]
    /\ closed \in SUBSET Jobs
    /\ wpc \in [Workers -> Busy \cup {"unborn", "looking", "gone"}]
    /\ wjob \in [Workers -> Jobs \cup {None}]
    /\ wres \in [Workers -> Results \cup {"empty"}]
    /\ fileLock \in Workers \cup {None}
    /\ built \in SUBSET Jobs
    /\ reply \in [Jobs -> Replies]
    /\ \A w \in Workers : wpc[w] \in Busy => wjob[w] \in Jobs

Open(j) == j \in 1 .. submitted /\ j \notin closed

\* The jobs in the queue are exactly the submitted jobs whose Done channel is
\* still open, in submission order, and their slot is empty: so Submit's send to
\* the pending job never blocks while it holds q.mu, and neither Submit nor
\* finishJob closes a Done channel that is already closed (both would panic or
\* hang the daemon), even with two workers alive.
OpenIsQueued ==
    /\ \A j \in Jobs : Open(j) <=> (j = current \/ j = pending)
    /\ \A j \in Jobs : Open(j) => buffer[j] = "empty"
    /\ pending # None => current # None /\ current < pending

\* No job is stranded: while the queue holds a current job there is a live
\* worker that has yet to look at the queue or to finish a job.
CurrentHasWorker ==
    current # None => \E w \in Workers : wpc[w] \in Busy \cup {"looking"}

\* Only a job displaced by a newer one is cancelled, never the newest; a
\* cancelled job never becomes current (the Ctx.Done branch of runWorker is
\* never taken) and its submitter is never told "completed".
OnlyDisplacedCancelled ==
    \A j \in cancelled : /\ j < submitted
                         /\ j \in closed
                         /\ \A w \in Workers : wpc[w] \in Busy => wjob[w] # j
                         /\ reply[j] \notin {"completed", "error"}

\* The queue is sound with any number of workers alive: its jobs and their channels agree,
\* somebody works on them, and nothing is cancelled but what was displaced.
QueueIsSound == OpenIsQueued /\ CurrentHasWorker /\ OnlyDisplacedCancelled

\* Every submitted job is resolved: its Done channel is eventually closed.
EveryJobResolved == \A j \in Jobs : j <= submitted ~> j \in closed

\* "Wait for completion" (the --wait flag of `matugen queue`): the handler
\* answers "completed" only when the job's own Run has succeeded.
CompletedMeansBuilt == \A j \in Jobs : reply[j] = "completed" => j \in built

\* What the submitter of each job is entitled to know.
Fate == [j \in Jobs |-> IF j > submitted THEN "new"
                        ELSE IF Open(j) THEN "open"
                        ELSE IF j \in cancelled THEN "cancelled" ELSE "finished"]

LW == INSTANCE LatestWinsQueue WITH cur <- current, pend <- pending, fate <- Fate

\* Every behaviour of workers, channels and handlers is one of the abstract
\* queue, which serves the waiting job after the current one and resolves each
\* job once.
LatestWins == LW!LWSpec

=============================================================================
