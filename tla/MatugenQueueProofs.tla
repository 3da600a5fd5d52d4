------------------------- MODULE MatugenQueueProofs -------------------------
(***************************************************************************)
(* Proofs about the theme queue for any number of jobs.  TypeOK and        *)
(* CurrentHasWorker are inductive once TypeOK is known; OpenIsQueued and   *)
(* OnlyDisplacedCancelled need QueueInv below, which says in addition that *)
(* no worker holds the pending job and what the handlers of open and of    *)
(* cancelled jobs may have answered so far.                                *)
(***************************************************************************)
EXTENDS MatugenQueue, TLAPS

LEMMA JobsAreNaturals ==
    /\ None \notin Jobs
    /\ \A j \in Jobs : j \in Nat /\ j > 0 /\ j <= MaxJobs
BY MaxJobsAssumption DEF None, Jobs

\* A worker's job was submitted and is not the pending one.
WorkerJobServed ==
    \A w \in Workers : wpc[w] \in Busy => wjob[w] <= submitted /\ wjob[w] # pending

\* The handler of an open job has had no answer from the queue yet.
OpenUnanswered ==
    \A j \in Jobs : Open(j) => reply[j] \in {"waiting", "queued", "timeout"}

\* The handler of a cancelled job, if it still waits, finds "canceled".
CancelledAnswer ==
    \A j \in cancelled : reply[j] = "waiting" => buffer[j] = "canceled"

\* The Done channels of jobs not yet submitted are as Submit will make them.
Untouched ==
    \A j \in Jobs : j > submitted => j \notin closed /\ buffer[j] = "empty"

QueueInv ==
    /\ TypeOK
    /\ Untouched
    /\ OpenIsQueued
    /\ WorkerJobServed
    /\ OpenUnanswered
    /\ OnlyDisplacedCancelled
    /\ CancelledAnswer

-----------------------------------------------------------------------------
LEMMA TypeInit == Init => TypeOK
BY JobsAreNaturals, MaxJobsAssumption
   DEF Init, TypeOK, Workers, Busy, Results, Replies, None

LEMMA TypeStep == TypeOK /\ [Next]_vars => TypeOK'
<1> SUFFICES ASSUME TypeOK, [Next]_vars PROVE TypeOK'
  OBVIOUS
<1> USE JobsAreNaturals, MaxJobsAssumption DEF TypeOK, Workers, queueVars, doneVars, runVars
<1>1. ASSUME NEW j \in Jobs, NEW wait \in BOOLEAN, Submit(j, wait) PROVE TypeOK'
  <2>1. j \in 0 .. MaxJobs
    BY DEF Jobs
  <2>2. CASE pending = None
    BY <1>1, <2>1, <2>2 DEF Submit, CancelPending, Busy, Replies
  <2>3. CASE pending # None
    <3>1. /\ cancelled' \in SUBSET Jobs
          /\ closed' \in SUBSET Jobs
          /\ buffer' \in [Jobs -> Results \cup {"empty"}]
      <4>1. pending \in Jobs
        BY <2>3
      <4>2. /\ cancelled' = cancelled \cup {pending}
            /\ closed' = closed \cup {pending}
            /\ buffer' = [buffer EXCEPT ![pending] = "canceled"]
        BY <1>1, <2>3 DEF Submit, CancelPending
      <4> QED BY <4>1, <4>2 DEF Results
    <3>2. /\ submitted' \in 0 .. MaxJobs
          /\ current' \in Jobs \cup {None}
          /\ pending' \in Jobs \cup {None}
          /\ reply' \in [Jobs -> Replies]
      BY <1>1, <2>1 DEF Submit, Replies
    <3>3. /\ wpc' \in [Workers -> Busy \cup {"unborn", "looking", "gone"}]
          /\ \A w \in Workers : wpc'[w] \in Busy => wjob'[w] \in Jobs
      BY <1>1 DEF Submit, Busy
    <3> QED BY <1>1, <3>1, <3>2, <3>3 DEF Submit
  <2> QED BY <2>2, <2>3
<1>2. ASSUME NEW w \in Workers, Look(w) PROVE TypeOK'
  BY <1>2 DEF Look, Busy
<1>3. ASSUME NEW w \in Workers, CheckCtx(w) PROVE TypeOK'
  BY <1>3 DEF CheckCtx, Busy, Results
<1>4. ASSUME NEW w \in Workers, TakeFileLock(w) PROVE TypeOK'
  BY <1>4 DEF TakeFileLock, Busy
<1>5. ASSUME NEW w \in Workers, FileLockTimeout(w) PROVE TypeOK'
  BY <1>5 DEF FileLockTimeout, Busy, Results
<1>6. ASSUME NEW w \in Workers, NEW outcome \in {"ok", "fail"}, Build(w, outcome)
      PROVE TypeOK'
  BY <1>6 DEF Build, Busy, Results
<1>7. ASSUME NEW w \in Workers, Finish(w) PROVE TypeOK'
  <2>1. wres[w] \in Results \cup {"empty"}
    BY <1>7
  <2>2. CASE current = None
    BY <1>7, <2>1, <2>2 DEF Finish, FinishJob, Busy, Results
  <2>3. CASE current # None
    BY <1>7, <2>1, <2>3 DEF Finish, FinishJob, Busy, Results
  <2> QED BY <2>2, <2>3
<1>8. ASSUME NEW j \in Jobs, Receive(j) PROVE TypeOK'
  <2>1. Answer(buffer[j]) \in Replies
    BY DEF Answer, Replies
  <2> QED BY <1>8, <2>1 DEF Receive
<1>9. ASSUME NEW j \in Jobs, GiveUp(j) PROVE TypeOK'
  BY <1>9 DEF GiveUp, Replies
<1>10. CASE UNCHANGED vars
  BY <1>10 DEF vars
<1> QED
  BY <1>1, <1>2, <1>3, <1>4, <1>5, <1>6, <1>7, <1>8, <1>9, <1>10 DEF Next, WorkerStep

\* The queue's variables always hold values the program can hold, and a worker
\* past the nil check holds a job (queue.go, every function).
THEOREM TypeCorrect == Spec => []TypeOK
BY TypeInit, TypeStep, PTL DEF Spec

-----------------------------------------------------------------------------
LEMMA HasWorkerStep == TypeOK /\ CurrentHasWorker /\ [Next]_vars => CurrentHasWorker'
<1> SUFFICES ASSUME TypeOK, CurrentHasWorker, [Next]_vars, current' # None
             PROVE  \E w \in Workers : wpc'[w] \in Busy \cup {"looking"}
  BY DEF CurrentHasWorker
<1> USE JobsAreNaturals DEF TypeOK, Workers, queueVars, Busy
<1>1. ASSUME NEW j \in Jobs, NEW wait \in BOOLEAN, Submit(j, wait)
      PROVE \E w \in Workers : wpc'[w] \in Busy \cup {"looking"}
  <2>1. CASE current = None
    <3>1. wpc'[j] = "looking"
      BY <1>1, <2>1 DEF Submit
    <3> QED BY <3>1
  <2>2. CASE current # None
    BY <1>1, <2>2 DEF Submit, CurrentHasWorker
  <2> QED BY <2>1, <2>2
<1>2. ASSUME NEW w \in Workers, Look(w)
      PROVE \E v \in Workers : wpc'[v] \in Busy \cup {"looking"}
  <2>1. wpc'[w] = "picked"
    BY <1>2 DEF Look
  <2> QED BY <2>1
<1>3. ASSUME NEW w \in Workers,
             CheckCtx(w) \/ TakeFileLock(w) \/ FileLockTimeout(w)
               \/ (\E outcome \in {"ok", "fail"} : Build(w, outcome)) \/ Finish(w)
      PROVE \E v \in Workers : wpc'[v] \in Busy \cup {"looking"}
  <2>1. wpc'[w] \in {"locking", "building", "finishing", "looking"}
    BY <1>3 DEF CheckCtx, TakeFileLock, FileLockTimeout, Build, Finish
  <2> QED BY <2>1
<1>4. ASSUME NEW j \in Jobs, Receive(j) \/ GiveUp(j)
      PROVE \E v \in Workers : wpc'[v] \in Busy \cup {"looking"}
  BY <1>4 DEF Receive, GiveUp, CurrentHasWorker
<1>5. CASE UNCHANGED vars
  BY <1>5 DEF vars, CurrentHasWorker
<1> QED
  BY <1>1, <1>2, <1>3, <1>4, <1>5 DEF Next, WorkerStep

\* No submitted job is stranded without a worker, although a worker that saw an
\* idle queue leaves while Submit may be filling it (Submit, runWorker).
THEOREM NoStrandedJob == Spec => []CurrentHasWorker
<1>1. Init => CurrentHasWorker
  BY DEF Init, CurrentHasWorker
<1> QED
  BY <1>1, TypeCorrect, HasWorkerStep, PTL DEF Spec

-----------------------------------------------------------------------------
LEMMA QueueInit == Init => QueueInv
<1> SUFFICES ASSUME Init PROVE QueueInv
  OBVIOUS
<1>1. TypeOK
  BY TypeInit
<1>2. \A j \in Jobs : ~ Open(j)
  BY JobsAreNaturals DEF Init, Open
<1> QED
  BY <1>1, <1>2, JobsAreNaturals
     DEF Init, QueueInv, OpenIsQueued, WorkerJobServed, OpenUnanswered,
         OnlyDisplacedCancelled, CancelledAnswer, Untouched, Busy

\* Submit opens job j, which becomes pending or current; a job that was pending
\* is closed and cancelled, and is older than j.
LEMMA SubmitKeepsQueue ==
  ASSUME NEW j \in Jobs, NEW wait \in BOOLEAN, QueueInv, TypeOK', Submit(j, wait)
  PROVE  QueueInv'
<1> USE JobsAreNaturals DEF TypeOK, QueueInv, Workers
<1>1. /\ j = submitted + 1 /\ submitted' = j /\ j \notin closed /\ buffer[j] = "empty"
      /\ j # current /\ j # pending /\ j \notin cancelled
      /\ \A i \in Jobs : Open(i) => i < j
      /\ \A i \in Jobs : i # j => reply'[i] = reply[i]
      /\ reply'[j] \in {"waiting", "queued"}
      /\ wjob' = wjob
  BY DEF Submit, Untouched, Open, OpenIsQueued, OnlyDisplacedCancelled
<1>2. /\ closed' = closed \cup ({pending} \ {None})
      /\ cancelled' = cancelled \cup ({pending} \ {None})
      /\ \A i \in Jobs : i # pending => buffer'[i] = buffer[i]
      /\ pending # None => buffer'[pending] = "canceled"
  BY DEF Submit, CancelPending, doneVars
<1>3. IF current # None
        THEN pending' = j /\ current' = current /\ wpc' = wpc
        ELSE /\ current' = j /\ pending' = pending
             /\ \A w \in Workers : wpc'[w] \in Busy => wpc[w] \in Busy
  BY DEF Submit, Busy
<1>4. \A i \in Jobs : Open(i)' <=> i = j \/ (Open(i) /\ i # pending)
  BY <1>1, <1>2 DEF Open
<1>5. pending # None => pending \in Jobs /\ Open(pending) /\ pending < j
  BY <1>1 DEF OpenIsQueued
<1>6. Untouched'
  BY <1>1, <1>2, <1>5 DEF Untouched
<1>7. OpenIsQueued'
  <2>1. \A i \in Jobs : Open(i)' <=> (i = current' \/ i = pending')
    BY <1>1, <1>3, <1>4 DEF OpenIsQueued
  <2>2. \A i \in Jobs : Open(i)' => buffer'[i] = "empty"
    BY <1>1, <1>2, <1>4 DEF OpenIsQueued
  <2>3. pending' # None => current' # None /\ current' < pending'
    BY <1>1, <1>3 DEF OpenIsQueued
  <2> QED BY <2>1, <2>2, <2>3 DEF OpenIsQueued
<1>8. WorkerJobServed'
  <2> SUFFICES ASSUME NEW w \in Workers, wpc'[w] \in Busy
               PROVE  wjob[w] <= j /\ wjob[w] # pending'
    BY <1>1 DEF WorkerJobServed
  <2>1. wpc[w] \in Busy /\ wjob[w] \in Jobs
    BY <1>3
  <2>2. wjob[w] <= submitted
    BY <2>1 DEF WorkerJobServed
  <2>3. submitted \in Nat /\ wjob[w] \in Nat /\ wjob[w] > 0
    BY <2>1
  <2>4. j = submitted + 1
    BY <1>1
  <2>5. pending' \in {j, None}
    BY <1>3 DEF OpenIsQueued
  <2> QED BY <2>2, <2>3, <2>4, <2>5 DEF None
<1>9. OpenUnanswered'
  BY <1>1, <1>4 DEF OpenUnanswered
<1>10. OnlyDisplacedCancelled'
  <2> SUFFICES ASSUME NEW i \in cancelled'
               PROVE  /\ i < submitted' /\ i \in closed'
                      /\ \A w \in Workers : wpc'[w] \in Busy => wjob'[w] # i
                      /\ reply'[i] \notin {"completed", "error"}
    BY DEF OnlyDisplacedCancelled
  <2>1. CASE i \in cancelled
    BY <2>1, <1>1, <1>2, <1>3 DEF OnlyDisplacedCancelled
  <2>2. CASE i = pending /\ i # None
    BY <2>2, <1>1, <1>2, <1>3, <1>5
       DEF WorkerJobServed, OpenUnanswered
  <2> QED BY <2>1, <2>2, <1>2
<1>11. CancelledAnswer'
  BY <1>1, <1>2, <1>5 DEF CancelledAnswer
<1> QED BY <1>6, <1>7, <1>8, <1>9, <1>10, <1>11

\* finishJob closes the current job and makes the pending one current.
LEMMA FinishKeepsQueue ==
  ASSUME NEW w \in Workers, QueueInv, TypeOK', Finish(w)
  PROVE  QueueInv'
<1> USE JobsAreNaturals DEF TypeOK, QueueInv, Workers
<1>1. /\ submitted' = submitted /\ reply' = reply /\ cancelled' = cancelled
      /\ current' = pending /\ pending' = None
      /\ closed' = closed \cup ({current} \ {None})
      /\ \A i \in Jobs : i # current => buffer'[i] = buffer[i]
      /\ \A v \in Workers : wpc'[v] \in Busy => wpc[v] \in Busy /\ wjob'[v] = wjob[v]
  BY DEF Finish, FinishJob, doneVars, Busy
<1>2. \A i \in Jobs : Open(i)' <=> Open(i) /\ i # current
  BY <1>1 DEF Open
<1>3. current # None => current \in Jobs /\ Open(current) /\ current \notin cancelled
  BY DEF OpenIsQueued, OnlyDisplacedCancelled, Open
<1>4. Untouched'
  BY <1>1, <1>3 DEF Untouched, Open
<1>5. OpenIsQueued'
  BY <1>1, <1>2 DEF OpenIsQueued
<1>6. WorkerJobServed'
  BY <1>1 DEF WorkerJobServed
<1>7. OpenUnanswered'
  BY <1>1, <1>2 DEF OpenUnanswered
<1>8. OnlyDisplacedCancelled'
  BY <1>1 DEF OnlyDisplacedCancelled
<1>9. CancelledAnswer'
  BY <1>1, <1>3 DEF CancelledAnswer
<1> QED BY <1>4, <1>5, <1>6, <1>7, <1>8, <1>9

\* The other worker steps leave queue, channels and handlers alone.
LEMMA WorkerKeepsQueue ==
  ASSUME NEW w \in Workers, QueueInv, TypeOK',
         \/ Look(w) \/ CheckCtx(w) \/ TakeFileLock(w) \/ FileLockTimeout(w)
         \/ \E outcome \in {"ok", "fail"} : Build(w, outcome)
  PROVE  QueueInv'
<1> USE JobsAreNaturals DEF TypeOK, QueueInv, Workers
<1>1. /\ submitted' = submitted /\ reply' = reply
      /\ current' = current /\ pending' = pending /\ cancelled' = cancelled
      /\ buffer' = buffer /\ closed' = closed
  BY DEF Look, CheckCtx, TakeFileLock, FileLockTimeout, Build, queueVars, doneVars
<1>2. \A v \in Workers : wpc'[v] \in Busy =>
         \/ wpc[v] \in Busy /\ wjob'[v] = wjob[v]
         \/ wjob'[v] = current /\ current # None
  BY DEF Look, CheckCtx, TakeFileLock, FileLockTimeout, Build, Busy
<1>3. current # None => current <= submitted /\ current # pending /\ current \notin cancelled
  BY DEF OpenIsQueued, OnlyDisplacedCancelled, Open
<1>4. Untouched' /\ OpenIsQueued' /\ OpenUnanswered' /\ CancelledAnswer'
  BY <1>1 DEF Untouched, OpenIsQueued, OpenUnanswered, CancelledAnswer, Open
<1>5. WorkerJobServed'
  BY <1>1, <1>2, <1>3 DEF WorkerJobServed
<1>6. OnlyDisplacedCancelled'
  BY <1>1, <1>2, <1>3 DEF OnlyDisplacedCancelled
<1> QED BY <1>4, <1>5, <1>6

\* A handler drains only a closed channel, or times out.
LEMMA HandlerKeepsQueue ==
  ASSUME NEW j \in Jobs, QueueInv, TypeOK', Receive(j) \/ GiveUp(j)
  PROVE  QueueInv'
<1> USE JobsAreNaturals DEF TypeOK, QueueInv, Workers
<1>1. /\ submitted' = submitted /\ current' = current /\ pending' = pending
      /\ cancelled' = cancelled /\ closed' = closed /\ wpc' = wpc /\ wjob' = wjob
  BY DEF Receive, GiveUp, queueVars, doneVars
<1>2. /\ \A i \in Jobs : i # j => buffer'[i] = buffer[i] /\ reply'[i] = reply[i]
      /\ buffer'[j] \in {buffer[j], "empty"}
      /\ reply[j] = "waiting" /\ reply'[j] # "waiting"
  BY DEF Receive, GiveUp, doneVars, Answer
<1>3. reply'[j] = "timeout" \/ (reply'[j] = Answer(buffer[j]) /\ ~ Open(j))
  BY DEF Receive, GiveUp, OpenIsQueued, Open
<1>4. \A i \in Jobs : Open(i)' <=> Open(i)
  BY <1>1 DEF Open
<1>5. Untouched' /\ OpenIsQueued'
  BY <1>1, <1>2, <1>4 DEF Untouched, OpenIsQueued
<1>6. WorkerJobServed'
  BY <1>1 DEF WorkerJobServed
<1>7. OpenUnanswered'
  BY <1>1, <1>2, <1>3, <1>4 DEF OpenUnanswered
<1>8. j \in cancelled => reply'[j] \in {"timeout", "cancelled"}
  BY <1>2, <1>3 DEF CancelledAnswer, Answer
<1>9. OnlyDisplacedCancelled' /\ CancelledAnswer'
  BY <1>1, <1>2, <1>8 DEF OnlyDisplacedCancelled, CancelledAnswer
<1> QED BY <1>5, <1>6, <1>7, <1>9

LEMMA QueueStep == QueueInv /\ [Next]_vars => QueueInv'
<1> SUFFICES ASSUME QueueInv, [Next]_vars PROVE QueueInv'
  OBVIOUS
<1>1. TypeOK'
  BY TypeStep DEF QueueInv
<1>2. CASE UNCHANGED vars
  BY <1>2 DEF vars, queueVars, doneVars, runVars, QueueInv, TypeOK, Untouched, OpenIsQueued,
              Open, WorkerJobServed, OpenUnanswered, OnlyDisplacedCancelled, CancelledAnswer
<1> QED
  BY <1>1, <1>2, SubmitKeepsQueue, FinishKeepsQueue, WorkerKeepsQueue, HandlerKeepsQueue
     DEF Next, WorkerStep

LEMMA QueueInvariant == Spec => []QueueInv
BY QueueInit, QueueStep, PTL DEF Spec

\* The open Done channels are exactly those of the current and the pending job,
\* and empty: no send blocks under q.mu and no channel is closed twice
\* (Submit, finishJob).
THEOREM OpenChannelsQueued == Spec => []OpenIsQueued
BY QueueInvariant, PTL DEF QueueInv

\* Only displaced jobs are cancelled, they never reach a worker, and their
\* submitters never hear "completed" (Submit, runWorker, handleMatugenQueue).
THEOREM CancelledWereDisplaced == Spec => []OnlyDisplacedCancelled
BY QueueInvariant, PTL DEF QueueInv

\* However many workers are alive, jobs and channels agree, no job is stranded
\* and nothing is cancelled but what was displaced (Submit, runWorker, finishJob).
THEOREM QueueStaysSound == Spec => []QueueIsSound
<1>1. OpenIsQueued /\ CurrentHasWorker /\ OnlyDisplacedCancelled => QueueIsSound
  BY DEF QueueIsSound
<1> QED
  BY <1>1, NoStrandedJob, OpenChannelsQueued, CancelledWereDisplaced, PTL

-----------------------------------------------------------------------------
LEMMA FateValues ==
  ASSUME NEW j \in Jobs, TypeOK
  PROVE  /\ Fate \in [Jobs -> {"new", "open", "cancelled", "finished"}]
         /\ Fate[j] = "new" <=> j > submitted
         /\ Fate[j] = "open" <=> Open(j)
         /\ Fate[j] = "cancelled" <=> j <= submitted /\ ~ Open(j) /\ j \in cancelled
BY JobsAreNaturals DEF Fate, Open, TypeOK

\* A step that leaves the queue and its channels alone is a stutter of the
\* abstract queue.
LEMMA QueueStutter ==
  ASSUME UNCHANGED <<submitted, queueVars, closed>>
  PROVE  UNCHANGED LW!lwVars
<1>1. /\ submitted' = submitted /\ current' = current /\ pending' = pending
      /\ cancelled' = cancelled /\ closed' = closed
  BY DEF queueVars
<1>2. \A j \in Jobs : Open(j)' <=> Open(j)
  BY <1>1 DEF Open
<1>3. \A j \in Jobs : Fate'[j] = Fate[j]
  BY <1>1, <1>2 DEF Fate
<1>4. Fate' = Fate
  BY <1>3 DEF Fate
<1> QED BY <1>1, <1>4 DEF LW!lwVars

LEMMA SubmitRefines ==
  ASSUME NEW j \in Jobs, NEW wait \in BOOLEAN, QueueInv, Submit(j, wait)
  PROVE  LW!Request(j)
<1> USE JobsAreNaturals DEF QueueInv, TypeOK
<1>1. /\ j = submitted + 1 /\ submitted' = j
      /\ closed' = closed \cup ({pending} \ {None})
      /\ cancelled' = cancelled \cup ({pending} \ {None})
  BY DEF Submit, CancelPending, doneVars
<1>2. \A i \in Jobs : i < j => i <= submitted
  BY <1>1
<1>3. Fate[j] = "new" /\ \A i \in 1 .. (j - 1) : Fate[i] # "new"
  <2>1. j > submitted
    BY <1>1
  <2>2. \A i \in 1 .. (j - 1) : i \in Jobs /\ i <= submitted
    <3>1. j = submitted + 1 /\ submitted \in Nat /\ j \in 1 .. MaxJobs
      BY <1>1 DEF Jobs
    <3> QED BY <3>1, MaxJobsAssumption DEF Jobs
  <2>3. Fate[j] = "new"
    BY <2>1, FateValues
  <2>4. \A i \in 1 .. (j - 1) : Fate[i] # "new"
    <3> SUFFICES ASSUME NEW i \in 1 .. (j - 1) PROVE Fate[i] # "new"
      OBVIOUS
    <3>1. i \in Jobs /\ ~ (i > submitted) /\ submitted \in Nat /\ i \in Nat
      BY <2>2
    <3> QED BY <3>1 DEF Fate
  <2> QED BY <2>3, <2>4
<1>4. j \notin closed /\ j # pending /\ j \notin cancelled
  BY <1>1 DEF Untouched, OpenIsQueued, OnlyDisplacedCancelled, Open
<1>5. \A i \in Jobs : Fate'[i] = IF i = j THEN "open"
              ELSE IF i = pending THEN "cancelled" ELSE Fate[i]
  <2> SUFFICES ASSUME NEW i \in Jobs
               PROVE  Fate'[i] = IF i = j THEN "open"
              ELSE IF i = pending THEN "cancelled" ELSE Fate[i]
    OBVIOUS
  <2>1. CASE i = j
    BY <2>1, <1>1, <1>4 DEF Fate, Open
  <2>2. CASE i = pending /\ i # j
    <3>1. i <= submitted
      BY <2>2 DEF OpenIsQueued, Open
    <3> QED BY <2>2, <1>1, <3>1 DEF Fate, Open
  <2>3. CASE i # pending /\ i # j
    BY <2>3, <1>1, <1>2 DEF Fate, Open
  <2> QED BY <2>1, <2>2, <2>3
<1>6. CASE current = None
  <2>1. pending = None /\ current' = j /\ pending' = None
    BY <1>6 DEF Submit, OpenIsQueued
  <2>2. Fate' = [Fate EXCEPT ![j] = "open"]
    BY <2>1, <1>5 DEF Fate
  <2> QED BY <1>3, <1>6, <2>1, <2>2 DEF LW!Request, LW!NoJob, None
<1>7. CASE current # None
  <2>1. current' = current /\ pending' = j
    BY <1>7 DEF Submit
  <2>2. Fate' = [i \in Jobs |-> IF i = j THEN "open"
              ELSE IF i = pending THEN "cancelled" ELSE Fate[i]]
    BY <1>5 DEF Fate
  <2> QED BY <1>3, <1>7, <2>1, <2>2 DEF LW!Request, LW!NoJob, LW!LWJobs, None, Jobs
<1> QED BY <1>6, <1>7

LEMMA FinishRefines ==
  ASSUME NEW w \in Workers, QueueInv, Finish(w)
  PROVE  [LW!LWNext]_LW!lwVars
<1> USE JobsAreNaturals DEF QueueInv, TypeOK
<1>1. /\ submitted' = submitted /\ cancelled' = cancelled
      /\ current' = pending /\ pending' = None
      /\ closed' = closed \cup ({current} \ {None})
  BY DEF Finish, FinishJob, doneVars
<1>2. CASE current = None
  <2>1. pending = None
    BY <1>2 DEF OpenIsQueued
  <2> QED BY <1>1, <1>2, <2>1, QueueStutter DEF queueVars
<1>3. CASE current # None
  <2>1. current \in Jobs /\ Open(current) /\ current \notin cancelled
    BY <1>3 DEF OpenIsQueued, OnlyDisplacedCancelled, Open
  <2>2. \A i \in Jobs : Fate'[i] = IF i = current THEN "finished" ELSE Fate[i]
    BY <1>1, <2>1 DEF Fate, Open
  <2>3. Fate' = [Fate EXCEPT ![current] = "finished"]
    BY <2>2 DEF Fate
  <2> QED BY <1>1, <1>3, <2>3 DEF LW!LWNext, LW!Serve, LW!NoJob, None
<1> QED BY <1>2, <1>3

LEMMA StepRefines == QueueInv /\ [Next]_vars => [LW!LWNext]_LW!lwVars
<1> SUFFICES ASSUME QueueInv, [Next]_vars PROVE [LW!LWNext]_LW!lwVars
  OBVIOUS
<1>1. ASSUME NEW j \in Jobs, NEW wait \in BOOLEAN, Submit(j, wait)
      PROVE  LW!LWNext
  BY <1>1, SubmitRefines DEF LW!LWNext, LW!LWJobs, Jobs
<1>2. ASSUME NEW w \in Workers, Finish(w) PROVE [LW!LWNext]_LW!lwVars
  BY <1>2, FinishRefines
<1>3. ASSUME NEW w \in Workers,
             \/ Look(w) \/ CheckCtx(w) \/ TakeFileLock(w) \/ FileLockTimeout(w)
             \/ \E outcome \in {"ok", "fail"} : Build(w, outcome)
      PROVE  UNCHANGED LW!lwVars
  BY <1>3, QueueStutter
     DEF Look, CheckCtx, TakeFileLock, FileLockTimeout, Build, doneVars
<1>4. ASSUME NEW j \in Jobs, Receive(j) \/ GiveUp(j) PROVE UNCHANGED LW!lwVars
  BY <1>4, QueueStutter DEF Receive, GiveUp, doneVars
<1>5. CASE UNCHANGED vars
  BY <1>5, QueueStutter DEF vars, doneVars
<1> QED BY <1>1, <1>2, <1>3, <1>4, <1>5 DEF Next, WorkerStep

LEMMA InitRefines == Init => LW!LWInit
BY JobsAreNaturals DEF Init, LW!LWInit, LW!NoJob, LW!LWJobs, None, Jobs, Fate, Open

\* The queue implements the latest-wins queue: whatever the workers do, the queue serves the
\* waiting job after the current one and resolves every job once.
THEOREM RefinesLatestWins == Spec => LatestWins
BY InitRefines, StepRefines, QueueInvariant, PTL DEF Spec, LatestWins, LW!LWSpec

=============================================================================
