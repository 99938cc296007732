------------------------------ MODULE JobQueue ------------------------------
(***************************************************************************)
(* The job queues of the API (apps/api/src/queue): BullMQ queues in Redis  *)
(* and one worker per queue in the process.  A credential job (issuance,   *)
(* verification or DID operation) does its work, then adds a callback job  *)
(* to the webhooks queue if its caller gave a URL, then returns; BullMQ    *)
(* repeats a job that throws, up to Attempts times, and one whose process  *)
(* has died.  SIGTERM closes the workers one by one, then the queues.      *)
(*                                                                         *)
(* A callback job is named by the job that adds it and the credential it   *)
(* tells of: each run of a credential job makes another one.  What BullMQ  *)
(* does is modelled from its use here (5.63).  Two queues are left out:    *)
(* vc-verification, which is like vc-issuance and closed after it, and     *)
(* emails, whose processor is a placeholder without callback.              *)
(***************************************************************************)
EXTENDS Naturals, FiniteSets

CONSTANTS
    VCJobs,          \* jobs of the queue vc-issuance
    DIDJobs,         \* jobs of the queue did-operations
    WithCallback,    \* the jobs whose data has a callbackUrl
    Attempts,        \* defaultJobOptions.attempts
    Concurrency,     \* workerOptions.concurrency
    MaxStalledCount, \* how often BullMQ runs a stalled job again
    ServicesMayFail, \* whether the toolkit, Redis or a receiver may fail
    Administered,    \* whether the routes that remove, pause and resume are used
    MaxRetries,      \* bound on the retries ordered by hand
    MaxEnds          \* bound on the crashes and stops of the process

Credentials == VCJobs \cup DIDJobs
MaxRuns     == Attempts + MaxRetries + MaxEnds
Callbacks   == Credentials \X (1 .. MaxRuns)
Jobs        == Credentials \cup Callbacks
Kinds       == {"vc", "webhooks", "did"}

ASSUME JobQueueAssumption ==
    /\ VCJobs \cap DIDJobs = {}
    /\ Credentials \cap Callbacks = {}
    /\ WithCallback \subseteq Credentials
    /\ Attempts \in Nat \ {0}
    /\ Concurrency \in Nat \ {0}
    /\ MaxStalledCount \in Nat
    /\ ServicesMayFail \in BOOLEAN
    /\ Administered \in BOOLEAN
    /\ MaxRetries \in Nat
    /\ MaxEnds \in Nat

KindOf(j) == IF j \in VCJobs THEN "vc" ELSE IF j \in DIDJobs THEN "did" ELSE "webhooks"

\* An orphaned job is in the active list although no process runs it.
JobRecord == [state : {"none", "waiting", "active", "orphaned", "delayed",
                       "completed", "failed", "removed"},
              step : {"work", "callback", "return"},
              attemptsMade : Nat,
              stalls : Nat,
              done : Nat]   \* credentials made, or callbacks received

VARIABLES
    job,      \* the jobs in Redis, and where their processors are
    phase,    \* the process: up, or what its shutdown is closing, or down
    paused,   \* the queues that are paused
    retries,
    ends

vars == <<job, phase, paused, retries, ends>>

Phases    == {"up", "vc", "webhooks", "did", "queues", "down"}
Unfinished == {"waiting", "active", "orphaned", "delayed"}

Init ==
    /\ job = [j \in Jobs |-> [state |-> "none", step |-> "work", attemptsMade |-> 0,
                              stalls |-> 0, done |-> 0]]
    /\ phase = "down"
    /\ paused = {}
    /\ retries = 0
    /\ ends = 0

-----------------------------------------------------------------------------
(* The process: initialize, shutdown, crash                                 *)

Active(k) == {j \in Jobs : job[j].state = "active" /\ KindOf(j) = k}

Initialize ==
    /\ phase = "down"
    /\ phase' = "up"
    /\ UNCHANGED <<job, paused, retries, ends>>

\* shutdown closes the workers in the order of the Map, then the queues.
Following == [up |-> "vc", vc |-> "webhooks", webhooks |-> "did", did |-> "queues",
              queues |-> "down"]

\* Mutant: the workers are closed without waiting for their jobs.
ForceClosed(k) == TRUE
\* Mutant: a worker is closed when its queue is empty.
Drained(k) == \A j \in Jobs : KindOf(j) = k => job[j].state \notin Unfinished
\* worker.close() waits for the jobs the worker is processing.
Closed(k)  == Active(k) = {}

Sigterm ==
    /\ phase = "up"
    /\ ends < MaxEnds
    /\ ends' = ends + 1
    /\ phase' = Following[phase]
    /\ UNCHANGED <<job, paused, retries>>

CloseNext ==
    /\ phase \in Kinds \cup {"queues"}
    /\ phase \in Kinds => Closed(phase)
    /\ phase' = Following[phase]
    /\ UNCHANGED <<job, paused, retries, ends>>

\* The process dies: the jobs it was processing stay in the active list.
Crash ==
    /\ phase # "down"
    /\ ends < MaxEnds
    /\ ends' = ends + 1
    /\ phase' = "down"
    /\ job' = [j \in Jobs |-> IF job[j].state = "active"
                              THEN [job[j] EXCEPT !.state = "orphaned", !.step = "work"]
                              ELSE job[j]]
    /\ UNCHANGED <<paused, retries>>

\* A worker takes jobs until its close() begins; the queues outlive the workers.
Taking(k) == \/ phase = "up"
             \/ phase = "vc" /\ k # "vc"
             \/ phase = "webhooks" /\ k = "did"

\* Mutant: the queues are closed before the workers.
QueuesClosedFirst == phase = "up"
QueuesOpen        == phase # "down"

-----------------------------------------------------------------------------
(* What BullMQ does with a job                                              *)

\* A caller adds a job while the process serves requests.
Add(j) ==
    /\ phase = "up"
    /\ j \in Credentials /\ job[j].state = "none"
    /\ job' = [job EXCEPT ![j].state = "waiting"]
    /\ UNCHANGED <<phase, paused, retries, ends>>

Take(j) ==
    /\ job[j].state = "waiting"
    /\ Taking(KindOf(j)) /\ KindOf(j) \notin paused
    /\ Cardinality(Active(KindOf(j))) < Concurrency
    /\ job' = [job EXCEPT ![j].state = "active"]
    /\ UNCHANGED <<phase, paused, retries, ends>>

\* A retried job waits for its backoff first.
Promote(j) ==
    /\ job[j].state = "delayed"
    /\ job' = [job EXCEPT ![j].state = "waiting"]
    /\ UNCHANGED <<phase, paused, retries, ends>>

\* The stalled check of a running worker finds a job whose process has died.
Recover(j) ==
    /\ job[j].state = "orphaned"
    /\ Taking(KindOf(j))
    /\ job' = [job EXCEPT ![j].stalls = @ + 1,
                          ![j].state = IF job[j].stalls < MaxStalledCount
                                       THEN "waiting" ELSE "failed"]
    /\ UNCHANGED <<phase, paused, retries, ends>>

DoneMore(r, n) == [r EXCEPT !.done = @ + n]

\* Mutant: a failed attempt is not counted.
Uncounted(r)    == [r EXCEPT !.step = "work", !.state = "delayed"]
\* What is left of the record r of a job whose processor has thrown.
AfterFailure(r) == [r EXCEPT !.step = "work", !.attemptsMade = @ + 1,
                             !.state = IF r.attemptsMade + 1 < Attempts
                                       THEN "delayed" ELSE "failed"]

Complete(j) ==
    /\ job[j].state = "active" /\ job[j].step = "return"
    /\ job' = [job EXCEPT ![j].state = "completed", ![j].step = "work",
                          ![j].attemptsMade = @ + 1]
    /\ UNCHANGED <<phase, paused, retries, ends>>

-----------------------------------------------------------------------------
(* The processors                                                           *)

\* The work of a credential job is done, or throws before anything is made.
WorkOnCredential(j) ==
    /\ j \in Credentials
    /\ job[j].state = "active" /\ job[j].step = "work"
    /\ \/ job' = [job EXCEPT ![j].done = @ + 1,
                             ![j].step = IF j \in WithCallback THEN "callback" ELSE "return"]
       \/ ServicesMayFail /\ job' = [job EXCEPT ![j] = AfterFailure(@)]
    /\ UNCHANGED <<phase, paused, retries, ends>>

\* The receiver gets the callback and answers 2xx or 4xx, which both complete
\* the job; or answers 5xx, or cannot be reached, or its answer is lost.
SendCallback(j) ==
    /\ j \in Callbacks
    /\ job[j].state = "active" /\ job[j].step = "work"
    /\ \/ job' = [job EXCEPT ![j].done = @ + 1, ![j].step = "return"]
       \/ \E received \in {0, 1} :
             /\ ServicesMayFail
             /\ job' = [job EXCEPT ![j] = AfterFailure(DoneMore(job[j], received))]
    /\ UNCHANGED <<phase, paused, retries, ends>>

\* Mutant: when the callback cannot be queued the job is done over at once.
QueueCallbackOrRedo(j) ==
    LET callback == <<j, job[j].done>>
    IN  /\ job[j].state = "active" /\ job[j].step = "callback"
        /\ \/ /\ QueuesOpen
              /\ job' = [job EXCEPT ![j].step = "return", ![callback].state = "waiting"]
           \/ /\ ServicesMayFail
              /\ job' = [job EXCEPT ![j].step = "work"]
        /\ UNCHANGED <<phase, paused, retries, ends>>

\* webhookQueue.add: skipped when the queues are closed; accepted; or failed for
\* the caller, with or without the callback in the queue.
QueueCallback(j) ==
    LET callback == <<j, job[j].done>>
    IN  /\ job[j].state = "active" /\ job[j].step = "callback"
        /\ \/ job' = [job EXCEPT ![j].step = "return",
                                 ![callback].state = IF QueuesOpen THEN "waiting" ELSE @]
           \/ /\ QueuesOpen /\ ServicesMayFail
              /\ \/ job' = [job EXCEPT ![j] = AfterFailure(@)]
                 \/ job' = [job EXCEPT ![j] = AfterFailure(@), ![callback].state = "waiting"]
        /\ UNCHANGED <<phase, paused, retries, ends>>

-----------------------------------------------------------------------------
(* The management routes                                                    *)

RetryFailed(j) ==
    /\ phase = "up"
    /\ retries < MaxRetries
    /\ job[j].state = "failed"
    /\ retries' = retries + 1
    /\ job' = [job EXCEPT ![j].state = "waiting"]
    /\ UNCHANGED <<phase, paused, ends>>

\* DELETE of a job that no worker holds, and cleanQueue.
Remove(j) ==
    /\ Administered /\ phase = "up"
    /\ job[j].state \in {"waiting", "delayed", "completed", "failed"}
    /\ job' = [job EXCEPT ![j].state = "removed"]
    /\ UNCHANGED <<phase, paused, retries, ends>>

PauseOrResume(k) ==
    /\ Administered /\ phase = "up"
    /\ paused' \in {paused \cup {k}, paused \ {k}}
    /\ UNCHANGED <<job, phase, retries, ends>>

-----------------------------------------------------------------------------
Process(j) == WorkOnCredential(j) \/ SendCallback(j) \/ QueueCallback(j) \/ Complete(j)

Next ==
    \/ Initialize \/ Sigterm \/ CloseNext \/ Crash
    \/ \E j \in Jobs :
          \/ Add(j) \/ Take(j) \/ Promote(j) \/ Recover(j)
          \/ Process(j)
          \/ RetryFailed(j) \/ Remove(j)
    \/ \E k \in Kinds : PauseOrResume(k)

Spec == Init /\ [][Next]_vars

\* The process is started again, its event loop goes on with what is active, and
\* BullMQ serves each queue in order, so that no waiting job is passed over.
QueueFairness ==
    /\ WF_vars(Initialize) /\ WF_vars(CloseNext)
    /\ \A j \in Jobs :
          WF_vars(Process(j) \/ Promote(j) \/ Recover(j)) /\ SF_vars(Take(j))

FairSpec == Spec /\ QueueFairness

-----------------------------------------------------------------------------
\* Shapes of the jobs and of the process.
TypeOK ==
    /\ job \in [Jobs -> JobRecord]
    /\ phase \in Phases
    /\ paused \subseteq Kinds
    /\ retries \in 0 .. MaxRetries
    /\ ends \in 0 .. MaxEnds

\* What a job does again it does for an attempt that failed or a process that
\* died: a job makes as many credentials as that, at most, and one more while it
\* runs, and no more callbacks are received than that.
WorkPerAttempt ==
    \A j \in Jobs :
        job[j].done <= job[j].attemptsMade + job[j].stalls
                       + IF job[j].state \in {"active", "orphaned"} THEN 1 ELSE 0

\* A job that has completed has put the callback for its last credential, the
\* one it returned, into the webhooks queue, whatever failed, was retried or was
\* being shut down.
CompletedCallsBack ==
    \A j \in WithCallback :
        job[j].state = "completed" => job[<<j, job[j].done>>].state # "none"

\* Shutdown waits: no processor runs after its worker has been closed.
NoneLeftRunning ==
    /\ phase \in {"webhooks", "did", "queues", "down"} => Active("vc") = {}
    /\ phase \in {"did", "queues", "down"} => Active("webhooks") = {}
    /\ phase \in {"queues", "down"} => Active("did") = {}

\* The queues run empty: once no more jobs are added, every job has completed or
\* failed in the end, through failures, retries, crashes and shutdowns.
JobsFinish == <>[](\A j \in Jobs : job[j].state \notin Unfinished)

\* A shutdown that has begun comes to an end.
ShutdownEnds == phase \notin {"up", "down"} ~> phase = "down"

=============================================================================
