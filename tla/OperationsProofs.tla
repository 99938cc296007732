-------------------------- MODULE OperationsProofs --------------------------
(***************************************************************************)
(* What holds of the parts that keep the platform running, for every value *)
(* of their constants: of JobQueue, then of Server, Telemetry, Vault and   *)
(* Migrations, whose invariants come before the theorems about them.       *)
(*                                                                         *)
(* The work of a queue job is counted by what makes it work again: its     *)
(* record balances what it has done against its attempts and stalls, and   *)
(* bounds those by what the failures, the retries and the crashes allow    *)
(* (Balanced).  So the runs of a job have names enough for their callbacks,*)
(* and the callback of a run is not in the queue before the run adds it    *)
(* (CallbacksAhead): what the run adds is a new job.                       *)
(***************************************************************************)
EXTENDS JobQueue, Server, Telemetry, Vault, Migrations, FiniteSetTheorems, TLAPS

Running == {"active", "orphaned"}

\* The record r of a job after re retries by hand and en ends of the process.
Balanced(r, re, en) ==
    /\ r.done <= r.attemptsMade + r.stalls + 1
    /\ r.state \notin Running \/ (r.state = "active" /\ r.step = "work")
          => r.done <= r.attemptsMade + r.stalls
    /\ r.attemptsMade <= Attempts + re
    /\ r.state \in Unfinished => r.attemptsMade < Attempts + re
    /\ r.stalls <= en
    /\ r.state = "orphaned" => r.stalls < en
    /\ r.state # "active" => r.step = "work"
    /\ r.state = "none" => r.done = 0 /\ r.attemptsMade = 0 /\ r.stalls = 0

AllBalanced == \A j \in Jobs : Balanced(job[j], retries, ends)

\* Only a job with a callback comes to the step that adds it, after its work.
OwnCallbacks ==
    \A j \in Jobs : job[j].step = "callback" => j \in WithCallback /\ job[j].done > 0

\* A callback is not in the queue before the run that makes it adds it.
CallbacksAhead ==
    \A j \in WithCallback, n \in 1 .. MaxRuns :
        n > job[j].done \/ (n = job[j].done /\ job[j].step = "callback")
        => job[<<j, n>>].state = "none"

\* A run that has returned, or is about to, has put its callback into the queue.
Finishing(j)    == job[j].state = "completed" \/ job[j].step = "return"
CallbacksQueued ==
    \A j \in WithCallback :
        Finishing(j) => job[j].done > 0 /\ job[<<j, job[j].done>>].state # "none"

Inv == TypeOK /\ AllBalanced /\ OwnCallbacks /\ NoneLeftRunning
       /\ CallbacksAhead /\ CallbacksQueued

-----------------------------------------------------------------------------
(* The jobs and their names                                                 *)

LEMMA Names ==
    /\ Credentials \subseteq Jobs /\ WithCallback \subseteq Credentials
    /\ MaxRuns \in Nat
    /\ \A j \in WithCallback, n \in 1 .. MaxRuns : <<j, n>> \in Jobs \ Credentials
    BY JobQueueAssumption DEF JobQueueAssumption, Jobs, Callbacks, MaxRuns, Credentials

\* The names of the callbacks suffice for the runs of a job.
LEMMA RunsBounded ==
    ASSUME TypeOK, AllBalanced, NEW j \in Jobs
    PROVE  job[j].done \in 0 .. MaxRuns
<1>1. job[j] \in JobRecord /\ Balanced(job[j], retries, ends)
    BY DEF TypeOK, AllBalanced
<1>2. retries \in 0 .. MaxRetries /\ ends \in 0 .. MaxEnds
    BY DEF TypeOK
<1>. QED
    BY <1>1, <1>2, JobQueueAssumption
       DEF JobRecord, Balanced, Running, Unfinished, MaxRuns, JobQueueAssumption

\* The run of j that is about to add its callback has a name for it.
LEMMA CallbackName ==
    ASSUME Inv, NEW j \in Jobs, job[j].step = "callback"
    PROVE  /\ j \in WithCallback
           /\ job[j].done \in 1 .. MaxRuns
           /\ <<j, job[j].done>> \in Jobs \ Credentials
           /\ job[<<j, job[j].done>>].state = "none"
<1>1. j \in WithCallback /\ job[j].done \in 1 .. MaxRuns
    BY RunsBounded, Names DEF Inv, OwnCallbacks
<1>. QED
    BY <1>1, Names DEF Inv, CallbacksAhead

-----------------------------------------------------------------------------
(* Types                                                                    *)

LEMMA InitHolds == Init => Inv
<1>. SUFFICES ASSUME Init PROVE Inv
    OBVIOUS
<1>1. TypeOK
    BY JobQueueAssumption DEF Init, TypeOK, JobRecord, Phases, JobQueueAssumption
<1>2. AllBalanced
    BY JobQueueAssumption DEF Init, AllBalanced, Balanced, Running, Unfinished, JobQueueAssumption
<1>3. OwnCallbacks
    BY DEF Init, OwnCallbacks
<1>4. NoneLeftRunning
    BY DEF Init, NoneLeftRunning, Active
<1>5. CallbacksAhead
    BY Names DEF Init, CallbacksAhead
<1>6. CallbacksQueued
    BY Names DEF Init, CallbacksQueued, Finishing
<1>. QED
    BY <1>1, <1>2, <1>3, <1>4, <1>5, <1>6 DEF Inv

LEMMA FailureKeepsType ==
    ASSUME NEW r \in JobRecord
    PROVE  AfterFailure(r) \in JobRecord
<1>. DEFINE s == IF r.attemptsMade + 1 < Attempts THEN "delayed" ELSE "failed"
<1>1. s \in {"delayed", "failed"}
    OBVIOUS
<1>2. AfterFailure(r) = [[[r EXCEPT !.step = "work"] EXCEPT !.attemptsMade = @ + 1]
                            EXCEPT !.state = s]
    BY Zenon DEF AfterFailure
<1>. HIDE DEF s
<1>3. [r EXCEPT !.step = "work"] \in JobRecord
    BY DEF JobRecord
<1>4. \A q \in JobRecord : [q EXCEPT !.attemptsMade = @ + 1] \in JobRecord
    BY DEF JobRecord
<1>5. \A q \in JobRecord : [q EXCEPT !.state = s] \in JobRecord
    BY <1>1 DEF JobRecord
<1>. QED
    BY <1>2, <1>3, <1>4, <1>5

LEMMA RecoveryKeepsType ==
    ASSUME NEW f \in [Jobs -> JobRecord], NEW j \in Jobs, NEW s \in {"waiting", "failed"},
           NEW g, g = [f EXCEPT ![j].stalls = @ + 1, ![j].state = s]
    PROVE  g \in [Jobs -> JobRecord]
<1>1. [f EXCEPT ![j].stalls = @ + 1] \in [Jobs -> JobRecord]
    BY DEF JobRecord
<1>2. \A h \in [Jobs -> JobRecord] : [h EXCEPT ![j].state = s] \in [Jobs -> JobRecord]
    BY DEF JobRecord
<1>. QED
    BY <1>1, <1>2

LEMMA ReceiptKeepsType ==
    ASSUME NEW r \in JobRecord, NEW n \in Nat
    PROVE  DoneMore(r, n) \in JobRecord
    BY DEF DoneMore, JobRecord

LEMMA TypeStep == TypeOK /\ [Next]_vars => TypeOK'
<1>. SUFFICES ASSUME TypeOK, [Next]_vars PROVE TypeOK'
    OBVIOUS
<1>. USE DEF TypeOK, JobRecord
<1>0. CASE UNCHANGED vars
    BY <1>0 DEF vars
<1>1. CASE Initialize
    BY <1>1 DEF Initialize, Phases
<1>2. CASE Sigterm
    BY <1>2, JobQueueAssumption DEF Sigterm, Following, Phases, JobQueueAssumption
<1>3. CASE CloseNext
    BY <1>3 DEF CloseNext, Following, Phases, Kinds
<1>4. CASE Crash
  <2>1. job' \in [Jobs -> JobRecord]
      BY <1>4 DEF Crash
  <2>2. ends' \in 0 .. MaxEnds
    <3>1. ends < MaxEnds /\ ends' = ends + 1
        BY <1>4, Zenon DEF Crash
    <3>. QED
        BY <3>1, JobQueueAssumption DEF JobQueueAssumption
  <2>. QED
      BY <1>4, <2>1, <2>2 DEF Crash, Phases
<1>5. ASSUME NEW j \in Jobs, Add(j) \/ Take(j) \/ Promote(j) \/ Complete(j)
      PROVE  TypeOK'
    BY <1>5 DEF Add, Take, Promote, Complete
<1>12. ASSUME NEW j \in Jobs, Recover(j) PROVE TypeOK'
  <2>. DEFINE s == IF job[j].stalls < MaxStalledCount THEN "waiting" ELSE "failed"
  <2>1. s \in {"waiting", "failed"}
      OBVIOUS
  <2>2. job' = [job EXCEPT ![j].stalls = @ + 1, ![j].state = s]
      BY <1>12, Zenon DEF Recover
  <2>. HIDE DEF s
  <2>4. job' \in [Jobs -> JobRecord]
      BY <2>1, <2>2, RecoveryKeepsType
  <2>. QED
      BY <1>12, <2>4 DEF Recover
<1>6. ASSUME NEW j \in Jobs, WorkOnCredential(j) PROVE TypeOK'
    BY <1>6, FailureKeepsType DEF WorkOnCredential
<1>7. ASSUME NEW j \in Jobs, SendCallback(j) PROVE TypeOK'
  <2>1. \A received \in {0, 1} :
           AfterFailure(DoneMore(job[j], received)) \in JobRecord
    <3>. HIDE DEF JobRecord
    <3>. QED
        BY FailureKeepsType, ReceiptKeepsType
  <2>2. CASE job' = [job EXCEPT ![j].done = @ + 1, ![j].step = "return"]
    <3>1. job' \in [Jobs -> JobRecord]
      <4>1. [job EXCEPT ![j].done = @ + 1] \in [Jobs -> JobRecord]
          OBVIOUS
      <4>2. \A h \in [Jobs -> JobRecord] :
               [h EXCEPT ![j].step = "return"] \in [Jobs -> JobRecord]
          OBVIOUS
      <4>. QED
          BY <2>2, <4>1, <4>2
    <3>. QED
        BY <1>7, <3>1 DEF SendCallback
  <2>3. CASE \E received \in {0, 1} :
                job' = [job EXCEPT ![j] = AfterFailure(DoneMore(job[j], received))]
    <3>1. job' \in [Jobs -> JobRecord]
      <4>. HIDE DEF JobRecord
      <4>1. PICK r \in JobRecord : job' = [job EXCEPT ![j] = r]
          BY <2>1, <2>3, Zenon
      <4>. QED
          BY <4>1
    <3>. QED
        BY <1>7, <3>1 DEF SendCallback
  <2>. QED
      BY <1>7, <2>2, <2>3 DEF SendCallback
<1>8. ASSUME NEW j \in Jobs, QueueCallback(j) PROVE TypeOK'
    BY <1>8, FailureKeepsType DEF QueueCallback
<1>9. ASSUME NEW j \in Jobs, RetryFailed(j) PROVE TypeOK'
    BY <1>9, JobQueueAssumption DEF RetryFailed, JobQueueAssumption
<1>10. ASSUME NEW j \in Jobs, Remove(j) PROVE TypeOK'
    BY <1>10 DEF Remove
<1>11. ASSUME NEW k \in Kinds, PauseOrResume(k) PROVE TypeOK'
    BY <1>11 DEF PauseOrResume
<1>. QED
    BY <1>0, <1>1, <1>2, <1>3, <1>4, <1>5, <1>6, <1>7, <1>8, <1>9, <1>10, <1>11, <1>12
       DEF Next, Process

-----------------------------------------------------------------------------
(* What a job has done against its attempts and stalls                      *)

LEMMA FailureFields ==
    ASSUME NEW r \in JobRecord
    PROVE  /\ AfterFailure(r).state \in {"delayed", "failed"}
           /\ AfterFailure(r).state = "delayed" => r.attemptsMade + 1 < Attempts
           /\ AfterFailure(r).step = "work"
           /\ AfterFailure(r).attemptsMade = r.attemptsMade + 1
           /\ AfterFailure(r).stalls = r.stalls
           /\ AfterFailure(r).done = r.done
    BY DEF AfterFailure, JobRecord

\* A failed attempt that has done its work, or part of it, stays balanced.
LEMMA FailureBalanced ==
    ASSUME NEW r \in JobRecord, r.state = "active",
           NEW re \in Nat, NEW en \in Nat, Balanced(r, re, en)
    PROVE  Balanced(AfterFailure(r), re, en)
    BY FailureFields, FailureKeepsType, JobQueueAssumption
       DEF Balanced, Running, Unfinished, JobRecord, JobQueueAssumption

\* The work of one attempt: done once more, and past the step that does it.
LEMMA WorkBalanced ==
    ASSUME NEW r \in JobRecord, r.state = "active", r.step = "work",
           NEW n \in {0, 1}, NEW re \in Nat, NEW en \in Nat, Balanced(r, re, en)
    PROVE  Balanced(AfterFailure(DoneMore(r, n)), re, en)
<1>. DEFINE q == DoneMore(r, n)
<1>1. q \in JobRecord
    BY ReceiptKeepsType
<1>2. /\ q.done = r.done + n /\ q.state = r.state /\ q.step = r.step
      /\ q.attemptsMade = r.attemptsMade /\ q.stalls = r.stalls
    BY DEF DoneMore, JobRecord
<1>. HIDE DEF q
<1>3. /\ AfterFailure(q).state \in {"delayed", "failed"}
      /\ AfterFailure(q).state = "delayed" => r.attemptsMade + 1 < Attempts
      /\ AfterFailure(q).step = "work"
      /\ AfterFailure(q).attemptsMade = r.attemptsMade + 1
      /\ AfterFailure(q).stalls = r.stalls
      /\ AfterFailure(q).done = r.done + n
    BY <1>1, <1>2, FailureFields
<1>4. /\ r.attemptsMade \in Nat /\ r.stalls \in Nat /\ r.done \in Nat
      /\ r.done <= r.attemptsMade + r.stalls /\ r.stalls <= en
      /\ r.attemptsMade < Attempts + re /\ Attempts \in Nat
    BY JobQueueAssumption DEF Balanced, JobRecord, Unfinished, JobQueueAssumption
<1>. QED
    BY <1>3, <1>4 DEF Balanced, Running, Unfinished, q

\* A step that changes one job and leaves it balanced leaves all balanced.
LEMMA OneJob ==
    ASSUME AllBalanced, NEW j \in Jobs, UNCHANGED <<retries, ends>>,
           \A i \in Jobs \ {j} : job'[i] = job[i],
           Balanced(job'[j], retries, ends)
    PROVE  AllBalanced'
    BY DEF AllBalanced

LEMMA BalancedLater ==
    ASSUME NEW r \in JobRecord, NEW re \in Nat, NEW en \in Nat, Balanced(r, re, en),
           NEW re2 \in Nat, NEW en2 \in Nat, re <= re2, en <= en2
    PROVE  Balanced(r, re2, en2)
<1>1. r.attemptsMade \in Nat /\ r.stalls \in Nat /\ Attempts \in Nat
    BY JobQueueAssumption DEF JobRecord, JobQueueAssumption
<1>2. r.attemptsMade <= Attempts + re2 /\ r.stalls <= en2
    BY <1>1 DEF Balanced
<1>3. r.state \in Unfinished => r.attemptsMade < Attempts + re2
    BY <1>1 DEF Balanced
<1>4. r.state = "orphaned" => r.stalls < en2
    BY <1>1 DEF Balanced
<1>. QED
    BY <1>2, <1>3, <1>4 DEF Balanced

\* What adding a callback c does to c and to the job j that adds it.
LEMMA CallbackEffect ==
    ASSUME Inv, NEW j \in Jobs, QueueCallback(j), NEW c, c = <<j, job[j].done>>
    PROVE  /\ c \in Jobs \ Credentials /\ c # j /\ job[c].state = "none"
           /\ j \in WithCallback /\ job[j].state = "active" /\ job[j].step = "callback"
           /\ \A k \in Jobs \ {j, c} : job'[k] = job[k]
           /\ job'[c] = job[c] \/ job'[c] = [job[c] EXCEPT !.state = "waiting"]
           /\ \/ /\ job'[j] = [job[j] EXCEPT !.step = "return"]
                 /\ job'[c] = [job[c] EXCEPT !.state = "waiting"]
              \/ job'[j] = AfterFailure(job[j])
           /\ UNCHANGED <<phase, paused, retries, ends>>
<1>1. /\ job[j].state = "active" /\ job[j].step = "callback"
      /\ UNCHANGED <<phase, paused, retries, ends>>
    BY DEF QueueCallback
<1>2. c \in Jobs \ Credentials /\ j \in WithCallback /\ c # j /\ job[c].state = "none"
    BY <1>1, CallbackName, Names
<1>3. QueuesOpen
  <2>1. KindOf(j) \in {"vc", "did"}
      BY <1>2, Names DEF KindOf, Credentials
  <2>. QED
      BY <1>1, <2>1 DEF Inv, NoneLeftRunning, Active, QueuesOpen
<1>4. \/ job' = [job EXCEPT ![j].step = "return", ![c].state = IF QueuesOpen THEN "waiting" ELSE @]
      \/ job' = [job EXCEPT ![j] = AfterFailure(job[j])]
      \/ job' = [job EXCEPT ![j] = AfterFailure(job[j]), ![c].state = "waiting"]
    BY DEF QueueCallback
<1>5. CASE job' = [job EXCEPT ![j].step = "return", ![c].state = IF QueuesOpen THEN "waiting" ELSE @]
  <2>1. job' = [job EXCEPT ![j].step = "return", ![c].state = "waiting"]
      BY <1>3, <1>5
  <2>. QED
      BY <2>1, <1>1, <1>2 DEF Inv, TypeOK
<1>6. CASE job' = [job EXCEPT ![j] = AfterFailure(job[j])]
    BY <1>6, <1>1, <1>2 DEF Inv, TypeOK
<1>7. CASE job' = [job EXCEPT ![j] = AfterFailure(job[j]), ![c].state = "waiting"]
    BY <1>7, <1>1, <1>2 DEF Inv, TypeOK
<1>. QED
    BY <1>4, <1>5, <1>6, <1>7

LEMMA BalancedStep == Inv /\ TypeOK' /\ [Next]_vars => AllBalanced'
<1>. SUFFICES ASSUME Inv, TypeOK', [Next]_vars PROVE AllBalanced'
    OBVIOUS
<1>. TypeOK /\ AllBalanced
    BY DEF Inv
<1>a. /\ retries \in Nat /\ ends \in Nat /\ retries' \in Nat /\ ends' \in Nat
      /\ \A j \in Jobs : job[j] \in JobRecord /\ job'[j] \in JobRecord
    BY JobQueueAssumption DEF TypeOK, JobQueueAssumption
<1>b. \A j \in Jobs : Balanced(job[j], retries, ends)
    BY DEF AllBalanced
<1>0. CASE UNCHANGED <<job, retries, ends>>
    BY <1>0 DEF AllBalanced
<1>1. CASE Sigterm
    BY <1>1, <1>a, <1>b, BalancedLater DEF Sigterm, AllBalanced
<1>2. CASE Crash
  <2>. SUFFICES ASSUME NEW j \in Jobs PROVE Balanced(job'[j], retries', ends')
      BY DEF AllBalanced
  <2>1. ends' = ends + 1 /\ retries' = retries
      BY <1>2 DEF Crash
  <2>2. CASE job[j].state # "active"
    <3>1. job'[j] = job[j]
        BY <1>2, <2>2 DEF Crash
    <3>. QED
        BY <2>1, <3>1, <1>a, <1>b, BalancedLater
  <2>3. CASE job[j].state = "active"
    <3>1. job'[j] = [job[j] EXCEPT !.state = "orphaned", !.step = "work"]
        BY <1>2, <2>3 DEF Crash
    <3>2. /\ job'[j].state = "orphaned" /\ job'[j].step = "work"
          /\ job'[j].attemptsMade = job[j].attemptsMade
          /\ job'[j].stalls = job[j].stalls /\ job'[j].done = job[j].done
        BY <3>1, <1>a DEF JobRecord
    <3>. QED
        BY <2>1, <2>3, <3>2, <1>a, <1>b DEF Balanced, Running, Unfinished, JobRecord
  <2>. QED
      BY <2>2, <2>3
<1>3. ASSUME NEW j \in Jobs, Add(j) \/ Take(j) \/ Promote(j) \/ Remove(j) \/ Complete(j)
      PROVE  AllBalanced'
  <2>1. UNCHANGED <<retries, ends>> /\ \A i \in Jobs \ {j} : job'[i] = job[i]
      BY <1>3 DEF Add, Take, Promote, Remove, Complete, TypeOK
  <2>2. job'[j].stalls = job[j].stalls /\ job'[j].done = job[j].done
      BY <1>3, <1>a DEF Add, Take, Promote, Remove, Complete, TypeOK, JobRecord
  <2>3. Balanced(job'[j], retries, ends)
    <3>1. CASE Add(j)
      <4>1. /\ job[j].state = "none" /\ job'[j].state = "waiting"
            /\ job'[j].step = job[j].step /\ job'[j].attemptsMade = job[j].attemptsMade
          BY <3>1, <1>a DEF Add, TypeOK, JobRecord
      <4>. QED
          BY <4>1, <2>2, <1>a, <1>b, JobQueueAssumption
             DEF Balanced, Running, Unfinished, JobRecord, JobQueueAssumption
    <3>2. CASE Take(j)
      <4>1. /\ job[j].state = "waiting" /\ job'[j].state = "active"
            /\ job'[j].step = job[j].step /\ job'[j].attemptsMade = job[j].attemptsMade
          BY <3>2, <1>a DEF Take, TypeOK, JobRecord
      <4>. QED
          BY <4>1, <2>2, <1>a, <1>b DEF Balanced, Running, Unfinished, JobRecord
    <3>3. CASE Promote(j)
      <4>1. /\ job[j].state = "delayed" /\ job'[j].state = "waiting"
            /\ job'[j].step = job[j].step /\ job'[j].attemptsMade = job[j].attemptsMade
          BY <3>3, <1>a DEF Promote, TypeOK, JobRecord
      <4>. QED
          BY <4>1, <2>2, <1>a, <1>b DEF Balanced, Running, Unfinished, JobRecord
    <3>4. CASE Remove(j)
      <4>1. /\ job[j].state \notin Running \cup {"none"} /\ job'[j].state = "removed"
            /\ job'[j].step = job[j].step /\ job'[j].attemptsMade = job[j].attemptsMade
          BY <3>4, <1>a DEF Remove, Running, TypeOK, JobRecord
      <4>. QED
          BY <4>1, <2>2, <1>a, <1>b DEF Balanced, Running, Unfinished, JobRecord
    <3>5. CASE Complete(j)
      <4>1. /\ job[j].state = "active" /\ job'[j].state = "completed"
            /\ job'[j].step = "work" /\ job'[j].attemptsMade = job[j].attemptsMade + 1
          BY <3>5, <1>a DEF Complete, TypeOK, JobRecord
      <4>2. job[j].attemptsMade < Attempts + retries
          BY <4>1, <1>b DEF Balanced, Unfinished
      <4>. QED
          BY <4>1, <4>2, <2>2, <1>a, <1>b, JobQueueAssumption
             DEF Balanced, Running, Unfinished, JobRecord, JobQueueAssumption
    <3>. QED
        BY <1>3, <3>1, <3>2, <3>3, <3>4, <3>5
  <2>. QED
      BY <2>1, <2>3, OneJob
<1>4. ASSUME NEW j \in Jobs, Recover(j) PROVE AllBalanced'
  <2>. DEFINE s == IF job[j].stalls < MaxStalledCount THEN "waiting" ELSE "failed"
  <2>1. s \in {"waiting", "failed"}
      OBVIOUS
  <2>2. job' = [job EXCEPT ![j].stalls = @ + 1, ![j].state = s]
      BY <1>4, Zenon DEF Recover
  <2>. HIDE DEF s
  <2>3. \A i \in Jobs \ {j} : job'[i] = job[i]
      BY <2>2 DEF TypeOK
  <2>4. /\ job[j].state = "orphaned" /\ job'[j].state = s
        /\ job'[j].step = job[j].step /\ job'[j].attemptsMade = job[j].attemptsMade
        /\ job'[j].stalls = job[j].stalls + 1 /\ job'[j].done = job[j].done
      BY <1>4, <2>2, <1>a DEF Recover, TypeOK, JobRecord
  <2>5. Balanced(job'[j], retries, ends)
      BY <2>1, <2>4, <1>a, <1>b DEF Balanced, Running, Unfinished, JobRecord
  <2>6. UNCHANGED <<retries, ends>>
      BY <1>4 DEF Recover
  <2>. QED
      BY <2>3, <2>5, <2>6, OneJob
<1>5. ASSUME NEW j \in Jobs, WorkOnCredential(j) PROVE AllBalanced'
  <2>1. UNCHANGED <<retries, ends>> /\ \A i \in Jobs \ {j} : job'[i] = job[i]
      BY <1>5 DEF WorkOnCredential, TypeOK
  <2>2. job[j].state = "active" /\ job[j].step = "work"
      BY <1>5 DEF WorkOnCredential
  <2>3. CASE job' = [job EXCEPT ![j].done = @ + 1,
                                ![j].step = IF j \in WithCallback THEN "callback" ELSE "return"]
    <3>1. /\ job'[j].state = "active" /\ job'[j].step # "work"
          /\ job'[j].attemptsMade = job[j].attemptsMade
          /\ job'[j].stalls = job[j].stalls /\ job'[j].done = job[j].done + 1
        BY <2>2, <2>3, <1>a DEF TypeOK, JobRecord
    <3>2. Balanced(job'[j], retries, ends)
        BY <2>2, <3>1, <1>a, <1>b DEF Balanced, Running, Unfinished, JobRecord
    <3>. QED
        BY <2>1, <3>2, OneJob
  <2>4. CASE job' = [job EXCEPT ![j] = AfterFailure(@)]
    <3>1. job'[j] = AfterFailure(job[j])
        BY <2>4 DEF TypeOK
    <3>. QED
        BY <2>1, <2>2, <3>1, <1>a, <1>b, OneJob, FailureBalanced
  <2>. QED
      BY <1>5, <2>3, <2>4 DEF WorkOnCredential
<1>6. ASSUME NEW j \in Jobs, SendCallback(j) PROVE AllBalanced'
  <2>1. UNCHANGED <<retries, ends>> /\ \A i \in Jobs \ {j} : job'[i] = job[i]
      BY <1>6 DEF SendCallback, TypeOK
  <2>2. job[j].state = "active" /\ job[j].step = "work"
      BY <1>6 DEF SendCallback
  <2>3. CASE job' = [job EXCEPT ![j].done = @ + 1, ![j].step = "return"]
    <3>1. /\ job'[j].state = "active" /\ job'[j].step = "return"
          /\ job'[j].attemptsMade = job[j].attemptsMade
          /\ job'[j].stalls = job[j].stalls /\ job'[j].done = job[j].done + 1
        BY <2>2, <2>3, <1>a DEF TypeOK, JobRecord
    <3>2. Balanced(job'[j], retries, ends)
        BY <2>2, <3>1, <1>a, <1>b DEF Balanced, Running, Unfinished, JobRecord
    <3>. QED
        BY <2>1, <3>2, OneJob
  <2>4. CASE \E received \in {0, 1} :
                job' = [job EXCEPT ![j] = AfterFailure(DoneMore(job[j], received))]
    <3>1. PICK n \in {0, 1} : job' = [job EXCEPT ![j] = AfterFailure(DoneMore(job[j], n))]
        BY <2>4
    <3>2. job'[j] = AfterFailure(DoneMore(job[j], n))
        BY <3>1 DEF TypeOK
    <3>3. Balanced(job'[j], retries, ends)
        BY <2>2, <3>2, <1>a, <1>b, WorkBalanced
    <3>. QED
        BY <2>1, <3>3, OneJob
  <2>. QED
      BY <1>6, <2>3, <2>4 DEF SendCallback
<1>8. ASSUME NEW j \in Jobs, RetryFailed(j) PROVE AllBalanced'
  <2>. SUFFICES ASSUME NEW i \in Jobs PROVE Balanced(job'[i], retries', ends')
      BY DEF AllBalanced
  <2>1. retries' = retries + 1 /\ ends' = ends
      BY <1>8 DEF RetryFailed
  <2>2. CASE i # j
    <3>1. job'[i] = job[i]
        BY <1>8, <2>2 DEF RetryFailed, TypeOK
    <3>. QED
        BY <2>1, <3>1, <1>a, <1>b, BalancedLater
  <2>3. CASE i = j
    <3>1. /\ job[j].state = "failed" /\ job'[j].state = "waiting"
          /\ job'[j].step = job[j].step /\ job'[j].attemptsMade = job[j].attemptsMade
          /\ job'[j].stalls = job[j].stalls /\ job'[j].done = job[j].done
        BY <1>8, <1>a DEF RetryFailed, TypeOK, JobRecord
    <3>. QED
        BY <2>1, <2>3, <3>1, <1>a, <1>b, JobQueueAssumption
           DEF Balanced, Running, Unfinished, JobRecord, JobQueueAssumption
  <2>. QED
      BY <2>2, <2>3
<1>7. ASSUME NEW j \in Jobs, QueueCallback(j) PROVE AllBalanced'
  <2>. DEFINE c == <<j, job[j].done>>
  <2>. SUFFICES ASSUME NEW i \in Jobs PROVE Balanced(job'[i], retries', ends')
      BY DEF AllBalanced
  <2>1. UNCHANGED <<retries, ends>> /\ job[j].state = "active" /\ job[j].step = "callback"
      BY <1>7 DEF QueueCallback
  <2>2. c \in Jobs /\ c # j /\ job[c].state = "none"
      BY <1>7, CallbackEffect
  <2>3. job'[c] = job[c] \/ job'[c] = [job[c] EXCEPT !.state = "waiting"]
      BY <1>7, CallbackEffect
  <2>4. job'[j] = [job[j] EXCEPT !.step = "return"] \/ job'[j] = AfterFailure(job[j])
      BY <1>7, CallbackEffect
  <2>5. \A k \in Jobs \ {j, c} : job'[k] = job[k]
      BY <1>7, CallbackEffect
  <2>. HIDE DEF c
  <2>6. CASE i = c
    <3>1. /\ job'[c].state \in {"none", "waiting"} /\ job'[c].step = job[c].step
          /\ job'[c].attemptsMade = job[c].attemptsMade
          /\ job'[c].stalls = job[c].stalls /\ job'[c].done = job[c].done
        BY <2>2, <2>3, <1>a DEF JobRecord
    <3>. QED
        BY <2>1, <2>2, <2>6, <3>1, <1>a, <1>b, JobQueueAssumption
           DEF Balanced, Running, Unfinished, JobRecord, JobQueueAssumption
  <2>7. CASE i = j
    <3>1. CASE job'[j] = [job[j] EXCEPT !.step = "return"]
      <4>1. /\ job'[j].state = "active" /\ job'[j].step = "return"
            /\ job'[j].attemptsMade = job[j].attemptsMade
            /\ job'[j].stalls = job[j].stalls /\ job'[j].done = job[j].done
          BY <2>1, <3>1, <1>a DEF JobRecord
      <4>. QED
          BY <2>1, <2>7, <4>1, <1>a, <1>b DEF Balanced, Running, Unfinished, JobRecord
    <3>. QED
        BY <2>1, <2>4, <2>7, <3>1, <1>a, <1>b, FailureBalanced
  <2>. QED
      BY <2>1, <2>5, <2>6, <2>7, <1>b
<1>. QED
  <2>1. ASSUME Initialize \/ CloseNext \/ (\E k \in Kinds : PauseOrResume(k)) \/ UNCHANGED vars
        PROVE  UNCHANGED <<job, retries, ends>>
      BY <2>1 DEF Initialize, CloseNext, PauseOrResume, vars
  <2>. QED
      BY <1>0, <1>1, <1>2, <1>3, <1>4, <1>5, <1>6, <1>7, <1>8, <2>1 DEF Next, Process

-----------------------------------------------------------------------------
(* What a step does to one job                                              *)

EntersQueue(i) ==
    /\ job[i].state = "none" /\ job'[i].state = "waiting"
    /\ job'[i].step = job[i].step /\ job'[i].done = job[i].done
    /\ \/ i \in Credentials
       \/ \E j \in WithCallback :
             /\ i = <<j, job[j].done>>
             /\ job'[j].done = job[j].done /\ job'[j].step # "callback"

Worked(i) ==
    /\ job[i].state = "active" /\ job[i].step = "work" /\ job'[i].state = "active"
    /\ job'[i].done = job[i].done + 1
    /\ job'[i].step = IF i \in WithCallback THEN "callback" ELSE "return"

Queued(i) ==
    /\ i \in WithCallback /\ job[i].step = "callback" /\ job[i].state = "active"
    /\ job'[i].state = "active" /\ job'[i].step = "return" /\ job'[i].done = job[i].done
    /\ job'[<<i, job[i].done>>].state = "waiting"

\* Taken, ended, put back or removed: the job is not in the middle of a run.
Moved(i) ==
    /\ job[i].state # "none" /\ job'[i].state # "none" /\ job'[i].step = "work"
    /\ i \in WithCallback => job'[i].done = job[i].done
    /\ job'[i].state = "completed" => job[i].step = "return"
    /\ job'[i].state = "active" => Taking(KindOf(i)) /\ phase' = phase

LEMMA Effects ==
    ASSUME Inv, TypeOK', [Next]_vars, NEW i \in Jobs
    PROVE  job'[i] = job[i] \/ EntersQueue(i) \/ Worked(i) \/ Queued(i) \/ Moved(i)
<1>. TypeOK
    BY DEF Inv
<1>a. \A j \in Jobs : job[j] \in JobRecord /\ job'[j] \in JobRecord
    BY DEF TypeOK
<1>b. \A j \in Jobs : job[j].state # "active" => job[j].step = "work"
    BY DEF Inv, AllBalanced, Balanced
<1>c. \A j \in Callbacks : j \notin WithCallback
    BY JobQueueAssumption DEF JobQueueAssumption
<1>1. CASE Initialize \/ Sigterm \/ CloseNext \/ (\E k \in Kinds : PauseOrResume(k))
           \/ UNCHANGED vars
    BY <1>1 DEF Initialize, Sigterm, CloseNext, PauseOrResume, vars
<1>2. CASE Crash
    BY <1>2, <1>a DEF Crash, Moved, JobRecord
<1>3. ASSUME NEW j \in Jobs, Add(j)
      PROVE  job'[i] = job[i] \/ EntersQueue(i)
    BY <1>3, <1>a DEF Add, EntersQueue, TypeOK, JobRecord
<1>4. ASSUME NEW j \in Jobs, Take(j)
      PROVE  job'[i] = job[i] \/ Moved(i)
    BY <1>4, <1>a, <1>b DEF Take, Moved, TypeOK, JobRecord
<1>5. ASSUME NEW j \in Jobs, Promote(j) \/ Remove(j)
      PROVE  job'[i] = job[i] \/ Moved(i)
    BY <1>5, <1>a, <1>b DEF Promote, Remove, Moved, TypeOK, JobRecord
<1>6. ASSUME NEW j \in Jobs, RetryFailed(j)
      PROVE  job'[i] = job[i] \/ Moved(i)
    BY <1>6, <1>a, <1>b DEF RetryFailed, Moved, TypeOK, JobRecord
<1>7. ASSUME NEW j \in Jobs, Complete(j)
      PROVE  job'[i] = job[i] \/ Moved(i)
    BY <1>7, <1>a DEF Complete, Moved, TypeOK, JobRecord
<1>8. ASSUME NEW j \in Jobs, Recover(j)
      PROVE  job'[i] = job[i] \/ Moved(i)
  <2>. DEFINE s == IF job[j].stalls < MaxStalledCount THEN "waiting" ELSE "failed"
  <2>1. s \in {"waiting", "failed"}
      OBVIOUS
  <2>2. job' = [job EXCEPT ![j].stalls = @ + 1, ![j].state = s] /\ job[j].state = "orphaned"
      BY <1>8, Zenon DEF Recover
  <2>. HIDE DEF s
  <2>. QED
      BY <2>1, <2>2, <1>a, <1>b DEF Moved, TypeOK, JobRecord
<1>9. ASSUME NEW j \in Jobs, WorkOnCredential(j)
      PROVE  job'[i] = job[i] \/ Worked(i) \/ Moved(i)
  <2>1. job[j].state = "active" /\ job[j].step = "work"
      BY <1>9 DEF WorkOnCredential
  <2>2. CASE job' = [job EXCEPT ![j].done = @ + 1,
                                ![j].step = IF j \in WithCallback THEN "callback" ELSE "return"]
      BY <2>1, <2>2, <1>a DEF Worked, TypeOK, JobRecord
  <2>3. CASE job' = [job EXCEPT ![j] = AfterFailure(@)]
      BY <2>1, <2>3, <1>a, FailureFields DEF Moved, TypeOK
  <2>. QED
      BY <1>9, <2>2, <2>3 DEF WorkOnCredential
<1>10. ASSUME NEW j \in Jobs, SendCallback(j)
       PROVE  job'[i] = job[i] \/ Worked(i) \/ Moved(i)
  <2>1. job[j].state = "active" /\ job[j].step = "work" /\ j \in Callbacks
      BY <1>10 DEF SendCallback
  <2>2. CASE job' = [job EXCEPT ![j].done = @ + 1, ![j].step = "return"]
      BY <2>1, <2>2, <1>a, <1>c DEF Worked, TypeOK, JobRecord
  <2>3. CASE \E received \in {0, 1} :
                job' = [job EXCEPT ![j] = AfterFailure(DoneMore(job[j], received))]
    <3>1. PICK n \in {0, 1} : job' = [job EXCEPT ![j] = AfterFailure(DoneMore(job[j], n))]
        BY <2>3
    <3>2. DoneMore(job[j], n) \in JobRecord
        BY <1>a, ReceiptKeepsType
    <3>. QED
        BY <2>1, <3>1, <3>2, <1>c, FailureFields DEF Moved, TypeOK
  <2>. QED
      BY <1>10, <2>2, <2>3 DEF SendCallback
<1>11. ASSUME NEW j \in Jobs, QueueCallback(j)
       PROVE  job'[i] = job[i] \/ EntersQueue(i) \/ Queued(i) \/ Moved(i)
  <2>. DEFINE c == <<j, job[j].done>>
  <2>1. /\ c \in Jobs \ Credentials /\ c # j /\ job[c].state = "none"
        /\ j \in WithCallback /\ job[j].state = "active" /\ job[j].step = "callback"
        /\ \A k \in Jobs \ {j, c} : job'[k] = job[k]
      BY <1>11, CallbackEffect
  <2>2. job'[c] = job[c] \/ job'[c] = [job[c] EXCEPT !.state = "waiting"]
      BY <1>11, CallbackEffect
  <2>3. \/ /\ job'[j] = [job[j] EXCEPT !.step = "return"]
           /\ job'[c] = [job[c] EXCEPT !.state = "waiting"]
        \/ job'[j] = AfterFailure(job[j])
      BY <1>11, CallbackEffect
  <2>4. /\ job'[j].done = job[j].done /\ job'[j].step # "callback"
        /\ \/ job'[j].step = "return" /\ job'[j].state = "active" /\ job'[c].state = "waiting"
           \/ job'[j].step = "work" /\ job'[j].state \in {"delayed", "failed"}
      BY <2>1, <2>3, <1>a, FailureFields DEF JobRecord
  <2>5. CASE i = c
    <3>1. CASE job'[c] = [job[c] EXCEPT !.state = "waiting"]
      <4>1. job'[c].state = "waiting" /\ job'[c].step = job[c].step /\ job'[c].done = job[c].done
          BY <3>1, <2>1, <1>a DEF JobRecord
      <4>. QED
          BY <2>1, <2>4, <2>5, <4>1 DEF EntersQueue
    <3>. QED
        BY <2>2, <2>5, <3>1
  <2>6. CASE i = j
      BY <2>1, <2>4, <2>6 DEF Queued, Moved
  <2>. QED
      BY <2>1, <2>5, <2>6
<1>. QED
    BY <1>1, <1>2, <1>3, <1>4, <1>5, <1>6, <1>7, <1>8, <1>9, <1>10, <1>11 DEF Next, Process

-----------------------------------------------------------------------------
(* The callbacks and the shutdown                                           *)

LEMMA OwnCallbacksStep == Inv /\ TypeOK' /\ [Next]_vars => OwnCallbacks'
<1>. SUFFICES ASSUME Inv, TypeOK', [Next]_vars, NEW i \in Jobs, job'[i].step = "callback"
              PROVE  i \in WithCallback /\ job'[i].done > 0
    BY DEF OwnCallbacks
<1>1. job[i] \in JobRecord
    BY DEF Inv, TypeOK
<1>2. CASE job'[i] = job[i] \/ EntersQueue(i)
    BY <1>2 DEF Inv, OwnCallbacks, EntersQueue
<1>3. CASE Worked(i)
    BY <1>1, <1>3 DEF Worked, JobRecord
<1>4. CASE Queued(i) \/ Moved(i)
    BY <1>4 DEF Queued, Moved
<1>. QED
    BY <1>2, <1>3, <1>4, Effects

LEMMA CallbacksAheadStep == Inv /\ TypeOK' /\ [Next]_vars => CallbacksAhead'
<1>. SUFFICES ASSUME Inv, TypeOK', [Next]_vars, NEW j \in WithCallback, NEW n \in 1 .. MaxRuns,
                     n > job'[j].done \/ (n = job'[j].done /\ job'[j].step = "callback")
              PROVE  job'[<<j, n>>].state = "none"
    BY Zenon DEF CallbacksAhead
<1>. DEFINE c == <<j, n>>
<1>1. j \in Jobs /\ c \in Jobs \ Credentials
    BY Names
<1>2. job[j].done \in Nat
    BY <1>1 DEF Inv, TypeOK, JobRecord
<1>3. n > job[j].done \/ (n = job[j].done /\ job[j].step = "callback")
  <2>1. CASE job'[j] = job[j] \/ EntersQueue(j)
      BY <2>1 DEF EntersQueue
  <2>2. CASE Worked(j)
    <3>1. job'[j].done = job[j].done + 1
        BY <2>2 DEF Worked
    <3>. QED
        BY <1>2, <3>1
  <2>3. CASE Queued(j) \/ Moved(j)
      BY <2>3 DEF Queued, Moved
  <2>. QED
      BY <1>1, <2>1, <2>2, <2>3, Effects
<1>4. job[c].state = "none"
    BY <1>3 DEF Inv, CallbacksAhead
<1>5. ~EntersQueue(c)
  <2>. SUFFICES ASSUME EntersQueue(c) PROVE FALSE
      OBVIOUS
  <2>1. PICK k \in WithCallback : /\ c = <<k, job[k].done>>
                                  /\ job'[k].done = job[k].done /\ job'[k].step # "callback"
      BY <1>1 DEF EntersQueue
  <2>2. k = j /\ n = job[j].done
      BY <2>1
  <2>. QED
      BY <1>2, <2>1, <2>2
<1>6. job'[c] = job[c]
    BY <1>1, <1>4, <1>5, Effects DEF Worked, Queued, Moved
<1>. QED
    BY <1>4, <1>6

LEMMA CallbacksQueuedStep == Inv /\ TypeOK' /\ [Next]_vars => CallbacksQueued'
<1>. SUFFICES ASSUME Inv, TypeOK', [Next]_vars, NEW j \in WithCallback, Finishing(j)'
              PROVE  job'[j].done > 0 /\ job'[<<j, job'[j].done>>].state # "none"
    BY DEF CallbacksQueued
<1>1. j \in Jobs /\ job[j].done \in 0 .. MaxRuns /\ MaxRuns \in Nat
    BY Names, RunsBounded DEF Inv
<1>2. \A c \in Jobs : job[c].state # "none" => job'[c].state # "none"
    BY Effects DEF EntersQueue, Worked, Queued, Moved
<1>3. CASE Finishing(j) /\ job'[j].done = job[j].done
  <2>1. job[j].done > 0 /\ job[<<j, job[j].done>>].state # "none"
      BY <1>3 DEF Inv, CallbacksQueued
  <2>2. <<j, job[j].done>> \in Jobs
      BY <1>1, <2>1, Names
  <2>. QED
      BY <1>2, <1>3, <2>1, <2>2
<1>4. CASE Queued(j)
  <2>1. job[j].done > 0
      BY <1>1, <1>4 DEF Queued, Inv, OwnCallbacks
  <2>. QED
      BY <1>4, <2>1 DEF Queued
<1>5. CASE job'[j] = job[j]
    BY <1>3, <1>5 DEF Finishing
<1>6. CASE EntersQueue(j)
  <2>1. job'[j].step = job[j].step /\ job'[j].state = "waiting" /\ job'[j].done = job[j].done
      BY <1>6 DEF EntersQueue
  <2>. QED
      BY <1>3, <2>1 DEF Finishing
<1>7. CASE Worked(j)
    BY <1>7 DEF Worked, Finishing
<1>8. CASE Moved(j)
    BY <1>3, <1>8 DEF Moved, Finishing
<1>. QED
    BY <1>1, <1>4, <1>5, <1>6, <1>7, <1>8, Effects

LEMMA NoneLeftStep == Inv /\ TypeOK' /\ [Next]_vars => NoneLeftRunning'
<1>. SUFFICES ASSUME Inv, TypeOK', [Next]_vars PROVE NoneLeftRunning'
    OBVIOUS
<1>1. ASSUME NEW i \in Jobs, job'[i].state = "active"
      PROVE  job[i].state = "active" \/ (Taking(KindOf(i)) /\ phase' = phase)
    BY <1>1, Effects DEF EntersQueue, Worked, Queued, Moved
<1>2. ASSUME NEW k \in Kinds
      PROVE  Active(k)' \subseteq Active(k) \/ (Taking(k) /\ phase' = phase)
    BY <1>1 DEF Active
<1>3. CASE phase' = phase
  <2>1. /\ Active("vc")' \subseteq Active("vc") \/ phase = "up"
        /\ Active("webhooks")' \subseteq Active("webhooks") \/ phase \in {"up", "vc"}
        /\ Active("did")' \subseteq Active("did") \/ phase \in {"up", "vc", "webhooks"}
      BY <1>2 DEF Taking, Kinds
  <2>. QED
      BY <1>3, <2>1 DEF Inv, NoneLeftRunning
<1>4. CASE phase' \in {"up", "vc"}
    BY <1>4 DEF NoneLeftRunning
<1>5. CASE CloseNext
  <2>1. /\ phase \in Kinds => Active(phase) = {}
        /\ \A k \in Kinds : Active(k)' = Active(k)
        /\ phase \in Kinds \cup {"queues"} /\ phase' = Following[phase]
      BY <1>5, Zenon DEF CloseNext, Closed, Active
  <2>. QED
      BY <2>1 DEF Inv, NoneLeftRunning, Following, Kinds
<1>6. CASE Crash
  <2>1. \A j \in Jobs : job'[j].state # "active"
    <3>. SUFFICES ASSUME NEW j \in Jobs PROVE job'[j].state # "active"
        OBVIOUS
    <3>1. job[j] \in JobRecord
        BY DEF Inv, TypeOK
    <3>. QED
        BY <1>6, <3>1 DEF Crash, JobRecord
  <2>. QED
      BY <2>1 DEF NoneLeftRunning, Active
<1>7. phase' = phase \/ phase' \in {"up", "vc"} \/ CloseNext \/ Crash
  <2>1. CASE Initialize \/ Sigterm
      BY <2>1 DEF Initialize, Sigterm, Following
  <2>2. ASSUME NEW j \in Jobs,
               \/ Add(j) \/ Take(j) \/ Promote(j) \/ Recover(j) \/ Process(j)
               \/ RetryFailed(j) \/ Remove(j)
        PROVE  phase' = phase
      BY <2>2, Zenon DEF Process, Add, Take, Promote, Recover, WorkOnCredential, SendCallback,
                         QueueCallback, Complete, RetryFailed, Remove
  <2>3. CASE (\E k \in Kinds : PauseOrResume(k)) \/ UNCHANGED vars
      BY <2>3 DEF PauseOrResume, vars
  <2>. QED
      BY <2>1, <2>2, <2>3, Zenon DEF Next
<1>. QED
    BY <1>3, <1>4, <1>5, <1>6, <1>7

-----------------------------------------------------------------------------
(* Theorems                                                                 *)

THEOREM Invariance == Spec => []Inv
<1>1. Inv /\ [Next]_vars => Inv'
  <2>. SUFFICES ASSUME Inv, [Next]_vars PROVE Inv'
      OBVIOUS
  <2>1. TypeOK'
      BY TypeStep DEF Inv
  <2>. QED
      BY <2>1, BalancedStep, OwnCallbacksStep, NoneLeftStep, CallbacksAheadStep, CallbacksQueuedStep
         DEF Inv
<1>. QED
    BY <1>1, InitHolds, PTL DEF Spec

\* The jobs, the process and the bounds keep their types.
THEOREM QueueTypeCorrect == Spec => []TypeOK
    BY Invariance, PTL DEF Inv

\* However often a job is retried, found stalled or cut off by a crash, what it
\* does again it does for an attempt or a stall that is counted: the processors
\* are run no more often than BullMQ says they were.
THEOREM WorkIsCounted == Spec => []WorkPerAttempt
<1>1. Inv => WorkPerAttempt
  <2>. SUFFICES ASSUME Inv, NEW j \in Jobs
                PROVE  job[j].done <= job[j].attemptsMade + job[j].stalls
                                      + IF job[j].state \in {"active", "orphaned"} THEN 1 ELSE 0
      BY DEF WorkPerAttempt
  <2>1. job[j] \in JobRecord /\ Balanced(job[j], retries, ends)
      BY DEF Inv, TypeOK, AllBalanced
  <2>. QED
      BY <2>1 DEF Balanced, Running, JobRecord
<1>. QED
    BY <1>1, Invariance, PTL

\* A job that has completed has its callback in the webhooks queue, in whatever
\* order the workers and queues are closed or killed, because the worker of a
\* job that queues callbacks is closed before the queues.
THEOREM CompletedHaveCalledBack == Spec => []CompletedCallsBack
<1>1. Inv => CompletedCallsBack
    BY DEF Inv, CallbacksQueued, Finishing, CompletedCallsBack
<1>. QED
    BY <1>1, Invariance, PTL

\* No processor runs after its worker has been closed.
THEOREM ShutdownWaits == Spec => []NoneLeftRunning
    BY Invariance, PTL DEF Inv

-----------------------------------------------------------------------------
(* Stopping the process                                                     *)

\* The record of every request has its four fields.
HttpRecords ==
    /\ http = [r \in HttpRequests |-> http[r]]
    /\ \A r \in HttpRequests :
        http[r] = [left |-> http[r].left, status |-> http[r].status,
                   input |-> http[r].input, begun |-> http[r].begun]

\* What each signal handler has waited for.
StopOrder ==
    /\ stop \in [Deliveries -> {"none", "close", "queues", "pool"}]
    /\ \A d \in Deliveries :
        /\ stop[d] # "none" => httpServer \in {"closing", "closed"}
        /\ stop[d] \in {"queues", "pool"} => httpServer = "closed"
        /\ boot = "up" /\ stop[d] \in {"queues", "pool"} => jobQueues \in {"closing", "shut"}

\* Requests are handled before the server has closed, jobs run before the queues are shut, and
\* the pool ends after both.
ClosingOrder ==
    /\ running.now \in Nat /\ running = [now |-> running.now, taken |-> running.taken]
    /\ running.now > 0 => jobQueues \in {"open", "closing"}
    /\ \A r \in HttpRequests : InFlight(r) => httpServer \in {"listening", "closing"}
    /\ jobQueues \in {"closing", "shut"} => httpServer = "closed"
    /\ boot \in {"config", "redis", "queues", "factory"} => jobQueues = "none"
    /\ boot \notin {"config", "redis", "queues", "factory"} => jobQueues # "none"
    /\ jobQueues \in {"none", "open", "closing", "shut"}
    /\ httpServer \in {"new", "listening", "closing", "closed"}
    /\ dbPool # "open" => httpServer = "closed"
    /\ boot = "up" /\ dbPool # "open" => jobQueues = "shut"

\* Whoever has ended the process found nothing in progress.
LeftIdle ==
    boot = "up" /\ exitCode \notin {Alive, -1} =>
        running.now = 0 /\ \A r \in HttpRequests : ~InFlight(r)

ServerInv == HttpRecords /\ StopOrder /\ ClosingOrder /\ LeftIdle

LEMMA ServerInvInit == ServerInit => ServerInv
<1>1. ~NoRequest.begun /\ NoRequest = [left |-> NoRequest.left, status |-> NoRequest.status,
                                      input |-> NoRequest.input, begun |-> NoRequest.begun]
    BY DEF NoRequest
<1>. QED
    BY <1>1 DEF ServerInit, ServerInv, HttpRecords, StopOrder, ClosingOrder, LeftIdle, InFlight, Alive

\* A step of a request ends it or leaves it where it is, and changes no other.
LEMMA RequestSteps ==
    ASSUME HttpRecords, NEW r \in HttpRequests, RunHook(r) \/ Handle(r)
    PROVE  /\ HttpRecords'
           /\ \A q \in HttpRequests : InFlight(q)' => InFlight(q)
           /\ UNCHANGED <<boot, httpServer, jobQueues, dbPool, stop, running, exitCode>>
<1>1. ASSUME NEW status, Reply(r, status), InFlight(r)
      PROVE  HttpRecords' /\ \A q \in HttpRequests : InFlight(q)' => InFlight(q)
    BY <1>1 DEF Reply, InFlight, HttpRecords
<1>2. ASSUME NEW input, Pass(r, input), InFlight(r)
      PROVE  HttpRecords' /\ \A q \in HttpRequests : InFlight(q)' => InFlight(q)
    BY <1>2 DEF Pass, InFlight, HttpRecords
<1>3. CASE RunHook(r)
    <2>1. InFlight(r)
        BY <1>3 DEF RunHook
    <2>2. (\E status : Reply(r, status)) \/ (\E input : Pass(r, input))
        BY <1>3, Zenon DEF RunHook
    <2>. QED
        BY <2>1, <2>2, <1>1, <1>2 DEF Reply, Pass
<1>4. CASE Handle(r)
    BY <1>4, <1>1 DEF Handle, Reply
<1>. QED
    BY <1>3, <1>4

LEMMA ServerInvStep == ServerInv /\ [ServerNext]_serverVars => ServerInv'
<1>. SUFFICES ASSUME ServerInv, [ServerNext]_serverVars
              PROVE  ServerInv'
    OBVIOUS
<1>. USE DEF ServerInv, StopOrder, ClosingOrder, LeftIdle, Alive
<1>1. CASE Start /\ exitCode = Alive
    <2>1. UNCHANGED <<dbPool, stop, http, running>>
        BY <1>1 DEF Start, Configure, connectRedis, openQueues, testDatabase, registerRoutes, listen, StartFails, Exit
    <2>2. HttpRecords' /\ \A r \in HttpRequests : InFlight(r)' <=> InFlight(r)
        BY <2>1 DEF HttpRecords, InFlight
    <2>3. CASE Configure \/ StartFails
        BY <2>1, <2>2, <2>3, <1>1 DEF Configure, StartFails, Exit
    <2>4. CASE connectRedis \/ openQueues \/ testDatabase \/ registerRoutes
        BY <2>1, <2>2, <2>4, <1>1 DEF connectRedis, openQueues, testDatabase, registerRoutes
    <2>5. CASE listen
        BY <2>1, <2>2, <2>5, <1>1 DEF listen
    <2>. QED
        BY <1>1, <2>3, <2>4, <2>5 DEF Start
<1>2. CASE buildApp
    BY <1>2 DEF buildApp, HttpRecords, InFlight
<1>3. ASSUME NEW r \in HttpRequests, Receive(r), exitCode = Alive
      PROVE  ServerInv'
    <2>1. PICK left, input, status :
              http' = [http EXCEPT ![r] = [left |-> left, input |-> input, begun |-> TRUE, status |-> status]]
        <3>1. PICK i \in Inputs : http' = [http EXCEPT ![r] =
                  [left |-> GlobalHooks \o RouteHooks(i.route), input |-> i, begun |-> TRUE,
                   status |-> IF httpServer = "closing" THEN 503 ELSE 0]]
            BY <1>3, Zenon DEF Receive
        <3>. QED
            BY <3>1, Zenon
    <2>2. \A q \in HttpRequests :
              http'[q] = IF q = r THEN [left |-> left, input |-> input, begun |-> TRUE, status |-> status] ELSE http[q]
        BY <2>1 DEF HttpRecords
    <2>3. http' = [q \in HttpRequests |-> http'[q]]
        BY <2>1 DEF HttpRecords
    <2>4. HttpRecords'
        BY <2>2, <2>3 DEF HttpRecords
    <2>5. httpServer \in {"listening", "closing"} /\ httpServer' = httpServer
        BY <1>3 DEF Receive
    <2>. QED
        BY <1>3, <2>4, <2>5 DEF Receive
<1>4. CASE Serve /\ exitCode = Alive
    BY <1>4, RequestSteps DEF Serve
<1>5. CASE TakeJob /\ exitCode = Alive
    BY <1>5 DEF TakeJob, HttpRecords, InFlight
<1>6. CASE EndJob
    BY <1>6 DEF EndJob, HttpRecords, InFlight
<1>7. ASSUME NEW d \in Deliveries, Signal(d)
      PROVE  ServerInv'
    BY <1>7 DEF Signal, HttpRecords, InFlight
<1>8. ASSUME NEW d \in Deliveries, ShutDown(d), exitCode = Alive
      PROVE  ServerInv'
    BY <1>8 DEF ShutDown, HttpRecords, InFlight
<1>9. ASSUME NEW d \in Deliveries, EndPool(d), exitCode = Alive
      PROVE  ServerInv'
    BY <1>9 DEF EndPool, Exit, HttpRecords, InFlight
<1>10. ASSUME NEW d \in Deliveries, Leave(d), exitCode = Alive
       PROVE  ServerInv'
    BY <1>10 DEF Leave, Exit, HttpRecords, InFlight
<1>11. CASE (ServerClosed \/ QueuesShut \/ PoolEnded \/ PoolError) /\ exitCode = Alive
    BY <1>11 DEF ServerClosed, QueuesShut, PoolEnded, PoolError, Exit, HttpRecords, InFlight
<1>12. CASE UNCHANGED serverVars
    BY <1>12 DEF serverVars, HttpRecords, InFlight
<1>. QED
    BY <1>1, <1>2, <1>3, <1>4, <1>5, <1>6, <1>7, <1>8, <1>9, <1>10, <1>11, <1>12 DEF ServerNext, StopStep

\* A request in progress finds queues and pool open, a job the pool, and a stop cuts off neither,
\* whatever signals come and whenever.
THEOREM UseIsOutlived == ServerSpec => []ServicesOutliveUse
<1>1. ServerInv => ServicesOutliveUse
    BY DEF ServerInv, StopOrder, ClosingOrder, LeftIdle, ServicesOutliveUse, Alive
<1>. QED
    BY <1>1, ServerInvInit, ServerInvStep, PTL DEF ServerSpec

-----------------------------------------------------------------------------
(* Figures of telemetry                                                     *)

Counts == [made : {"unmade", "noop", "live"}, success : Nat, error : Nat, business : Nat, failures : Nat]

Work == [kind : {"none", "request", "untimed", "job"}, at : {"idle", "handling", "failing", "working", "recorded", "sent"},
         span : {"none", "open", "ended"}, status : {"unset", "success", "error"}]

TelemetryTypeOK ==
    /\ sdk \in {"none", "up", "down"} /\ metrics \in Counts
    /\ work \in [Traced -> Work] /\ exported \in [Traced -> Nat]

\* A request is timed, and nothing has been exported before a span has ended.
WorkSound ==
    \A w \in Traced :
        /\ work[w].at = "idle" \/ work[w].kind \in {"none", "untimed"} => work[w].span = "none"
        /\ work[w].span = "open" => exported[w] = 0 /\ work[w].at # "sent"
        /\ work[w].span = "none" => exported[w] = 0
        /\ work[w].span = "ended" => work[w].at = "sent"
        /\ work[w].at \in {"working", "recorded"} => work[w].kind = "job"
        /\ exported[w] <= 1

CountsAreTrue ==
    EnableMetrics => \A class \in {"success", "error"} :
        /\ metrics[class] = IF metrics.made = "live" THEN Cardinality(Sent("request", class)) ELSE 0
        /\ metrics.made = "unmade" => Sent("request", class) = {}

TelemetryInv == TelemetryTypeOK /\ WorkSound /\ CountsAreTrue

\* The instruments of the first use are made, and those of a later one are the same.
LEMMA CountersMade ==
    ASSUME TelemetryTypeOK
    PROVE  /\ getMetrics \in Counts /\ getMetrics.made \in {"noop", "live"}
           /\ metrics.made # "unmade" => getMetrics = metrics
           /\ metrics.made = "unmade" => \A class \in {"success", "error"} : getMetrics[class] = 0
<1>1. initializeMetrics = [made |-> IF sdk = "up" THEN "live" ELSE "noop",
                           success |-> 0, error |-> 0, business |-> 0, failures |-> 0]
    BY DEF initializeMetrics, Unmade
<1>2. CASE metrics.made = "unmade"
    BY <1>1, <1>2 DEF getMetrics, Counts
<1>3. CASE metrics.made # "unmade"
    BY <1>3 DEF Counts, getMetrics, TelemetryTypeOK
<1>. QED
    BY <1>2, <1>3

\* Adding to a counter adds to it alone, and only if it was made to count.
LEMMA CounterAdded ==
    ASSUME TelemetryTypeOK, NEW counter \in {"success", "error", "business", "failures"}, AddTo(counter, 1)
    PROVE  /\ metrics' \in Counts /\ metrics'.made = getMetrics.made
           /\ metrics'[counter] = IF getMetrics.made = "live" THEN getMetrics[counter] + 1 ELSE getMetrics[counter]
           /\ \A other \in {"success", "error"} : other # counter => metrics'[other] = getMetrics[other]
<1>1. PICK c \in Counts : getMetrics = c
    BY CountersMade
<1>2. metrics' = [c EXCEPT ![counter] = IF c.made = "live" THEN @ + 1 ELSE @]
    BY <1>1 DEF AddTo
<1>. QED
    BY <1>1, <1>2 DEF Counts

LEMMA SentFinite ==
    ASSUME NEW kind, NEW status
    PROVE  IsFiniteSet(Sent(kind, status)) /\ Cardinality(Sent(kind, status)) \in Nat
BY TelemetryAssumption, FS_Subset, FS_CardinalityType DEF Sent, TelemetryAssumption

\* What sends no request and leaves the counters of requests alone keeps them true.
LEMMA CountsKept ==
    ASSUME CountsAreTrue, metrics' = metrics,
           \A w \in Traced : \A class \in {"success", "error"} :
               (work'[w].kind = "request" /\ work'[w].at = "sent" /\ work'[w].status = class)
                   <=> (work[w].kind = "request" /\ work[w].at = "sent" /\ work[w].status = class)
    PROVE  CountsAreTrue'
<1>1. \A class \in {"success", "error"} : Sent("request", class)' = Sent("request", class)
    BY DEF Sent
<1>. QED
    BY <1>1, Zenon DEF CountsAreTrue

LEMMA TelemetryInvInit == TelemetryInit => TelemetryInv
<1>. SUFFICES ASSUME TelemetryInit PROVE TelemetryInv
    OBVIOUS
<1>1. TelemetryTypeOK /\ WorkSound
    BY DEF TelemetryInit, TelemetryTypeOK, WorkSound, NoWork, Work, Unmade, Counts
<1>2. \A class \in {"success", "error"} : Sent("request", class) = {}
    BY DEF TelemetryInit, Sent, NoWork
<1>3. metrics.made = "unmade" /\ \A class \in {"success", "error"} : metrics[class] = 0
    BY DEF TelemetryInit, Unmade
<1>. QED
    BY <1>1, <1>2, <1>3 DEF TelemetryInv, CountsAreTrue

\* What becomes of a span.
LEMMA SpanEnded ==
    ASSUME TelemetryTypeOK, WorkSound, NEW w \in Traced, NEW status \in {"success", "error"},
           work[w].at \notin {"idle", "sent"},
           EndSpan(w, [work[w] EXCEPT !.at = "sent", !.status = status])
    PROVE  /\ work' \in [Traced -> Work] /\ exported' \in [Traced -> Nat] /\ WorkSound'
           /\ work'[w].kind = work[w].kind /\ work'[w].at = "sent" /\ work'[w].status = status
           /\ work'[w].span = IF work[w].span = "open" THEN "ended" ELSE work[w].span
           /\ \A x \in Traced : x # w => work'[x] = work[x] /\ exported'[x] = exported[x]
           /\ exported'[w] = exported[w] \/ (work[w].span = "open" /\ exported'[w] = exported[w] + 1)
<1>1. work[w] \in Work
    BY DEF TelemetryTypeOK
<1>2. PICK new \in Work :
          /\ work' = [work EXCEPT ![w] = new]
          /\ new.kind = work[w].kind /\ new.at = "sent" /\ new.status = status
          /\ new.span = IF work[w].span = "open" THEN "ended" ELSE work[w].span
    <2> DEFINE sent  == [work[w] EXCEPT !.at = "sent", !.status = status]
               ended == [sent EXCEPT !.span = IF sent.span = "open" THEN "ended" ELSE sent.span]
    <2>1. /\ sent \in Work /\ sent.kind = work[w].kind /\ sent.at = "sent" /\ sent.status = status
          /\ sent.span = work[w].span
        BY <1>1 DEF Work
    <2>2. work' = [work EXCEPT ![w] = ended]
        BY DEF EndSpan
    <2>. HIDE DEF sent
    <2>3. ended \in Work
        BY <2>1 DEF Work
    <2>4. ended.kind = sent.kind /\ ended.at = sent.at /\ ended.status = sent.status
        BY <2>1 DEF Work
    <2>5. ended.span = IF sent.span = "open" THEN "ended" ELSE sent.span
        BY <2>1 DEF Work
    <2>. QED
        BY <2>1, <2>2, <2>3, <2>4, <2>5, Zenon
<1>3. exported' = IF work[w].span = "open" /\ sdk = "up" THEN [exported EXCEPT ![w] = @ + 1] ELSE exported
    BY DEF EndSpan
<1>4. /\ work' \in [Traced -> Work] /\ exported' \in [Traced -> Nat]
      /\ work'[w] = new
      /\ \A x \in Traced : x # w => work'[x] = work[x] /\ exported'[x] = exported[x]
      /\ exported'[w] = exported[w] \/ (work[w].span = "open" /\ exported'[w] = exported[w] + 1)
    BY <1>2, <1>3 DEF TelemetryTypeOK
<1>5. exported'[w] <= 1 /\ (work[w].span = "none" => exported'[w] = 0) /\ work[w].span # "ended"
      /\ work[w].span \in {"none", "open", "ended"}
    BY <1>1, <1>4 DEF WorkSound, TelemetryTypeOK, Work
<1>6. WorkSound'
    <2>. SUFFICES ASSUME NEW x \in Traced
                  PROVE  /\ work'[x].at = "idle" \/ work'[x].kind \in {"none", "untimed"} => work'[x].span = "none"
                         /\ work'[x].span = "open" => exported'[x] = 0 /\ work'[x].at # "sent"
                         /\ work'[x].span = "none" => exported'[x] = 0
                         /\ work'[x].span = "ended" => work'[x].at = "sent"
                         /\ work'[x].at \in {"working", "recorded"} => work'[x].kind = "job"
                         /\ exported'[x] <= 1
        BY DEF WorkSound
    <2>1. CASE x = w
        BY <1>2, <1>4, <1>5, <2>1 DEF WorkSound
    <2>2. CASE x # w
        BY <1>4, <2>2 DEF WorkSound
    <2>. QED
        BY <2>1, <2>2
<1>. QED
    BY <1>2, <1>4, <1>6

\* An answer is counted once, under the class it is sent with.
LEMMA AnswerCounted ==
    ASSUME TelemetryInv, NEW w \in Traced, onSend(w)
    PROVE  TelemetryInv'
<1>1. PICK class \in {"success", "error"} :
          IF work[w].kind = "request"
          THEN /\ EndSpan(w, [work[w] EXCEPT !.at = "sent", !.status = class])
               /\ IF EnableMetrics THEN recordHttpRequest(class) ELSE metrics' = metrics
          ELSE /\ work' = [work EXCEPT ![w].at = "sent"]
               /\ UNCHANGED <<metrics, exported>>
    BY Zenon DEF onSend
<1>2. /\ sdk' = sdk /\ work[w].at \in {"handling", "failing"} /\ work[w].kind \in {"request", "untimed"}
    BY DEF onSend
<1>3. CASE work[w].kind # "request"
    <2>1. work' = [work EXCEPT ![w].at = "sent"] /\ UNCHANGED <<metrics, exported>>
        BY <1>1, <1>3
    <2>2. TelemetryTypeOK' /\ WorkSound'
        BY <2>1, <1>2, <1>3 DEF TelemetryInv, TelemetryTypeOK, WorkSound, Work
    <2>3. CountsAreTrue'
        BY <2>1, <1>2, <1>3, CountsKept DEF TelemetryInv, TelemetryTypeOK, WorkSound, Work
    <2>. QED
        BY <2>2, <2>3 DEF TelemetryInv
<1>4. CASE work[w].kind = "request"
    <2>1. EndSpan(w, [work[w] EXCEPT !.at = "sent", !.status = class])
        BY <1>1, <1>4
    <2>2. IF EnableMetrics THEN recordHttpRequest(class) ELSE metrics' = metrics
        BY <1>1, <1>4
    <2>3. /\ work'[w].kind = "request" /\ work'[w].at = "sent" /\ work'[w].status = class
          /\ \A x \in Traced : x # w => work'[x] = work[x]
        BY <2>1, <1>2, <1>4, SpanEnded DEF TelemetryInv, WorkSound
    <2>4. TelemetryTypeOK'
        <3>1. work' \in [Traced -> Work] /\ exported' \in [Traced -> Nat]
            BY <1>2, <2>1, SpanEnded DEF TelemetryInv
        <3>2. metrics' \in Counts
            <4>1. CASE EnableMetrics
                BY <4>1, <2>2, CounterAdded DEF recordHttpRequest, TelemetryInv
            <4>. QED
                BY <4>1, <2>2 DEF TelemetryInv, TelemetryTypeOK
        <3>. QED
            BY <1>2, <3>1, <3>2 DEF TelemetryInv, TelemetryTypeOK
    <2>5. WorkSound'
        BY <2>1, <1>2, SpanEnded DEF TelemetryInv
    <2>6. CountsAreTrue'
        <3>. SUFFICES ASSUME EnableMetrics, NEW other \in {"success", "error"}
                      PROVE  /\ metrics'[other] = IF metrics'.made = "live" THEN Cardinality(Sent("request", other)') ELSE 0
                             /\ metrics'.made # "unmade"
            BY DEF CountsAreTrue
        <3>1. AddTo(class, 1)
            BY <2>2 DEF recordHttpRequest
        <3>2. /\ metrics'.made = getMetrics.made /\ metrics'.made \in {"noop", "live"}
              /\ metrics'[class] = IF getMetrics.made = "live" THEN getMetrics[class] + 1 ELSE getMetrics[class]
              /\ other # class => metrics'[other] = getMetrics[other]
            BY <3>1, CounterAdded, CountersMade DEF TelemetryInv
        <3>3. getMetrics[other] = IF getMetrics.made = "live" THEN Cardinality(Sent("request", other)) ELSE 0
            <4>1. CASE metrics.made = "unmade"
                BY <4>1, CountersMade, FS_EmptySet DEF TelemetryInv, CountsAreTrue
            <4>2. CASE metrics.made # "unmade"
                BY <4>2, CountersMade DEF TelemetryInv, CountsAreTrue
            <4>. QED
                BY <4>1, <4>2
        <3>4. CASE other = class
            <4>1. Sent("request", class)' = Sent("request", class) \union {w} /\ w \notin Sent("request", class)
                BY <2>3, <1>2 DEF Sent
            <4>2. Cardinality(Sent("request", class)') = Cardinality(Sent("request", class)) + 1
                BY <4>1, SentFinite, FS_AddElement
            <4>. QED
                BY <4>2, <3>2, <3>3, <3>4
        <3>5. CASE other # class
            <4>1. Sent("request", other)' = Sent("request", other)
                BY <2>3, <1>2, <3>5 DEF Sent
            <4>. QED
                BY <4>1, <3>2, <3>3, <3>5
        <3>. QED
            BY <3>4, <3>5
    <2>. QED
        BY <2>4, <2>5, <2>6 DEF TelemetryInv
<1>. QED
    BY <1>3, <1>4

LEMMA TelemetryInvStep == TelemetryInv /\ [TelemetryNext]_telemetryVars => TelemetryInv'
<1>. SUFFICES ASSUME TelemetryInv, [TelemetryNext]_telemetryVars
              PROVE  TelemetryInv'
    OBVIOUS
<1>. USE DEF TelemetryInv
<1>1. CASE initializeTelemetry \/ shutdownTelemetry \/ UNCHANGED telemetryVars
    <2>1. UNCHANGED <<metrics, work, exported>> /\ sdk' \in {"none", "up", "down"}
        BY <1>1 DEF initializeTelemetry, shutdownTelemetry, telemetryVars, TelemetryTypeOK
    <2>. QED
        BY <2>1 DEF TelemetryTypeOK, WorkSound, CountsAreTrue, Sent
<1>2. ASSUME NEW w \in Traced, telemetryMiddleware(w) \/ EarlierHookAnswers(w)
      PROVE  TelemetryInv'
    <2>2. work[w].at = "idle" /\ UNCHANGED <<sdk, metrics, exported>>
        BY <1>2 DEF telemetryMiddleware, EarlierHookAnswers
    <2>3. PICK new \in Work :
              /\ work' = [work EXCEPT ![w] = new]
              /\ new.at = "handling" /\ new.span # "ended" /\ new.kind \in {"request", "untimed"}
              /\ new.kind = "untimed" => new.span = "none"
        <3> DEFINE untimed == [NoWork EXCEPT !.kind = "untimed", !.at = "handling"]
                   request == [NoWork EXCEPT !.kind = "request", !.at = "handling",
                                             !.span = IF EnableTracing THEN startSpan ELSE "none"]
        <3>3. /\ untimed \in Work /\ untimed.kind = "untimed" /\ untimed.at = "handling" /\ untimed.span = "none"
              /\ request \in Work /\ request.kind = "request" /\ request.at = "handling" /\ request.span # "ended"
            BY DEF NoWork, Work, startSpan
        <3>4. work' = [work EXCEPT ![w] = untimed] \/ work' = [work EXCEPT ![w] = request]
            BY <1>2 DEF telemetryMiddleware, EarlierHookAnswers
        <3>. HIDE DEF untimed, request
        <3>. QED
            BY <3>3, <3>4
    <2>5. TelemetryTypeOK' /\ WorkSound'
        BY <2>2, <2>3 DEF TelemetryTypeOK, WorkSound, Work
    <2>4. CountsAreTrue'
        BY <2>2, <2>3, CountsKept DEF TelemetryTypeOK, Work
    <2>. QED
        BY <2>4, <2>5
<1>3. ASSUME NEW w \in Traced, onError(w)
      PROVE  TelemetryInv'
    <2>1. PICK new \in Work :
              /\ work' = [work EXCEPT ![w] = new]
              /\ new.kind = work[w].kind /\ new.at = "failing" /\ new.span = work[w].span
        <3> DEFINE status == IF work[w].span = "open" THEN "error" ELSE work[w].status
                   new    == [work[w] EXCEPT !.at = "failing", !.status = status]
        <3>1. work[w] \in Work /\ status \in {"unset", "success", "error"}
            BY DEF TelemetryTypeOK, Work
        <3>2. work' = [work EXCEPT ![w] = new]
            BY <1>3 DEF onError, TelemetryTypeOK, Work
        <3>. HIDE DEF status
        <3>3. new \in Work /\ new.kind = work[w].kind /\ new.at = "failing" /\ new.span = work[w].span
            BY <3>1 DEF Work
        <3>. QED
            BY <3>2, <3>3, Zenon
    <2>2. work[w].at = "handling" /\ work[w].kind \in {"request", "untimed"} /\ UNCHANGED <<sdk, metrics, exported>>
        BY <1>3 DEF onError
    <2>3. TelemetryTypeOK' /\ WorkSound'
        BY <2>1, <2>2 DEF TelemetryTypeOK, WorkSound, Work
    <2>4. CountsAreTrue'
        BY <1>3, CountsKept DEF onError, TelemetryTypeOK, Work
    <2>. QED
        BY <2>3, <2>4
<1>4. ASSUME NEW w \in Traced, StartSpan(w)
      PROVE  TelemetryInv'
    <2>1. TelemetryTypeOK' /\ WorkSound'
        BY <1>4 DEF StartSpan, TelemetryTypeOK, WorkSound, Work, NoWork, startSpan
    <2>2. CountsAreTrue'
        BY <1>4, CountsKept DEF StartSpan, TelemetryTypeOK, Work, NoWork
    <2>. QED
        BY <2>1, <2>2
<1>5. ASSUME NEW w \in Traced, RecordBusiness(w)
      PROVE  TelemetryInv'
    <2>1. PICK counter \in {"business", "failures"} : AddTo(counter, 1)
        BY <1>5 DEF RecordBusiness
    <2>2. work' = [work EXCEPT ![w].at = "recorded"] /\ work[w].at = "working" /\ UNCHANGED <<sdk, exported>>
        BY <1>5 DEF RecordBusiness
    <2>3. /\ metrics' \in Counts /\ metrics'.made = getMetrics.made /\ getMetrics.made \in {"noop", "live"}
          /\ \A class \in {"success", "error"} : metrics'[class] = getMetrics[class]
        BY <2>1, CounterAdded, CountersMade
    <2>4. TelemetryTypeOK' /\ WorkSound'
        BY <2>2, <2>3, <1>5 DEF RecordBusiness, TelemetryTypeOK, WorkSound, Work
    <2>5. \A class \in {"success", "error"} : Sent("request", class)' = Sent("request", class)
        BY <2>2 DEF Sent, TelemetryTypeOK, Work
    <2>6. CASE metrics.made = "unmade"
        <3>1. \A class \in {"success", "error"} : metrics'[class] = 0
            BY <2>3, <2>6, CountersMade
        <3>2. EnableMetrics => \A class \in {"success", "error"} : Sent("request", class)' = {}
            BY <2>5, <2>6 DEF CountsAreTrue
        <3>. QED
            BY <2>3, <2>4, <3>1, <3>2, FS_EmptySet DEF CountsAreTrue
    <2>7. CASE metrics.made # "unmade"
        <3>1. getMetrics = metrics
            BY <2>7, CountersMade
        <3>. QED
            BY <2>3, <2>4, <2>5, <2>7, <3>1 DEF CountsAreTrue
    <2>. QED
        BY <2>6, <2>7
<1>6. ASSUME NEW w \in Traced, withSpan(w)
      PROVE  TelemetryInv'
    <2>1. PICK status \in {"success", "error"} : EndSpan(w, [work[w] EXCEPT !.at = "sent", !.status = status])
        BY <1>6, Zenon DEF withSpan
    <2>2. work[w].kind = "job" /\ work[w].at \in {"working", "recorded"} /\ UNCHANGED <<sdk, metrics>>
        BY <1>6 DEF withSpan
    <2>3. TelemetryTypeOK' /\ WorkSound'
        BY <2>1, <2>2, SpanEnded DEF TelemetryTypeOK
    <2>4. CountsAreTrue'
        BY <2>1, <2>2, SpanEnded, CountsKept
    <2>. QED
        BY <2>3, <2>4
<1>. QED
    BY <1>1, <1>2, <1>3, <1>4, <1>5, <1>6, AnswerCounted DEF TelemetryNext

\* However requests, jobs, errors, the start of the SDK and its shutdown interleave, the counters
\* hold all the answers to requests that reached the plugin or, made without the SDK, none.
THEOREM FiguresTrue == TelemetrySpec => []FiguresAreTrue
<1>1. TelemetryInv => FiguresAreTrue
    BY DEF TelemetryInv, WorkSound, CountsAreTrue, FiguresAreTrue
<1>. QED
    BY <1>1, TelemetryInvInit, TelemetryInvStep, PTL DEF TelemetrySpec

-----------------------------------------------------------------------------
(* The store of secrets                                                     *)

Record(r) == r = [op |-> r.op, at |-> r.at, status |-> r.status, truth |-> r.truth]

\* What an answer on its way says was so when the server gave it.
AnswerTrue(r) ==
    /\ r.op = "get" => r.at \in SecretPaths
    /\ r.op \in {"get", "list"} => (r.status = 404 => r.truth = {}) /\ (r.status = 200 => r.truth # {})

\* With /v1 in the address, which is never changed, the paths of the secrets are known.
VaultInv ==
    /\ call = [c \in Callers |-> call[c]]
    /\ \A c \in Callers : Record(call[c]) /\ (address = "v1" => AnswerTrue(call[c]))
    /\ AbsentIsAbsent

LEMMA VaultInvInit == VaultInit => VaultInv
<1>. SUFFICES ASSUME VaultInit PROVE VaultInv
    OBVIOUS
<1>1. Record(NoCall) /\ NoCall.op = "none"
    BY DEF Record, NoCall
<1>3. call = [c \in Callers |-> NoCall] /\ log = {}
    BY DEF VaultInit
<1>. QED
    BY <1>1, <1>3 DEF VaultInv, AnswerTrue, AbsentIsAbsent, SaysWhatIsSo

\* A method begins with a request that has no answer.
LEMMA RequestSent ==
    ASSUME VaultInv, NEW c \in Callers, NEW op, NEW at,
           op = "get" => at \in SecretPaths, Send(c, op, at)
    PROVE  VaultInv'
<1>1. call' = [call EXCEPT ![c] = [op |-> op, at |-> at, status |-> 0, truth |-> {}]]
    <2>1. PICK r : r = [NoCall EXCEPT !.op = op, !.at = at] /\ call' = [call EXCEPT ![c] = r]
        BY DEF Send
    <2>2. r = [op |-> op, at |-> at, status |-> 0, truth |-> {}]
        BY <2>1 DEF NoCall
    <2>. QED
        BY <2>1, <2>2
<1>2. log' = {} /\ UNCHANGED <<address, service, kv>>
    BY DEF Send
<1>3. \A d \in Callers : call'[d] =
          IF d = c THEN [op |-> op, at |-> at, status |-> 0, truth |-> {}] ELSE call[d]
    BY <1>1 DEF VaultInv
<1>4. call' = [d \in Callers |-> call'[d]]
    BY <1>1 DEF VaultInv
<1>5. Record([op |-> op, at |-> at, status |-> 0, truth |-> {}])
    BY DEF Record
<1>6. AnswerTrue([op |-> op, at |-> at, status |-> 0, truth |-> {}])
    BY DEF AnswerTrue
<1>. QED
    BY <1>2, <1>3, <1>4, <1>5, <1>6 DEF VaultInv, AbsentIsAbsent, SaysWhatIsSo

LEMMA CallStep ==
    ASSUME VaultInv, NEW c \in Callers, Call(c)
    PROVE  VaultInv'
<1>1. \A k \in KeyIds : didKeyPath(k) \in SecretPaths
    BY DEF SecretPaths
<1>2. \A o \in Organizations, k \in KeyIds : organizationKeyPath(o, k) \in SecretPaths
    BY DEF SecretPaths
<1>3. CASE \E k \in KeyIds : storeDIDKey(c, k) \/ getDIDKey(c, k) \/ deleteDIDKey(c, k)
    BY <1>1, <1>3, RequestSent DEF storeDIDKey, getDIDKey, deleteDIDKey
<1>4. CASE \E o \in Organizations, k \in KeyIds : storeOrganizationKey(c, o, k) \/ getOrganizationKey(c, o, k)
    BY <1>2, <1>4, RequestSent DEF storeOrganizationKey, getOrganizationKey
<1>5. CASE \E p \in SecretPaths : storeSecret(c, p) \/ getSecret(c, p)
    BY <1>5, RequestSent DEF storeSecret, getSecret
<1>6. CASE \/ \E o \in Organizations : listOrganizationKeys(c, o)
           \/ encrypt(c) \/ decrypt(c) \/ listDIDKeys(c) \/ generateDataKey(c) \/ healthCheck(c) \/ renewToken(c)
    BY <1>6, RequestSent DEF listOrganizationKeys, encrypt, decrypt, listDIDKeys, generateDataKey, healthCheck, renewToken
<1>. QED
    BY <1>3, <1>4, <1>5, <1>6 DEF Call

\* The server answers one request with what is so.
LEMMA RespondStep ==
    ASSUME VaultInv, NEW c \in Callers, Respond(c)
    PROVE  VaultInv'
<1>1. log' = {} /\ address' = address
    BY DEF Respond
<1>2. PICK status :
          /\ Answered(c, status)
          /\ \/ status \notin {200, 404}
             \/ status = 404 /\ ~KnownPath(call[c].op)
             \/ KnownPath(call[c].op) /\ call[c].op = "get" /\ status = IF Readable(call[c].at) THEN 200 ELSE 404
             \/ KnownPath(call[c].op) /\ call[c].op = "list" /\ status = IF ListedBelow(call[c].at) # {} THEN 200 ELSE 404
             \/ call[c].op \notin {"get", "list"}
    BY DEF Respond
<1>4. ASSUME address = "v1"
      PROVE  AnswerTrue([op |-> call[c].op, at |-> call[c].at, status |-> status, truth |-> Truth(call[c])])
    <2>1. CASE call[c].op = "get"
        <3>1. call[c].at \in SecretPaths
            BY <1>4, <2>1 DEF VaultInv, AnswerTrue
        <3>2. Truth(call[c]) = IF Readable(call[c].at) THEN {kv[call[c].at][Len(kv[call[c].at])]} ELSE {}
            BY <2>1 DEF Truth
        <3>3. KnownPath("get")
            BY <1>4 DEF KnownPath
        <3>4. (status = 404 => Truth(call[c]) = {}) /\ (status = 200 => Truth(call[c]) # {})
            BY <1>2, <2>1, <3>2, <3>3
        <3>. QED
            BY <2>1, <3>1, <3>4 DEF AnswerTrue
    <2>2. CASE call[c].op = "list"
        <3>1. Truth(call[c]) = ListedBelow(call[c].at)
            BY <2>2 DEF Truth
        <3>2. KnownPath("list")
            BY <1>4 DEF KnownPath
        <3>3. (status = 404 => Truth(call[c]) = {}) /\ (status = 200 => Truth(call[c]) # {})
            BY <1>2, <2>2, <3>1, <3>2
        <3>. QED
            BY <2>2, <3>3 DEF AnswerTrue
    <2>3. CASE call[c].op \notin {"get", "list"}
        BY <1>2, <2>3 DEF AnswerTrue
    <2>. QED
        BY <2>1, <2>2, <2>3
<1>5. \A d \in Callers : call'[d] =
          IF d = c THEN [op |-> call[c].op, at |-> call[c].at, status |-> status, truth |-> Truth(call[c])]
          ELSE call[d]
    <2>1. PICK r : r = call[c] /\ Record(r)
        BY DEF VaultInv
    <2>2. PICK x : x = [r EXCEPT !.status = status, !.truth = Truth(call[c])] /\ call' = [call EXCEPT ![c] = x]
        BY <1>2, <2>1 DEF Answered
    <2>3. x = [op |-> r.op, at |-> r.at, status |-> status, truth |-> Truth(call[c])]
        BY <2>1, <2>2 DEF Record
    <2>. QED
        BY <2>1, <2>2, <2>3 DEF VaultInv
<1>6. call' = [d \in Callers |-> call'[d]]
    BY <1>2 DEF Answered, VaultInv
<1>7. Record([op |-> call[c].op, at |-> call[c].at, status |-> status, truth |-> Truth(call[c])])
    BY DEF Record
<1>. QED
    BY <1>1, <1>4, <1>5, <1>6, <1>7 DEF VaultInv, AbsentIsAbsent, SaysWhatIsSo

\* The promise settles with what the answer says, or with nothing but an error.
LEMMA SettleStep ==
    ASSUME VaultInv, NEW c \in Callers, Settle(c)
    PROVE  VaultInv'
<1>1. PICK status \in {0, call[c].status} :
          log' = {[op |-> call[c].op, result |-> Settled(call[c], status), truth |-> call[c].truth]}
    BY DEF Settle
<1>2. /\ Settled(call[c], status) = "absent" => status = 404 /\ call[c].op \in {"get", "list"}
      /\ Settled(call[c], status) = "value" => status = 200
    BY DEF Settled, MeansAbsent
<1>4. call' = [call EXCEPT ![c] = NoCall] /\ UNCHANGED address
    BY DEF Settle
<1>3. AbsentIsAbsent'
    BY <1>1, <1>2, <1>4 DEF AbsentIsAbsent, SaysWhatIsSo, VaultInv, AnswerTrue
<1>5. Record(NoCall) /\ AnswerTrue(NoCall)
    BY DEF Record, AnswerTrue, NoCall
<1>. QED
    BY <1>3, <1>4, <1>5 DEF VaultInv

LEMMA VaultInvStep == VaultInv /\ [VaultNext]_vaultVars => VaultInv'
<1>. SUFFICES ASSUME VaultInv, [VaultNext]_vaultVars
              PROVE  VaultInv'
    OBVIOUS
<1>1. CASE initializeOpenBao \/ TokenExpires
    BY <1>1 DEF initializeOpenBao, TokenExpires, VaultInv, AbsentIsAbsent, SaysWhatIsSo
<1>2. CASE UNCHANGED vaultVars
    BY <1>2 DEF vaultVars, VaultInv, AbsentIsAbsent, SaysWhatIsSo
<1>3. ASSUME NEW p \in SecretPaths, OthersWrite(p) PROVE VaultInv'
    BY <1>3 DEF OthersWrite, VaultInv, AbsentIsAbsent, SaysWhatIsSo
<1>. QED
    BY <1>1, <1>2, <1>3, CallStep, RespondStep, SettleStep DEF VaultNext

\* With /v1 in the address, whatever fails, expires or is lost and whoever else writes, a caller is
\* told of an absence or a value only if there was one.
THEOREM AbsencesAreTrue == VaultSpec => []AbsentIsAbsent
<1>1. VaultInv => AbsentIsAbsent
    BY DEF VaultInv
<1>. QED
    BY <1>1, VaultInvInit, VaultInvStep, PTL DEF VaultSpec

-----------------------------------------------------------------------------
(* Migrations of the database                                               *)

\* A record of the database, as far as the statements about it need one.
DbIsRecord ==
    db = [created |-> db.created, applied |-> db.applied, migrations |-> db.migrations, schema |-> db.schema,
          schemaTable |-> db.schemaTable, role |-> db.role, orgRole |-> db.orgRole, lock |-> db.lock]

ProgramsTyped ==
    program \in [Programs -> [kind : ProgramKinds \union {"none"}, todo : SUBSET (DOMAIN Listed),
                              pc : {"idle", "connect", "look", "files", "insert", "begin", "commit",
                                    "rename", "forget", "done", "failed"}]]

\* What migrate.ts leaves out has been recorded, and what it is about to record has been executed.
TodoSound ==
    \A p \in Programs : program[p].kind = "migrate" =>
        /\ program[p].pc \in {"files", "insert"} =>
               \A i \in DOMAIN Listed : i \notin program[p].todo => Listed[i] \in db.migrations
        /\ program[p].pc = "insert" =>
               \A i \in DOMAIN Listed : IsNext(i, program[p].todo) => Listed[i] \in db.applied

MigrationInv == DbIsRecord /\ ProgramsTyped /\ TodoSound /\ RecordsAreTrue

LEMMA MigrationInvInit == MigrationInit => MigrationInv
<1>. SUFFICES ASSUME MigrationInit PROVE MigrationInv
    OBVIOUS
<1>1. /\ db.applied = {} /\ db.migrations = {} /\ db.schema = {} /\ DbIsRecord
    <2>1. PICK created, role :
              db = [created |-> created, applied |-> {}, migrations |-> {}, schema |-> {}, schemaTable |-> FALSE,
                    role |-> role, orgRole |-> FALSE, lock |-> "nobody"]
        <3>1. db \in {EmptyDb, [EmptyDb EXCEPT !.created = TRUE],
                     [EmptyDb EXCEPT !.created = TRUE, !.role = "owner, admin or member"]}
            BY DEF MigrationInit
        <3>2. CASE db = EmptyDb
            BY <3>2 DEF EmptyDb
        <3>3. CASE db = [EmptyDb EXCEPT !.created = TRUE]
            BY <3>3 DEF EmptyDb
        <3>4. CASE db = [EmptyDb EXCEPT !.created = TRUE, !.role = "owner, admin or member"]
            BY <3>4 DEF EmptyDb
        <3>. QED
            BY <3>1, <3>2, <3>3, <3>4
    <2>. QED
        BY <2>1 DEF DbIsRecord
<1>2. ProgramsTyped /\ \A p \in Programs : program[p].kind = "none"
    BY DEF MigrationInit, ProgramsTyped, ProgramKinds
<1>. QED
    BY <1>1, <1>2 DEF MigrationInv, TodoSound, RecordsAreTrue

\* A step of a program that touches neither files nor records and leaves the two places of
\* migrate.ts alone.
LEMMA RecordsUntouched ==
    ASSUME MigrationInv, DbIsRecord', ProgramsTyped',
           db'.applied = db.applied, db'.migrations = db.migrations,
           NodeFile \in db'.schema <=> NodeFile \in db.schema,
           \A p \in Programs : \/ program'[p] = program[p]
                               \/ program'[p].kind # "migrate"
                               \/ program'[p].pc \notin {"files", "insert"}
    PROVE  MigrationInv'
<1>1. TodoSound'
    BY DEF MigrationInv, TodoSound
<1>2. RecordsAreTrue'
    BY DEF MigrationInv, RecordsAreTrue
<1>. QED
    BY <1>1, <1>2 DEF MigrationInv

\* What one program does to its own record.
LEMMA OwnRecord ==
    ASSUME ProgramsTyped, NEW p \in Programs,
           NEW pc \in {"idle", "connect", "look", "files", "insert", "begin", "commit",
                       "rename", "forget", "done", "failed"},
           Goto(p, pc)
    PROVE  /\ ProgramsTyped' /\ program'[p].pc = pc /\ program'[p].kind = program[p].kind
           /\ program'[p].todo = program[p].todo
           /\ \A q \in Programs : q # p => program'[q] = program[q]
BY DEF ProgramsTyped, Goto

LEMMA MigrationInvStep == MigrationInv /\ [MigrationNext]_migrationVars => MigrationInv'
<1>. SUFFICES ASSUME MigrationInv, [MigrationNext]_migrationVars
              PROVE  MigrationInv'
    OBVIOUS
<1>. USE DEF MigrationInv
<1>1. ASSUME NEW p \in Programs, NEW kind \in ProgramKinds, Run(p, kind)
      PROVE  MigrationInv'
    BY <1>1, RecordsUntouched DEF Run, ProgramsTyped, DbIsRecord
<1>2. ASSUME NEW p \in Programs,
             Connect(p) \/ Abandon(p) \/ createDatabase(p) \/ FilesDone(p) \/ CountRecords(p)
                 \/ ApplyInTransaction(p) \/ FindRole(p) \/ RenameRole(p) \/ checkMigrations(p)
      PROVE  MigrationInv'
    <2>1. PICK pc \in {"look", "failed", "done", "begin", "commit", "rename", "forget"} : Goto(p, pc)
        BY <1>2 DEF Connect, Abandon, createDatabase, FilesDone, CountRecords, ApplyInTransaction,
                    FindRole, RenameRole, checkMigrations
    <2>2. /\ DbIsRecord' /\ db'.applied = db.applied /\ db'.migrations = db.migrations
          /\ db'.schema = db.schema
        BY <1>2 DEF Connect, Abandon, createDatabase, FilesDone, CountRecords, ApplyInTransaction,
                    FindRole, RenameRole, checkMigrations, DbIsRecord
    <2>. QED
        BY <2>1, <2>2, OwnRecord, RecordsUntouched
<1>3. ASSUME NEW p \in Programs, ForgetSaas(p) \/ markMigration(p)
      PROVE  MigrationInv'
    <2>1. Goto(p, "done")
        BY <1>3 DEF ForgetSaas, markMigration
    <2>2. /\ DbIsRecord' /\ db'.applied = db.applied /\ db'.migrations = db.migrations
          /\ NodeFile \in db'.schema <=> NodeFile \in db.schema
        BY <1>3, MigrationsAssumption DEF ForgetSaas, markMigration, DbIsRecord, MigrationsAssumption
    <2>. QED
        BY <2>1, <2>2, OwnRecord, RecordsUntouched
<1>4. ASSUME NEW p \in Programs, CommitBoth(p)
      PROVE  MigrationInv'
    <2>1. Goto(p, "done")
        BY <1>4 DEF CommitBoth
    <2>2. /\ DbIsRecord' /\ db'.applied = db.applied \union {NodeFile} /\ db'.migrations = db.migrations
          /\ db'.schema = db.schema \union {NodeFile}
        BY <1>4 DEF CommitBoth, DbIsRecord
    <2>3. TodoSound'
        BY <2>1, <2>2, OwnRecord DEF TodoSound
    <2>4. RecordsAreTrue'
        BY <2>2, MigrationsAssumption DEF RecordsAreTrue, MigrationsAssumption
    <2>. QED
        BY <2>1, <2>2, <2>3, <2>4, OwnRecord
<1>5. ASSUME NEW p \in Programs, ReadExecuted(p)
      PROVE  MigrationInv'
    <2>1. /\ db' = db /\ ProgramsTyped'
          /\ program'[p].pc = "files"
          /\ program'[p].todo = {i \in DOMAIN Listed : Listed[i] \notin db.migrations}
          /\ \A q \in Programs : q # p => program'[q] = program[q]
        BY <1>5 DEF ReadExecuted, ProgramsTyped
    <2>. QED
        BY <2>1 DEF TodoSound, RecordsAreTrue, DbIsRecord
<1>6. ASSUME NEW p \in Programs, ApplyFile(p)
      PROVE  MigrationInv'
    <2>1. PICK i \in DOMAIN Listed : /\ IsNext(i, program[p].todo) /\ Listed[i] \in Present \ db.applied
                                     /\ db' = [db EXCEPT !.applied = @ \union {Listed[i]}]
        BY <1>6 DEF ApplyFile
    <2>2. program[p].kind = "migrate" /\ program[p].pc = "files" /\ Goto(p, "insert")
        BY <1>6 DEF ApplyFile, At
    <2>3. /\ DbIsRecord' /\ db'.applied = db.applied \union {Listed[i]} /\ db'.migrations = db.migrations
          /\ db'.schema = db.schema
        BY <2>1 DEF DbIsRecord
    <2>4. DOMAIN Listed \subseteq Int
        BY MigrationsAssumption DEF MigrationsAssumption
    <2>5. \A j \in DOMAIN Listed : IsNext(j, program[p].todo) => j = i
        BY <2>1, <2>4 DEF IsNext
    <2>6. \A k \in DOMAIN Listed : k < i => Listed[k] \in db.migrations
        BY <2>1, <2>2, <2>4 DEF IsNext, TodoSound
    <2>7. TodoSound'
        BY <2>2, <2>3, <2>5, OwnRecord DEF TodoSound
    <2>8. RecordsAreTrue'
        BY <2>3, <2>6, MigrationsAssumption DEF RecordsAreTrue, MigrationsAssumption
    <2>. QED
        BY <2>2, <2>3, <2>7, <2>8, OwnRecord
<1>7. ASSUME NEW p \in Programs, RecordFile(p)
      PROVE  MigrationInv'
    <2>1. PICK i \in DOMAIN Listed :
              /\ IsNext(i, program[p].todo)
              /\ db' = [db EXCEPT !.migrations = @ \union {Listed[i]}]
              /\ program' = [program EXCEPT ![p].pc = "files", ![p].todo = @ \ {i}]
        BY <1>7 DEF RecordFile
    <2>2. program[p].kind = "migrate" /\ program[p].pc = "insert"
        BY <1>7 DEF RecordFile, At
    <2>3. /\ DbIsRecord' /\ db'.migrations = db.migrations \union {Listed[i]} /\ db'.applied = db.applied
          /\ db'.schema = db.schema
        BY <2>1 DEF DbIsRecord
    <2>4. /\ ProgramsTyped' /\ program'[p].pc = "files" /\ program'[p].todo = program[p].todo \ {i}
          /\ \A q \in Programs : q # p => program'[q] = program[q]
        BY <2>1 DEF ProgramsTyped
    <2>5. Listed[i] \in db.applied
        BY <2>1, <2>2 DEF TodoSound
    <2>6. TodoSound'
        BY <2>2, <2>3, <2>4 DEF TodoSound
    <2>7. RecordsAreTrue'
        BY <2>3, <2>5 DEF RecordsAreTrue
    <2>. QED
        BY <2>3, <2>4, <2>6, <2>7
<1>8. CASE UNCHANGED migrationVars
    BY <1>8 DEF migrationVars, DbIsRecord, ProgramsTyped, TodoSound, RecordsAreTrue
<1>. QED
    BY <1>1, <1>2, <1>3, <1>4, <1>5, <1>6, <1>7, <1>8 DEF MigrationNext, MigrationStep

\* However many programs prepare the database side by side, and wherever each of them stops, what
\* the tables of records say is what has been executed.
THEOREM RecordsTrue == MigrationSpec => []RecordsAreTrue
<1>1. MigrationInv => RecordsAreTrue
    BY DEF MigrationInv
<1>. QED
    BY <1>1, MigrationInvInit, MigrationInvStep, PTL DEF MigrationSpec
=============================================================================
