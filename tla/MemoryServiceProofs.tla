------------------------- MODULE MemoryServiceProofs -------------------------
(***************************************************************************)
(* Theorems about MemoryService, for every set of requests and bound.      *)
(***************************************************************************)
EXTENDS MemoryService, TLAPS

-----------------------------------------------------------------------------
(* The inductive invariants.                                               *)

\* A key without an observation has no job.
NewKeysAreFree == \A k \in Key : obs[k].status = "absent" => job[k].status = "none"

\* What an observe call knows of its own row when its fast controls return.
AdmissionsFit ==
  \A r \in admissions : /\ obs[r.key].status # "absent"
                        /\ ~HasJob(r) => job[r.key].status = "none"

\* A dead process does nothing, and the crash itself pays for the attempt
\* that a job will lose when it is put back.
DownIsIdle ==
  ~up => /\ extractions = {} /\ admissions = {} /\ ~worker.running
         /\ \A k \in Key : job[k].status = "running"
                           => job[k].attempts < MaxAttempts + crashes

JobInv ==
  /\ OneExtractionPerJob
  /\ AttemptsBounded
  /\ ObservationFollowsJob
  /\ NewKeysAreFree
  /\ AdmissionsFit
  /\ DownIsIdle

FieldKey(k) == \A w \in Write : w.key = k => w.effect = "field"

\* As long as there is no receipt, only crashes can have left writes.
WriteInv ==
  /\ FieldWrittenOnce
  /\ \A k \in Key : FieldKey(k) /\ receipts[k] = NoBody => written[k] <= crashes

-----------------------------------------------------------------------------
(* Types.                                                                  *)

\* Rewriting the columns of one job with values of their domains.
LEMMA JobTyped ==
  ASSUME TypeOK, NEW k \in Key, NEW r \in JobRow
  PROVE  [job EXCEPT ![k] = r] \in [Key -> JobRow]
BY DEF TypeOK

\* Writing a column of a job with a value of its domain keeps the row typed.
LEMMA JobFieldTyped ==
  ASSUME NEW row \in JobRow, NEW s \in {"none", "pending", "running", "succeeded", "dead"},
         NEW n \in Nat, NEW d \in BOOLEAN
  PROVE  /\ [row EXCEPT !.status = s] \in JobRow
         /\ [row EXCEPT !.attempts = n] \in JobRow
         /\ [row EXCEPT !.due = d] \in JobRow
<1>1. [row EXCEPT !.status = s] \in JobRow
  BY DEF JobRow
<1>2. [row EXCEPT !.attempts = n] \in JobRow
  BY DEF JobRow
<1>3. [row EXCEPT !.due = d] \in JobRow
  BY DEF JobRow
<1> QED BY <1>1, <1>2, <1>3

\* The claim of a job and the two endings of its extraction are typed.
LEMMA EndingsTyped ==
  ASSUME TypeOK
  PROVE  /\ \A k \in Key : Claimed(k) \in [Key -> JobRow]
         /\ \A e \in extractions : /\ JobSucceeded(e) \in [Key -> JobRow]
                                   /\ JobFailed(e) \in [Key -> JobRow]
<1>1. ASSUME NEW k \in Key PROVE Claimed(k) \in [Key -> JobRow]
  <2> DEFINE r == [job[k] EXCEPT !.status = "running"]
  <2>1. r \in JobRow /\ r.attempts + 1 \in Nat
    <3>1. job[k] \in JobRow
      BY DEF TypeOK
    <3>2. r \in JobRow
      BY <3>1, JobFieldTyped
    <3>3. \A row \in JobRow : row.attempts + 1 \in Nat
      BY DEF JobRow
    <3> QED BY <3>2, <3>3
  <2>2. [r EXCEPT !.attempts = r.attempts + 1] \in JobRow
    BY <2>1, JobFieldTyped
  <2>3. r.attempts = job[k].attempts
    BY DEF TypeOK, JobRow
  <2>4. Claimed(k) = [job EXCEPT ![k] = [r EXCEPT !.attempts = r.attempts + 1]]
    BY <2>3 DEF TypeOK, Claimed
  <2> QED BY <2>2, <2>4, JobTyped
<1>2. ASSUME NEW e \in extractions
      PROVE  JobSucceeded(e) \in [Key -> JobRow] /\ JobFailed(e) \in [Key -> JobRow]
  <2> DEFINE s == IF Exhausted(e) THEN "dead" ELSE "pending"
             r == [job[e.key] EXCEPT !.status = s]
  <2>1. e.key \in Key
    BY <1>2 DEF TypeOK, Extraction
  <2>2. JobSucceeded(e) \in [Key -> JobRow]
    BY <2>1 DEF TypeOK, JobRow, JobSucceeded
  <2>3. job[e.key] \in JobRow /\ r \in JobRow
    BY <2>1, JobFieldTyped DEF TypeOK
  <2>4. [r EXCEPT !.due = FALSE] \in JobRow
    BY <2>3, JobFieldTyped
  <2>5. JobFailed(e) = [job EXCEPT ![e.key] = [r EXCEPT !.due = FALSE]]
    BY <2>1 DEF TypeOK, JobFailed
  <2> QED BY <2>1, <2>2, <2>4, <2>5, JobTyped
<1> QED BY <1>1, <1>2

\* A started extraction is typed, and so is the receipt of an admission.
LEMMA StartedTyped ==
  ASSUME TypeOK, NEW k \in Key, NEW by \in {"worker", "request"}
  PROVE  \A result \in SUBSET Part : Started(k, by, result) \in Extraction
BY DEF TypeOK, JobRow, Started, Extraction

LEMMA AdmittedTyped ==
  ASSUME TypeOK, NEW r \in Observation
  PROVE  Admitted(r) \in ObservationRow
BY RequestAssumption DEF TypeOK, Admitted, ObservationRow, Part

\* A write is counted up to its bound.
LEMMA AppliedTyped ==
  ASSUME TypeOK, NEW w \in Write, Begins(w)
  PROVE  Applied(w) \in [Key -> 0 .. MaxWrites]
<1>1. w.key \in Key /\ written[w.key] < MaxWrites /\ MaxWrites \in Nat
  BY RequestAssumption, BudgetAssumption DEF Begins
<1>2. written[w.key] \in 0 .. MaxWrites /\ written[w.key] + 1 \in 0 .. MaxWrites
  BY <1>1 DEF TypeOK
<1> QED BY <1>1, <1>2 DEF Applied, TypeOK

\* The step relation keeps every variable in its type.
LEMMA TypeInvariant == TypeOK /\ [Next]_vars => TypeOK'
<1> SUFFICES ASSUME TypeOK, [Next]_vars PROVE TypeOK'
  OBVIOUS
<1> USE RequestAssumption, BudgetAssumption DEF jobVars, writeVars, procVars
<1>1. ASSUME NEW r \in Observation, ObserveMemory(r) PROVE TypeOK'
  <2>1. r.key \in Key
    OBVIOUS
  <2>2. job' \in [Key -> JobRow]
    <3>1. [status |-> "pending", attempts |-> 0, due |-> TRUE] \in JobRow
      BY DEF JobRow
    <3> QED BY <1>1, <2>1, <3>1, JobTyped DEF ObserveMemory, TypeOK
  <2>3. obs' \in [Key -> ObservationRow]
    BY <1>1, <2>1 DEF ObserveMemory, TypeOK, ObservationRow, Part
  <2> QED BY <1>1, <2>2, <2>3 DEF ObserveMemory, TypeOK
<1>2. ASSUME NEW r \in Observation, ControlsReturn(r) PROVE TypeOK'
  <2>1. r.key \in Key /\ Admitted(r) \in ObservationRow
    BY AdmittedTyped
  <2>2. Admitted(r).result \in SUBSET Part
    BY <2>1 DEF ObservationRow
  <2>3. obs' \in [Key -> ObservationRow]
    BY <1>2, <2>1 DEF ControlsReturn, TypeOK
  <2>4. job' \in [Key -> JobRow] /\ extractions' \subseteq Extraction
    BY <1>2, <2>1, <2>2, EndingsTyped, StartedTyped DEF ControlsReturn, TypeOK
  <2> QED BY <1>2, <2>3, <2>4 DEF ControlsReturn, TypeOK
<1>3. ASSUME NEW e \in extractions, ExtractionReturns(e) PROVE TypeOK'
  <2>1. e.key \in Key /\ e.prior \in SUBSET Part
    BY DEF TypeOK, Extraction
  <2>2. obs' \in [Key -> ObservationRow]
    BY <1>3, <2>1 DEF ExtractionReturns, TypeOK, ObservationRow, Part
  <2> QED BY <1>3, <2>2, EndingsTyped DEF ExtractionReturns, TypeOK
<1>4. ASSUME NEW e \in extractions, ExtractionFails(e) PROVE TypeOK'
  <2>1. e.key \in Key /\ ObservationFailed(e) \in {"failed", "queued"}
    BY DEF TypeOK, Extraction, ObservationFailed
  <2>2. obs' \in [Key -> ObservationRow]
    BY <1>4, <2>1 DEF ExtractionFails, TypeOK, ObservationRow
  <2> QED BY <1>4, <2>2, EndingsTyped DEF ExtractionFails, TypeOK
<1>5. ASSUME NEW k \in Key, BackoffEnds(k) PROVE TypeOK'
  BY <1>5 DEF BackoffEnds, TypeOK, JobRow
<1>6. CASE Poll
  <2>1. PICK k \in Due : /\ worker' = [running |-> TRUE, batch |-> Due \ {k}]
                         /\ job' = Claimed(k)
                         /\ extractions' = extractions
                                           \cup {Started(k, "worker", obs[k].result)}
    BY <1>6 DEF Poll
  <2>2. k \in Key /\ obs[k].result \in SUBSET Part /\ Due \subseteq Key
    BY <2>1 DEF Due, TypeOK, ObservationRow
  <2>3. Started(k, "worker", obs[k].result) \in Extraction
    BY <2>2, StartedTyped
  <2>4. worker' \in [running: BOOLEAN, batch: SUBSET Key]
    BY <2>1, <2>2
  <2> QED BY <1>6, <2>1, <2>2, <2>3, <2>4, EndingsTyped DEF Poll, TypeOK
<1>7. CASE NextInBatch
  <2>1. CASE worker' = [worker EXCEPT !.running = FALSE] /\ UNCHANGED <<job, extractions>>
    BY <1>7, <2>1 DEF NextInBatch, TypeOK
  <2>2. ASSUME NEW k \in worker.batch,
               worker' = [worker EXCEPT !.batch = @ \ {k}],
               \/ /\ job' = Claimed(k)
                  /\ extractions' = extractions
                                    \cup {Started(k, "worker", obs[k].result)}
               \/ UNCHANGED <<job, extractions>>
        PROVE  TypeOK'
    <3>1. k \in Key /\ obs[k].result \in SUBSET Part
      BY DEF TypeOK, ObservationRow
    <3>2. Started(k, "worker", obs[k].result) \in Extraction
      BY <3>1, StartedTyped
    <3>3. worker' \in [running: BOOLEAN, batch: SUBSET Key]
      BY <2>2 DEF TypeOK
    <3>4. job' \in [Key -> JobRow] /\ extractions' \subseteq Extraction
      BY <2>2, <3>1, <3>2, EndingsTyped DEF TypeOK
    <3> QED BY <1>7, <3>3, <3>4 DEF NextInBatch, TypeOK
  <2> QED BY <1>7, <2>1, <2>2 DEF NextInBatch
<1>8. ASSUME NEW w \in Write, MutateMemory(w) PROVE TypeOK'
  <2>1. written' \in [Key -> 0 .. MaxWrites]
    BY <1>8, AppliedTyped DEF MutateMemory
  <2>2. receipts' \in [Key -> {v.body : v \in Write} \cup {NoBody}]
    BY <1>8 DEF MutateMemory, TypeOK
  <2>3. saving[w] \in 0 .. MaxWrites /\ saving[w] < MaxWrites
    BY <1>8 DEF MutateMemory, Begins, TypeOK
  <2>4. saving' \in [Write -> 0 .. MaxWrites]
    BY <1>8, <2>3 DEF MutateMemory, TypeOK
  <2> QED BY <1>8, <2>1, <2>2, <2>4 DEF MutateMemory, TypeOK
<1>9. ASSUME NEW w \in Write, SaveOperationReceipt(w) \/ WriteThrows(w) PROVE TypeOK'
  <2>1. receipts' \in [Key -> {v.body : v \in Write} \cup {NoBody}]
    BY <1>9 DEF SaveOperationReceipt, WriteThrows, TypeOK
  <2>2. saving[w] \in 0 .. MaxWrites /\ saving[w] > 0
    BY <1>9 DEF SaveOperationReceipt, WriteThrows, TypeOK
  <2>3. saving' \in [Write -> 0 .. MaxWrites]
    BY <1>9, <2>2 DEF SaveOperationReceipt, WriteThrows, TypeOK
  <2> QED BY <1>9, <2>1, <2>3 DEF SaveOperationReceipt, WriteThrows, TypeOK
<1>10. ASSUME Dies,
              job' \in [Key -> JobRow], written' \in [Key -> 0 .. MaxWrites],
              UNCHANGED <<obs, receipts>>
       PROVE  TypeOK'
  <2>1. crashes' \in 0 .. MaxCrashes
    BY <1>10 DEF Dies, TypeOK
  <2>2. saving' \in [Write -> 0 .. MaxWrites]
    <3>1. 0 \in 0 .. MaxWrites
      OBVIOUS
    <3> QED BY <1>10, <3>1 DEF Dies
  <2>3. worker' \in [running: BOOLEAN, batch: SUBSET Key]
    BY <1>10 DEF Dies
  <2>4. /\ up' \in BOOLEAN
        /\ admissions' \subseteq Observation
        /\ extractions' \subseteq Extraction
    BY <1>10 DEF Dies
  <2> QED BY <1>10, <2>1, <2>2, <2>3, <2>4 DEF TypeOK
<1>11. CASE Crash
  BY <1>10, <1>11 DEF Crash, TypeOK
<1>12. ASSUME NEW e \in extractions, CrashBeforeObservation(e) PROVE TypeOK'
  BY <1>10, <1>12, EndingsTyped DEF CrashBeforeObservation, TypeOK
<1>13. ASSUME NEW w \in Write, CrashBeforeReceipt(w) PROVE TypeOK'
  BY <1>10, <1>13, AppliedTyped DEF CrashBeforeReceipt, TypeOK
<1>14. CASE Restart
  <2>1. ResetJobs \in [Key -> JobRow]
    BY DEF ResetJobs, TypeOK, JobRow
  <2> QED BY <1>14, <2>1 DEF Restart, TypeOK
<1>15. CASE UNCHANGED vars
  BY <1>15 DEF vars, TypeOK
<1> QED BY <1>1, <1>2, <1>3, <1>4, <1>5, <1>6, <1>7, <1>8, <1>9, <1>11, <1>12,
           <1>13, <1>14, <1>15 DEF Next

\* The tables of a fresh database are typed.
LEMMA InitTyped == Init => TypeOK
BY BudgetAssumption, RequestAssumption DEF Init, TypeOK, ObservationRow, JobRow, Part

(* Every variable keeps its type, whatever requests arrive and however     *)
(* often the process dies.                                                 *)
THEOREM TypeCorrect == Spec => []TypeOK
BY InitTyped, TypeInvariant, PTL DEF Spec

-----------------------------------------------------------------------------
(* Jobs, extractions and observations.                                     *)

\* What the claim of a job and the endings of an extraction write.
LEMMA JobWrites ==
  ASSUME TypeOK
  PROVE  /\ \A k, j \in Key :
              /\ Claimed(k)[j].status = IF j = k THEN "running" ELSE job[j].status
              /\ Claimed(k)[j].attempts = IF j = k THEN job[j].attempts + 1
                                                   ELSE job[j].attempts
         /\ \A e \in extractions, j \in Key :
              /\ JobSucceeded(e)[j].status = IF j = e.key THEN "succeeded"
                                                          ELSE job[j].status
              /\ JobSucceeded(e)[j].attempts = job[j].attempts
              /\ JobFailed(e)[j].status = IF j # e.key THEN job[j].status
                                          ELSE IF Exhausted(e) THEN "dead" ELSE "pending"
              /\ JobFailed(e)[j].attempts = job[j].attempts
<1>1. ASSUME NEW k \in Key, NEW j \in Key
      PROVE  /\ Claimed(k)[j].status = IF j = k THEN "running" ELSE job[j].status
             /\ Claimed(k)[j].attempts = IF j = k THEN job[j].attempts + 1
                                                  ELSE job[j].attempts
  BY DEF TypeOK, JobRow, Claimed
<1>2. ASSUME NEW e \in extractions, NEW j \in Key
      PROVE  /\ JobSucceeded(e)[j].status = IF j = e.key THEN "succeeded"
                                                         ELSE job[j].status
             /\ JobSucceeded(e)[j].attempts = job[j].attempts
  BY DEF TypeOK, JobRow, JobSucceeded
<1>3. ASSUME NEW e \in extractions, NEW j \in Key
      PROVE  /\ JobFailed(e)[j].status = IF j # e.key THEN job[j].status
                                         ELSE IF Exhausted(e) THEN "dead" ELSE "pending"
             /\ JobFailed(e)[j].attempts = job[j].attempts
  BY DEF TypeOK, JobRow, JobFailed
<1> QED BY <1>1, <1>2, <1>3

\* A claim, by whomever, starts the only extraction of its job and spends an
\* attempt that the job still had.
LEMMA ClaimKeeps ==
  ASSUME TypeOK, JobInv, NEW k \in Key, Claimable(k), NEW by, NEW result,
         job' = Claimed(k),
         extractions' = extractions \cup {Started(k, by, result)},
         crashes' = crashes
  PROVE  OneExtractionPerJob' /\ AttemptsBounded'
<1>1. job[k].status = "pending" /\ job[k].attempts \in Nat
  BY DEF Claimable, TypeOK, JobRow
<1>2. \A e \in extractions : e.key \in Key /\ e.key # k
  BY <1>1 DEF JobInv, OneExtractionPerJob, TypeOK, Extraction
<1>3. \A j \in Key : /\ job'[j].status = IF j = k THEN "running" ELSE job[j].status
                     /\ job'[j].attempts = IF j = k THEN job[j].attempts + 1
                                                    ELSE job[j].attempts
  BY JobWrites
<1>4. OneExtractionPerJob'
  <2>1. Started(k, by, result).key = k
        /\ Started(k, by, result).attempt = job[k].attempts + 1
    BY DEF Started
  <2> QED BY <1>2, <1>3, <2>1 DEF JobInv, OneExtractionPerJob
<1>5. AttemptsBounded'
  <2>1. ASSUME NEW j \in Key
        PROVE  /\ job'[j].attempts <= MaxAttempts + crashes
               /\ job'[j].status = "pending" => job'[j].attempts < MaxAttempts + crashes
    <3>1. /\ job[j].attempts <= MaxAttempts + crashes
          /\ job[j].status = "pending" => job[j].attempts < MaxAttempts + crashes
          /\ job[j].attempts \in Nat /\ MaxAttempts + crashes \in Nat
      BY BudgetAssumption DEF JobInv, AttemptsBounded, TypeOK, JobRow
    <3> QED BY <1>1, <1>3, <3>1
  <2> QED BY <2>1 DEF AttemptsBounded
<1> QED BY <1>4, <1>5

\* The job that an extraction belongs to is running at its attempt.
LEMMA ExtractionFits ==
  ASSUME TypeOK, JobInv, NEW e \in extractions
  PROVE  /\ e.key \in Key
         /\ job[e.key].status = "running" /\ job[e.key].attempts = e.attempt
         /\ obs[e.key].status \notin {"absent", "completed", "failed"}
         /\ up
BY DEF TypeOK, Extraction, JobInv, OneExtractionPerJob, ObservationFollowsJob,
       NewKeysAreFree, DownIsIdle

\* When an extraction ends, its job is left at most one attempt short of the
\* bound if it waits again.
LEMMA EndingKeepsAttempts ==
  ASSUME TypeOK, JobInv, NEW e \in extractions,
         job' \in {JobSucceeded(e), JobFailed(e)},
         crashes' \in {crashes, crashes + 1}
  PROVE  /\ AttemptsBounded'
         /\ \A j \in Key : j # e.key => job'[j].status = job[j].status
         /\ job'[e.key].status \in {"succeeded", "dead", "pending"}
         /\ crashes' = crashes + 1 =>
              \A j \in Key : job'[j].status = "running" =>
                               job'[j].attempts < MaxAttempts + crashes'
<1> DEFINE bound == MaxAttempts + crashes
<1>1. /\ e.key \in Key /\ job[e.key].attempts = e.attempt
      /\ e.attempt \in Nat /\ MaxAttempts \in Nat /\ crashes \in Nat
  BY ExtractionFits, BudgetAssumption DEF TypeOK, Extraction
<1>2. \A j \in Key : /\ job'[j].attempts = job[j].attempts
                     /\ j # e.key => job'[j].status = job[j].status
  BY <1>1, JobWrites
<1>3. job'[e.key].status \in {"succeeded", "dead", "pending"}
  BY <1>1, JobWrites
<1>4. job'[e.key].status = "pending" => e.attempt < MaxAttempts
  <2>1. job'[e.key].status = "pending" => ~Exhausted(e)
    BY <1>1, JobWrites
  <2> QED BY <1>1, <2>1 DEF Exhausted
<1>5. \A j \in Key : /\ job[j].attempts \in Nat
                     /\ job[j].attempts <= bound
                     /\ job[j].status = "pending" => job[j].attempts < bound
  BY DEF JobInv, AttemptsBounded, TypeOK, JobRow
<1>6. AttemptsBounded'
  <2>1. ASSUME NEW j \in Key
        PROVE  /\ job'[j].attempts <= MaxAttempts + crashes'
               /\ job'[j].status = "pending" => job'[j].attempts < MaxAttempts + crashes'
    BY <1>1, <1>2, <1>4, <1>5
  <2> QED BY <2>1 DEF AttemptsBounded
<1>7. crashes' = crashes + 1 => \A j \in Key : job'[j].attempts < MaxAttempts + crashes'
  BY <1>1, <1>2, <1>5
<1> QED BY <1>2, <1>3, <1>6, <1>7

\* No step of a job, an extraction or an admission breaks what they know of
\* each other, and neither does the death of the process.
LEMMA JobInvariant == TypeOK /\ JobInv /\ [Next]_vars => JobInv'
<1> SUFFICES ASSUME TypeOK, JobInv, [Next]_vars PROVE JobInv'
  OBVIOUS
<1> USE RequestAssumption DEF jobVars, writeVars, procVars
<1> USE DEF JobInv
<1>1. ASSUME NEW r \in Observation, ObserveMemory(r) PROVE JobInv'
  <2>1. /\ r.key \in Key /\ obs[r.key].status = "absent" /\ job[r.key].status = "none"
        /\ up /\ up' /\ crashes' = crashes /\ extractions' = extractions
    BY <1>1 DEF ObserveMemory, NewKeysAreFree
  <2>2. \A k \in Key : k # r.key => job'[k] = job[k] /\ obs'[k] = obs[k]
    BY <1>1, <2>1 DEF ObserveMemory, TypeOK
  <2>3. \/ /\ HasJob(r)
           /\ job'[r.key] = [status |-> "pending", attempts |-> 0, due |-> TRUE]
           /\ obs'[r.key].status = "queued"
        \/ /\ ~HasJob(r) /\ job'[r.key] = job[r.key]
           /\ obs'[r.key].status \in {"accepted", "completed"}
    BY <1>1, <2>1 DEF ObserveMemory, TypeOK, ObservationRow, HasJob
  <2>4. OneExtractionPerJob'
    BY <2>1, <2>2 DEF OneExtractionPerJob, TypeOK, Extraction
  <2>5. AttemptsBounded'
    <3>1. 0 < MaxAttempts + crashes /\ 0 <= MaxAttempts + crashes
      BY BudgetAssumption DEF TypeOK
    <3> QED BY <2>1, <2>2, <2>3, <3>1 DEF AttemptsBounded
  <2>6. ObservationFollowsJob' /\ NewKeysAreFree'
    BY <2>1, <2>2, <2>3 DEF ObservationFollowsJob, NewKeysAreFree
  <2>7. AdmissionsFit'
    <3>1. admissions' \subseteq admissions \cup {r}
      BY <1>1 DEF ObserveMemory
    <3>2. \A q \in admissions : q.key \in Key /\ q.key # r.key
      BY <2>1 DEF AdmissionsFit, TypeOK
    <3> QED BY <2>1, <2>2, <2>3, <3>1, <3>2 DEF AdmissionsFit
  <2>8. DownIsIdle'
    BY <2>1 DEF DownIsIdle
  <2> QED BY <2>4, <2>5, <2>6, <2>7, <2>8
<1>2. ASSUME NEW k \in Key, Claimable(k), NEW by, NEW result,
             job' = Claimed(k),
             extractions' = extractions \cup {Started(k, by, result)},
             up, UNCHANGED procVars,
             admissions' \subseteq admissions,
             \A j \in Key : \/ obs'[j].status = obs[j].status
                            \/ /\ obs[j].status # "absent"
                               /\ obs'[j].status = "queued"
      PROVE  JobInv'
  <2>1. OneExtractionPerJob' /\ AttemptsBounded'
    BY <1>2, ClaimKeeps
  <2>2. \A j \in Key : job'[j].status = IF j = k THEN "running" ELSE job[j].status
    BY <1>2, JobWrites
  <2>3. job[k].status = "pending"
    BY <1>2 DEF Claimable
  <2>4. ObservationFollowsJob' /\ NewKeysAreFree'
    BY <1>2, <2>2, <2>3 DEF ObservationFollowsJob, NewKeysAreFree
  <2>5. AdmissionsFit'
    <3>1. \A q \in admissions : q.key \in Key
      BY DEF TypeOK
    <3> QED BY <1>2, <2>2, <2>3, <3>1 DEF AdmissionsFit
  <2>6. DownIsIdle'
    BY <1>2 DEF DownIsIdle
  <2> QED BY <2>1, <2>4, <2>5, <2>6
<1>3. ASSUME NEW r \in Observation, ControlsReturn(r) PROVE JobInv'
  <2>1. /\ r.key \in Key /\ r \in admissions /\ up
        /\ admissions' \subseteq admissions
        /\ obs[r.key].status # "absent"
        /\ ~HasJob(r) => job[r.key].status = "none"
    BY <1>3 DEF ControlsReturn, AdmissionsFit, DownIsIdle
  <2>2. \A j \in Key : obs'[j] = IF j = r.key THEN Admitted(r) ELSE obs[j]
    BY <1>3, <2>1 DEF ControlsReturn, TypeOK
  <2>3. \/ Admitted(r).status = obs[r.key].status
        \/ Admitted(r).status = "queued"
        \/ Admitted(r).status = "completed" /\ ~HasJob(r)
    BY DEF Admitted
  <2>4. CASE r.mode = "sync" /\ HasJob(r) /\ Claimable(r.key)
    BY <1>2, <1>3, <2>1, <2>2, <2>3, <2>4 DEF ControlsReturn
  <2>5. CASE ~(r.mode = "sync" /\ HasJob(r) /\ Claimable(r.key))
    <3>1. UNCHANGED <<job, extractions, up, crashes, worker>>
      BY <1>3, <2>5 DEF ControlsReturn
    <3>2. ObservationFollowsJob' /\ NewKeysAreFree'
      BY <2>1, <2>2, <2>3, <3>1 DEF ObservationFollowsJob, NewKeysAreFree
    <3>3. AdmissionsFit'
      <4>1. \A q \in admissions : q.key \in Key
        BY DEF TypeOK
      <4> QED BY <2>1, <2>2, <2>3, <3>1, <4>1 DEF AdmissionsFit
    <3>4. OneExtractionPerJob' /\ AttemptsBounded'
      BY <3>1 DEF OneExtractionPerJob, AttemptsBounded
    <3>5. DownIsIdle'
      BY <2>1, <3>1 DEF DownIsIdle
    <3> QED BY <3>2, <3>3, <3>4, <3>5
  <2> QED BY <2>4, <2>5
<1>4. ASSUME NEW e \in extractions,
             job' \in {JobSucceeded(e), JobFailed(e)},
             crashes' \in {crashes, crashes + 1},
             extractions' \subseteq extractions \ {e},
             admissions' \subseteq admissions,
             \A j \in Key \ {e.key} : obs'[j].status = obs[j].status,
             obs'[e.key].status = "completed" => job' = JobSucceeded(e),
             obs'[e.key].status = "failed" => job'[e.key].status = "dead",
             obs'[e.key].status # "absent",
             up' \/ Dies
      PROVE  JobInv'
  <2>1. e.key \in Key /\ job[e.key].status = "running"
    BY ExtractionFits
  <2>2. /\ AttemptsBounded'
        /\ \A j \in Key : j # e.key => job'[j].status = job[j].status
        /\ job'[e.key].status \in {"succeeded", "dead", "pending"}
        /\ crashes' = crashes + 1 =>
             \A j \in Key : job'[j].status = "running" =>
                              job'[j].attempts < MaxAttempts + crashes'
    BY <1>4, EndingKeepsAttempts
  <2>3. OneExtractionPerJob'
    <3>1. \A f \in extractions' : f \in extractions /\ f.key \in Key /\ f.key # e.key
      BY <1>4 DEF OneExtractionPerJob, TypeOK, Extraction
    <3>2. \A j \in Key : job'[j].attempts = job[j].attempts
      BY <1>4, JobWrites
    <3> QED BY <2>2, <3>1, <3>2 DEF OneExtractionPerJob
  <2>4. ObservationFollowsJob' /\ NewKeysAreFree'
    <3>1. job' = JobSucceeded(e) => job'[e.key].status = "succeeded"
      BY <2>1, JobWrites
    <3> QED BY <1>4, <2>1, <2>2, <3>1 DEF ObservationFollowsJob, NewKeysAreFree
  <2>5. AdmissionsFit'
    <3>1. \A q \in admissions : q.key \in Key
      BY DEF TypeOK
    <3> QED BY <1>4, <2>1, <2>2, <3>1 DEF AdmissionsFit
  <2>6. DownIsIdle'
    BY <1>4, <2>2 DEF DownIsIdle, Dies
  <2> QED BY <2>2, <2>3, <2>4, <2>5, <2>6
<1>5. ASSUME NEW e \in extractions, ExtractionReturns(e) PROVE JobInv'
  <2>1. e.key \in Key /\ up /\ obs[e.key].status # "absent"
    BY ExtractionFits
  <2>2. /\ obs'[e.key].status = "completed"
        /\ \A j \in Key \ {e.key} : obs'[j].status = obs[j].status
    BY <1>5, <2>1 DEF ExtractionReturns, TypeOK
  <2> QED BY <1>4, <1>5, <2>1, <2>2 DEF ExtractionReturns
<1>6. ASSUME NEW e \in extractions, ExtractionFails(e) PROVE JobInv'
  <2>1. e.key \in Key /\ up
    BY ExtractionFits
  <2>2. /\ obs'[e.key].status = ObservationFailed(e)
        /\ \A j \in Key \ {e.key} : obs'[j].status = obs[j].status
    BY <1>6, <2>1 DEF ExtractionFails, TypeOK, ObservationRow
  <2>3. obs'[e.key].status = "failed" => job'[e.key].status = "dead"
    BY <1>6, <2>1, <2>2, JobWrites DEF ObservationFailed, ExtractionFails
  <2>4. obs'[e.key].status \in {"failed", "queued"}
    BY <2>2 DEF ObservationFailed
  <2> QED BY <1>4, <1>6, <2>1, <2>2, <2>3, <2>4 DEF ExtractionFails
<1>7. ASSUME UNCHANGED <<obs, admissions, extractions, worker, up, crashes>>,
             \A j \in Key : /\ job'[j].status = job[j].status
                            /\ job'[j].attempts = job[j].attempts
      PROVE  JobInv'
  <2>1. /\ \A q \in admissions : q.key \in Key
        /\ \A e \in extractions : e.key \in Key
    BY DEF TypeOK, Extraction
  <2> QED BY <1>7, <2>1 DEF OneExtractionPerJob, AttemptsBounded, ObservationFollowsJob,
                            NewKeysAreFree, AdmissionsFit, DownIsIdle
<1>8. ASSUME NEW k \in Key, BackoffEnds(k) PROVE JobInv'
  <2>1. \A j \in Key : /\ job'[j].status = job[j].status
                       /\ job'[j].attempts = job[j].attempts
    BY <1>8 DEF BackoffEnds, TypeOK, JobRow
  <2> QED BY <1>7, <1>8, <2>1 DEF BackoffEnds
<1>9. CASE Poll
  <2>1. PICK k \in Due : /\ job' = Claimed(k)
                         /\ extractions' = extractions
                                           \cup {Started(k, "worker", obs[k].result)}
    BY <1>9 DEF Poll
  <2>2. k \in Key /\ Claimable(k)
    BY <2>1 DEF Due
  <2> QED BY <1>2, <1>9, <2>1, <2>2 DEF Poll
<1>10. CASE NextInBatch
  <2>1. UNCHANGED <<obs, admissions, up, crashes>> /\ up
    BY <1>10 DEF NextInBatch, DownIsIdle
  <2>2. CASE UNCHANGED <<job, extractions>>
    <3>1. DownIsIdle'
      BY <2>1 DEF DownIsIdle
    <3> QED BY <2>1, <2>2, <3>1 DEF OneExtractionPerJob, AttemptsBounded,
                 ObservationFollowsJob, NewKeysAreFree, AdmissionsFit
  <2>3. CASE \E k \in worker.batch :
               /\ Claimable(k) /\ job' = Claimed(k)
               /\ extractions' = extractions \cup {Started(k, "worker", obs[k].result)}
    BY <1>2, <2>1, <2>3 DEF TypeOK
  <2> QED BY <1>10, <2>2, <2>3 DEF NextInBatch
<1>11. ASSUME NEW w \in Write, MutateMemory(w) \/ SaveOperationReceipt(w) \/ WriteThrows(w)
       PROVE  JobInv'
  BY <1>7, <1>11 DEF MutateMemory, SaveOperationReceipt, WriteThrows
<1>12. ASSUME NEW e \in extractions, CrashBeforeObservation(e) PROVE JobInv'
  <2>1. e.key \in Key /\ obs[e.key].status \notin {"absent", "completed", "failed"}
    BY ExtractionFits
  <2> QED BY <1>4, <1>12, <2>1 DEF CrashBeforeObservation, Dies
<1>13. ASSUME Dies, UNCHANGED <<obs, job>> PROVE JobInv'
  <2>1. crashes' = crashes + 1 /\ crashes \in Nat /\ MaxAttempts \in Nat
    BY <1>13, BudgetAssumption DEF Dies, TypeOK
  <2>2. \A j \in Key : job[j].attempts \in Nat
    BY DEF TypeOK, JobRow
  <2>3. AttemptsBounded' /\ DownIsIdle'
    BY <1>13, <2>1, <2>2 DEF AttemptsBounded, DownIsIdle, Dies
  <2> QED BY <1>13, <2>3 DEF Dies, OneExtractionPerJob, ObservationFollowsJob,
                             NewKeysAreFree, AdmissionsFit
<1>14. CASE Restart
  <2>1. /\ extractions = {} /\ admissions = {} /\ up' /\ extractions' = {}
        /\ admissions' = {} /\ UNCHANGED <<obs, crashes>>
    BY <1>14 DEF Restart, DownIsIdle
  <2>2. \A k \in Key :
          /\ job'[k].status = IF job[k].status = "running" THEN "pending" ELSE job[k].status
          /\ job'[k].attempts = job[k].attempts
    BY <1>14 DEF Restart, ResetJobs, TypeOK, JobRow
  <2>3. AttemptsBounded'
    BY <1>14, <2>1, <2>2 DEF AttemptsBounded, DownIsIdle, Restart
  <2>4. ObservationFollowsJob' /\ NewKeysAreFree'
    BY <2>1, <2>2 DEF ObservationFollowsJob, NewKeysAreFree
  <2> QED BY <2>1, <2>3, <2>4 DEF OneExtractionPerJob, AdmissionsFit, DownIsIdle
<1>15. CASE UNCHANGED vars
  BY <1>7, <1>15 DEF vars
<1>16. CASE \E w \in Write : CrashBeforeReceipt(w)
  BY <1>13, <1>16 DEF CrashBeforeReceipt
<1>17. CASE Crash
  BY <1>13, <1>17 DEF Crash
<1> QED BY <1>1, <1>3, <1>5, <1>6, <1>8, <1>9, <1>10, <1>11, <1>12, <1>14, <1>15,
           <1>16, <1>17 DEF Next

\* A fresh database has no jobs.
LEMMA JobInit == Init => JobInv
BY BudgetAssumption DEF Init, JobInv, OneExtractionPerJob, AttemptsBounded,
   ObservationFollowsJob, NewKeysAreFree, AdmissionsFit, DownIsIdle

(* The facts about jobs, extractions, observations and admissions that     *)
(* only hold together hold in every reachable state.                       *)
THEOREM JobsCorrect == Spec => []JobInv
BY InitTyped, TypeInvariant, JobInit, JobInvariant, PTL DEF Spec

(* No job is ever extracted twice at a time, for any number of jobs,       *)
(* requests and restarts.                                                  *)
THEOREM ExtractionsExclusive == Spec => []OneExtractionPerJob
BY JobsCorrect, PTL DEF JobInv

(* Only crashes take a job past its attempts, however the worker, the      *)
(* requests and the restarts interleave.                                   *)
THEOREM AttemptsCorrect == Spec => []AttemptsBounded
BY JobsCorrect, PTL DEF JobInv

(* The ending an observation shows is that of its job.                     *)
THEOREM ObservationsCorrect == Spec => []ObservationFollowsJob
BY JobsCorrect, PTL DEF JobInv

-----------------------------------------------------------------------------
(* Endings and receipts.                                                   *)

\* A step that writes an observation finds it neither completed nor failed.
LEMMA EndedKept ==
  ASSUME TypeOK, JobInv, Next, NEW k \in Key, obs[k].status \in {"completed", "failed"}
  PROVE  obs'[k] = obs[k]
<1>1. ASSUME NEW r \in Observation, ObserveMemory(r) PROVE obs'[k] = obs[k]
  BY <1>1, RequestAssumption DEF ObserveMemory, TypeOK
<1>2. ASSUME NEW r \in Observation, ControlsReturn(r) PROVE obs'[k] = obs[k]
  BY <1>2, RequestAssumption DEF ControlsReturn, Admitted, TypeOK
<1>3. ASSUME NEW e \in extractions PROVE e.key \in Key /\ e.key # k
  BY <1>3, ExtractionFits
<1>4. ASSUME NEW e \in extractions, ExtractionReturns(e) \/ ExtractionFails(e)
      PROVE  obs'[k] = obs[k]
  BY <1>3, <1>4 DEF ExtractionReturns, ExtractionFails, TypeOK
<1> QED
  BY <1>1, <1>2, <1>4
     DEF Next, CrashBeforeObservation, BackoffEnds, Poll, NextInBatch, MutateMemory,
         SaveOperationReceipt, WriteThrows, CrashBeforeReceipt, Crash, Restart, jobVars

(* Nothing overwrites the ending of an observation, the late receipt of    *)
(* its admission included (observeMemory).                                 *)
THEOREM EndingsStay == Spec => EndedStaysEnded
<1>1. TypeOK /\ JobInv /\ [Next]_vars
      => [\A k \in Key : obs[k].status \in {"completed", "failed"}
                         => obs'[k] = obs[k]]_vars
  BY EndedKept
<1> QED BY <1>1, TypeCorrect, JobsCorrect, PTL DEF Spec, EndedStaysEnded

\* A field is written only without a receipt and then gets one in the same
\* step, or in a step in which the process dies.
LEMMA WriteInvariant == TypeOK /\ WriteInv /\ [Next]_vars => WriteInv'
<1> SUFFICES ASSUME TypeOK, WriteInv, [Next]_vars, NEW k \in Key, FieldKey(k)
             PROVE  /\ written'[k] <= 1 + crashes'
                    /\ receipts'[k] = NoBody => written'[k] <= crashes'
  BY DEF WriteInv, FieldWrittenOnce, FieldKey
<1>1. /\ written[k] \in Nat /\ crashes \in Nat
      /\ written[k] <= 1 + crashes
      /\ receipts[k] = NoBody => written[k] <= crashes
  BY BudgetAssumption DEF WriteInv, FieldWrittenOnce, FieldKey, TypeOK
<1>2. ASSUME NEW w \in Write, Begins(w)
      PROVE  /\ w.key \in Key /\ receipts[w.key] = NoBody
             /\ w.body # NoBody
             /\ w.key = k => w.effect = "field" /\ Applied(w)[k] = written[k] + 1
             /\ w.key # k => Applied(w)[k] = written[k]
  BY <1>2, RequestAssumption DEF Begins, Unreceipted, Applied, FieldKey, TypeOK
<1>3. ASSUME NEW w \in Write, MutateMemory(w)
      PROVE  /\ written'[k] <= 1 + crashes'
             /\ receipts'[k] = NoBody => written'[k] <= crashes'
  <2>1. Begins(w) /\ crashes' = crashes /\ written' = Applied(w)
    BY <1>3 DEF MutateMemory, procVars
  <2>2. CASE w.key = k
    <3>1. receipts'[k] = w.body
      BY <1>2, <1>3, <2>1, <2>2 DEF MutateMemory, TypeOK
    <3> QED BY <1>1, <1>2, <2>1, <2>2, <3>1
  <2>3. CASE w.key # k
    <3>1. receipts'[k] = receipts[k]
      BY <1>2, <1>3, <2>1, <2>3 DEF MutateMemory, TypeOK
    <3> QED BY <1>1, <1>2, <2>1, <2>3, <3>1
  <2> QED BY <2>2, <2>3
<1>4. ASSUME NEW w \in Write, SaveOperationReceipt(w)
      PROVE  receipts'[k] = NoBody => receipts[k] = NoBody
  BY <1>4, RequestAssumption DEF SaveOperationReceipt, Unreceipted, TypeOK
<1>5. ASSUME NEW w \in Write, CrashBeforeReceipt(w)
      PROVE  /\ written'[k] <= 1 + crashes'
             /\ receipts'[k] = NoBody => written'[k] <= crashes'
  <2>1. /\ Begins(w) /\ crashes' = crashes + 1 /\ written' = Applied(w)
        /\ receipts' = receipts
    BY <1>5 DEF CrashBeforeReceipt, Dies
  <2> QED BY <1>1, <1>2, <2>1
<1>6. CASE Crash
  BY <1>1, <1>6 DEF Crash, Dies
<1>7. ASSUME NEW w \in Write, SaveOperationReceipt(w)
      PROVE  /\ written'[k] <= 1 + crashes'
             /\ receipts'[k] = NoBody => written'[k] <= crashes'
  BY <1>1, <1>4, <1>7 DEF SaveOperationReceipt, procVars
<1>8. ASSUME NEW e \in extractions, CrashBeforeObservation(e)
      PROVE  /\ written'[k] <= 1 + crashes'
             /\ receipts'[k] = NoBody => written'[k] <= crashes'
  BY <1>1, <1>8 DEF CrashBeforeObservation, Dies
<1>9. ASSUME UNCHANGED <<receipts, written, crashes>>
      PROVE  /\ written'[k] <= 1 + crashes'
             /\ receipts'[k] = NoBody => written'[k] <= crashes'
  BY <1>1, <1>9
<1> QED
  BY <1>3, <1>5, <1>6, <1>7, <1>8, <1>9
     DEF Next, ObserveMemory, ControlsReturn, ExtractionReturns, ExtractionFails,
         BackoffEnds, Poll, NextInBatch, WriteThrows, Restart, vars, jobVars,
         writeVars, procVars

\* A fresh database has no writes.
LEMMA WriteInit == Init => WriteInv
BY DEF Init, WriteInv, FieldWrittenOnce, FieldKey

(* A field is written once per key, but for deaths of the process between  *)
(* a write and its receipt, however often and at whatever time clients     *)
(* repeat their requests.                                                  *)
THEOREM FieldsOnce == Spec => []FieldWrittenOnce
<1>1. WriteInv => FieldWrittenOnce
  BY DEF WriteInv
<1> QED BY <1>1, InitTyped, TypeInvariant, WriteInit, WriteInvariant, PTL DEF Spec
=============================================================================
