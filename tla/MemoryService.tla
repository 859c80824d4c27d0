---------------------------- MODULE MemoryService ----------------------------
(***************************************************************************)
(* The headless memory service of lib/memory-service.js: observations with *)
(* their extraction jobs, and idempotent writes with their receipts, in    *)
(* one server process over SQLite that may die and be restarted.           *)
(*                                                                         *)
(* A handler is one step up to its next await.  A job and its observation, *)
(* and a write and its receipt, are separate statements: no other handler  *)
(* comes between them, but the death of the process does.                  *)
(*                                                                         *)
(* What an extraction or a write puts into the ledger is not in here, only *)
(* that it happened.  A request that meets its own receipt, or that of     *)
(* another payload, is answered and changes nothing, so it is not a step.  *)
(*                                                                         *)
(* An operator named for a mistake stands before the one it mistakes; no   *)
(* action uses it, the checks substitute it.                               *)
(***************************************************************************)
EXTENDS Naturals, FiniteSets

CONSTANTS
  Key,          \* idempotency keys of one tenant
  Observation,  \* observe requests, and
  Write,        \* mutate and forget requests, that clients may send, repeatedly
  NoBody,       \* the body of a receipt that does not exist
  MaxAttempts,  \* jobMaxAttempts()
  MaxCrashes,   \* bound: deaths of the process
  MaxWrites     \* bound: writes made under one key, and concurrent calls of one

Modes == {"async", "sync", "none"}

(* What a write does: "field" is synchronous (a structured field, or a     *)
(* claim that is forgotten), "create" (an event or a claim) and "revise"   *)
(* (an event) await an embedding; the ledger notices a repeated creation,  *)
(* not a repeated revision.                                                *)
Effects == {"field", "create", "revise"}

ASSUME RequestAssumption ==
  /\ \A r \in Observation : r.key \in Key /\ r.mode \in Modes /\ r.user \in BOOLEAN
  /\ \A w \in Write : w.key \in Key /\ w.effect \in Effects /\ w.body # NoBody

ASSUME BudgetAssumption ==
  /\ MaxAttempts \in Nat \ {0}
  /\ MaxCrashes \in Nat
  /\ MaxWrites \in Nat

VARIABLES
  obs,         \* rows of memory_observations, by idempotency key
  job,         \* rows of memory_jobs, by the key of their observation
  receipts,    \* bodies in memory_operation_receipts, by idempotency key
  written,     \* how often the ledger was written under a key
  admissions,  \* observe calls that await their fast controls
  extractions, \* calls of processMemoryJob that await the extraction
  saving,      \* writes that await, their receipts still to be saved, counted
  worker,      \* the interval worker: workerRunning and the rest of its batch
  up,          \* the process is alive
  crashes      \* deaths so far

jobVars   == <<obs, job, admissions, extractions, worker>>
writeVars == <<receipts, written, saving>>
procVars  == <<up, crashes>>
vars == <<jobVars, writeVars, procVars>>

Part == {"admission", "extraction"}

ObservationRow ==
  [status: {"absent", "accepted", "queued", "completed", "failed"}, result: SUBSET Part]

JobRow == [status: {"none", "pending", "running", "succeeded", "dead"},
           attempts: Nat, due: BOOLEAN]

(* An extraction remembers the attempt it was claimed for and the result   *)
(* column of its observation as it was then.                               *)
Extraction == [key: Key, by: {"worker", "request"}, attempt: Nat, prior: SUBSET Part]

TypeOK ==
  /\ obs \in [Key -> ObservationRow]
  /\ job \in [Key -> JobRow]
  /\ receipts \in [Key -> {w.body : w \in Write} \cup {NoBody}]
  /\ written \in [Key -> 0 .. MaxWrites]
  /\ admissions \subseteq Observation
  /\ extractions \subseteq Extraction
  /\ saving \in [Write -> 0 .. MaxWrites]
  /\ worker \in [running: BOOLEAN, batch: SUBSET Key]
  /\ up \in BOOLEAN
  /\ crashes \in 0 .. MaxCrashes

-----------------------------------------------------------------------------
(* processMemoryJob: the claim and the two endings of an extraction.       *)

ClaimableEvenRunning(k) == job[k].status \in {"pending", "running"} /\ job[k].due

Claimable(k) == job[k].status = "pending" /\ job[k].due

Claimed(k) == [job EXCEPT ![k].status = "running", ![k].attempts = @ + 1]

Started(k, by, result) ==
  [key |-> k, by |-> by, attempt |-> job[k].attempts + 1, prior |-> result]

JobSucceeded(e) == [job EXCEPT ![e.key].status = "succeeded"]

Exhausted(e) == e.attempt >= MaxAttempts

JobFailedMisnamed(e) ==
  [job EXCEPT ![e.key].status = IF Exhausted(e) THEN "failed" ELSE "pending",
              ![e.key].due = FALSE]

JobFailed(e) ==
  [job EXCEPT ![e.key].status = IF Exhausted(e) THEN "dead" ELSE "pending",
              ![e.key].due = FALSE]

ExtractionReturns(e) ==
  /\ job' = JobSucceeded(e)
  /\ obs' = [obs EXCEPT ![e.key] = [status |-> "completed",
                                    result |-> e.prior \cup {"extraction"}]]
  /\ extractions' = extractions \ {e}
  /\ UNCHANGED <<admissions, worker, writeVars, procVars>>

ObservationGivenUp(e) == "failed"

ObservationFailed(e) == IF Exhausted(e) THEN "failed" ELSE "queued"

\* The extraction throws, or its agent is gone.
ExtractionFails(e) ==
  /\ job' = JobFailed(e)
  /\ obs' = [obs EXCEPT ![e.key].status = ObservationFailed(e)]
  /\ extractions' = extractions \ {e}
  /\ UNCHANGED <<admissions, worker, writeVars, procVars>>

\* available_at of a job that failed is reached.
BackoffEnds(k) ==
  /\ job[k].status = "pending" /\ ~job[k].due
  /\ job' = [job EXCEPT ![k].due = TRUE]
  /\ UNCHANGED <<obs, admissions, extractions, worker, writeVars, procVars>>

-----------------------------------------------------------------------------
(* The interval worker: a tick that finds it running does nothing.         *)

Due == {k \in Key : Claimable(k)}

\* The tick selects what is due and starts one job in the same turn.
Poll ==
  /\ up /\ ~worker.running
  /\ \E k \in Due :
       /\ worker' = [running |-> TRUE, batch |-> Due \ {k}]
       /\ job' = Claimed(k)
       /\ extractions' = extractions \cup {Started(k, "worker", obs[k].result)}
  /\ UNCHANGED <<obs, admissions, writeVars, procVars>>

\* The worker goes on with its batch; a job somebody else claimed is passed.
NextInBatch ==
  /\ worker.running
  /\ \A e \in extractions : e.by # "worker"
  /\ \/ /\ worker.batch = {}
        /\ worker' = [worker EXCEPT !.running = FALSE]
        /\ UNCHANGED <<job, extractions>>
     \/ \E k \in worker.batch :
          /\ worker' = [worker EXCEPT !.batch = @ \ {k}]
          /\ IF Claimable(k)
             THEN /\ job' = Claimed(k)
                  /\ extractions' = extractions
                                    \cup {Started(k, "worker", obs[k].result)}
             ELSE UNCHANGED <<job, extractions>>
  /\ UNCHANGED <<obs, admissions, writeVars, procVars>>

-----------------------------------------------------------------------------
(* observeMemory.                                                          *)

HasJob(r) == r.mode # "none" /\ r.user

\* A new key: evidence and job in one transaction, then the fast controls.
ObserveMemory(r) ==
  /\ up
  /\ obs[r.key].status = "absent"
  /\ IF HasJob(r)
     THEN job' = [job EXCEPT ![r.key] = [status |-> "pending", attempts |-> 0,
                                         due |-> TRUE]]
     ELSE UNCHANGED job
  /\ IF r.user
     THEN /\ obs' = [obs EXCEPT ![r.key].status = IF HasJob(r) THEN "queued"
                                                               ELSE "accepted"]
          /\ admissions' = admissions \cup {r}
     ELSE /\ obs' = [obs EXCEPT ![r.key] = [status |-> "completed",
                                            result |-> {"admission"}]]
          /\ UNCHANGED admissions
  /\ UNCHANGED <<extractions, worker, writeVars, procVars>>

AdmittedRegardless(r) ==
  [status |-> IF HasJob(r) THEN "queued" ELSE "completed", result |-> {"admission"}]

\* The worker may have ended the job while the fast controls were awaited.
Admitted(r) ==
  IF obs[r.key].status \in {"accepted", "queued"}
  THEN [status |-> IF HasJob(r) THEN "queued" ELSE "completed", result |-> {"admission"}]
  ELSE obs[r.key]

ControlsReturn(r) ==
  /\ r \in admissions
  /\ admissions' = admissions \ {r}
  /\ obs' = [obs EXCEPT ![r.key] = Admitted(r)]
  /\ IF r.mode = "sync" /\ HasJob(r) /\ Claimable(r.key)
     THEN /\ job' = Claimed(r.key)
          /\ extractions' = extractions
                            \cup {Started(r.key, "request", Admitted(r).result)}
     ELSE UNCHANGED <<job, extractions>>
  /\ UNCHANGED <<worker, writeVars, procVars>>

-----------------------------------------------------------------------------
(* mutateMemory and forgetMemory.                                          *)

UnreceiptedBody(w) == receipts[w.key] # w.body

Unreceipted(w) == receipts[w.key] = NoBody

\* The ledger after the write: a creation it already has is not repeated.
Applied(w) ==
  [written EXCEPT ![w.key] = IF w.effect = "create" /\ @ > 0 THEN @ ELSE @ + 1]

Begins(w) ==
  up /\ Unreceipted(w) /\ written[w.key] < MaxWrites /\ saving[w] < MaxWrites

MutateMemory(w) ==
  /\ Begins(w)
  /\ written' = Applied(w)
  /\ IF w.effect = "field"
     THEN /\ receipts' = [receipts EXCEPT ![w.key] = w.body]
          /\ UNCHANGED saving
     ELSE /\ saving' = [saving EXCEPT ![w] = @ + 1]
          /\ UNCHANGED receipts
  /\ UNCHANGED <<jobVars, procVars>>

\* A second receipt for the key meets UNIQUE(tenant_id, idempotency_key).
SaveOperationReceipt(w) ==
  /\ saving[w] > 0
  /\ saving' = [saving EXCEPT ![w] = @ - 1]
  /\ receipts' = [receipts EXCEPT ![w.key] = IF Unreceipted(w) THEN w.body ELSE @]
  /\ UNCHANGED <<written, jobVars, procVars>>

\* The embedding or a required projection throws after the rows are written.
WriteThrows(w) ==
  /\ saving[w] > 0
  /\ saving' = [saving EXCEPT ![w] = @ - 1]
  /\ UNCHANGED <<receipts, written, jobVars, procVars>>

-----------------------------------------------------------------------------
(* The process dies, between handlers or between two of their statements,  *)
(* and is started again.                                                   *)

Dies ==
  /\ up /\ crashes < MaxCrashes
  /\ up' = FALSE
  /\ crashes' = crashes + 1
  /\ admissions' = {}
  /\ extractions' = {}
  /\ saving' = [w \in Write |-> 0]
  /\ worker' = [running |-> FALSE, batch |-> {}]

Crash == Dies /\ UNCHANGED <<obs, job, receipts, written>>

CrashBeforeObservation(e) ==
  /\ Dies
  /\ job' \in {JobSucceeded(e), JobFailed(e)}
  /\ UNCHANGED <<obs, receipts, written>>

CrashBeforeReceipt(w) ==
  /\ Dies
  /\ Begins(w)
  /\ written' = Applied(w)
  /\ UNCHANGED <<obs, job, receipts>>

StartKeepingRunning == job

\* startMemoryJobWorker, when the server listens.
ResetJobs ==
  [k \in Key |-> IF job[k].status = "running"
                 THEN [job[k] EXCEPT !.status = "pending", !.due = TRUE] ELSE job[k]]

Restart ==
  /\ ~up
  /\ up' = TRUE
  /\ job' = ResetJobs
  /\ UNCHANGED <<obs, admissions, extractions, worker, writeVars, crashes>>

-----------------------------------------------------------------------------
Init ==
  /\ obs = [k \in Key |-> [status |-> "absent", result |-> {}]]
  /\ job = [k \in Key |-> [status |-> "none", attempts |-> 0, due |-> FALSE]]
  /\ receipts = [k \in Key |-> NoBody]
  /\ written = [k \in Key |-> 0]
  /\ admissions = {} /\ extractions = {}
  /\ saving = [w \in Write |-> 0]
  /\ worker = [running |-> FALSE, batch |-> {}]
  /\ up = TRUE
  /\ crashes = 0

Next ==
  \/ \E r \in Observation : ObserveMemory(r) \/ ControlsReturn(r)
  \/ \E e \in extractions : \/ ExtractionReturns(e)
                            \/ ExtractionFails(e)
                            \/ CrashBeforeObservation(e)
  \/ \E k \in Key : BackoffEnds(k)
  \/ Poll
  \/ NextInBatch
  \/ \E w \in Write : \/ MutateMemory(w)
                      \/ SaveOperationReceipt(w)
                      \/ WriteThrows(w)
                      \/ CrashBeforeReceipt(w)
  \/ Crash
  \/ Restart

Spec == Init /\ [][Next]_vars

(* The interval fires, the event loop goes on, promises settle, the clock  *)
(* passes and the service manager restarts the process.                    *)
Fairness ==
  /\ WF_vars(Poll)
  /\ WF_vars(NextInBatch)
  /\ \A k \in Key : /\ WF_vars(BackoffEnds(k))
                    /\ WF_vars(\E e \in extractions : e.key = k /\
                         (ExtractionReturns(e) \/ ExtractionFails(e)))
  /\ WF_vars(Restart)

FairSpec == Spec /\ Fairness

-----------------------------------------------------------------------------
(* Properties.                                                             *)

(* No job is extracted twice at a time, by the worker, by a synchronous    *)
(* request or across a restart, and a job that waits or has ended is not   *)
(* being extracted (processMemoryJob, startMemoryJobWorker).               *)
OneExtractionPerJob ==
  /\ \A e, f \in extractions : e.key = f.key => e = f
  /\ \A e \in extractions : /\ job[e.key].status = "running"
                            /\ job[e.key].attempts = e.attempt

(* Only the death of the process takes a job past its attempts: failures   *)
(* alone end it after MaxAttempts (processMemoryJob).                      *)
AttemptsBounded ==
  \A k \in Key : /\ job[k].attempts <= MaxAttempts + crashes
                 /\ job[k].status = "pending" =>
                      job[k].attempts < MaxAttempts + crashes

(* A client that polls the observation never reads an ending its job does  *)
(* not have: completed means extracted, failed means given up, whatever    *)
(* the admission, the worker and the request wrote in which order.         *)
ObservationFollowsJob ==
  \A k \in Key :
    /\ obs[k].status = "completed" => job[k].status \in {"none", "succeeded"}
    /\ obs[k].status = "failed" => job[k].status = "dead"

(* The receipt of an admission never overwrites a completed or failed      *)
(* extraction, its result included (observeMemory), and nothing else       *)
(* reopens one.                                                            *)
EndedStaysEnded ==
  [][\A k \in Key : obs[k].status \in {"completed", "failed"}
                    => obs'[k] = obs[k]]_vars

(* A field written in one turn of the event loop is written once per key,  *)
(* repeated and concurrent requests included, but for a death of the       *)
(* process between the write and its receipt (mutateMemory).               *)
FieldWrittenOnce ==
  \A k \in Key : (\A w \in Write : w.key = k => w.effect = "field")
                 => written[k] <= 1 + crashes

(* An admitted job ends, dead or succeeded, through failures and restarts. *)
EveryJobEnds ==
  \A k \in Key : (job[k].status \in {"pending", "running"})
                   ~> (job[k].status \in {"succeeded", "dead"})

(* docs/headless-memory-runtime.md:39: a repeated request returns the      *)
(* receipt and is not written again; mutateMemory looks for the receipt    *)
(* before it awaits and saves it afterwards.                               *)
WrittenOnce == \A k \in Key : written[k] <= 1
=============================================================================
