---------------------------- MODULE MemoryReview ----------------------------
(***************************************************************************)
(* One review of a period, lib/memory-review.js: a row of memory_reviews,  *)
(* the generations that write it under a lease, and the events it tells.   *)
(* A request looks at the row, takes the lease and reads the sources in    *)
(* one step; the model's answer is awaited, while the sources change, the  *)
(* lease passes and others look at the row.  What the sources are stands   *)
(* for their fingerprint.                                                  *)
(*                                                                         *)
(* An operator named for a mistake stands before the one it mistakes; no   *)
(* action uses it, the checks substitute it.                               *)
(***************************************************************************)
EXTENDS Naturals

CONSTANTS
  Source,         \* what the events of the period may be
  Empty,          \* none of them
  TooMany,        \* more than MAX_SOURCE_EVENTS
  TooLong,        \* longer than MAX_MODEL_SOURCE_CHARS
  Unwritten,      \* no fingerprint
  Caller,
  MaxGenerations  \* bound: leases taken

ASSUME ReviewAssumption ==
  /\ Empty \in Source \ (TooMany \cup TooLong) /\ TooMany \cup TooLong \subseteq Source
  /\ Unwritten \notin Source /\ MaxGenerations \in Nat

VARIABLES
  sources,      \* the current events of the period
  review,       \* the row; a token is the number of its generation
  asking,       \* by caller: the generation that awaits the model
  generations,
  writer        \* history: the generation whose text the row has

reviewVars == <<sources, review, asking, generations, writer>>

Quiet == [token |-> 0, snapshot |-> Empty]

ReviewTypeOK ==
  /\ sources \in Source
  /\ review \in [status: {"none", "empty", "generating", "ready", "stale", "failed"},
                 print: Source \cup {Unwritten},
                 token: 0 .. MaxGenerations, leased: BOOLEAN]
  /\ asking \in [Caller -> [token: 0 .. MaxGenerations, snapshot: Source]]
  /\ generations \in 0 .. MaxGenerations /\ writer \in 0 .. MaxGenerations

-----------------------------------------------------------------------------
(* serializeReview: reading a row marks it stale, or its generation failed *)
(* when the lease has passed.                                              *)

Stale(row) == row.print # Unwritten /\ row.print # sources

InProgress(row) == row.token # 0 /\ row.leased

Serialized(row) ==
  IF Stale(row) /\ row.status \in {"ready", "empty"} THEN [row EXCEPT !.status = "stale"]
  ELSE IF row.status = "generating" /\ ~InProgress(row)
  THEN [row EXCEPT !.status = "failed", !.token = 0, !.leased = FALSE]
  ELSE row

UsableAsEvidence(row) == row.status = "ready" /\ ~Stale(row) /\ ~InProgress(row)

\* getMemoryReview and listMemoryReviews.
Read ==
  /\ review.status # "none" /\ review' = Serialized(review)
  /\ UNCHANGED <<sources, asking, generations, writer>>

-----------------------------------------------------------------------------
(* generateMemoryReview.                                                   *)

Inserted == IF review.status = "none" THEN [review EXCEPT !.status = "empty"] ELSE review

Unchanged(row) == UsableAsEvidence(row) \/ (row.status = "empty" /\ row.print = sources)

OwnsAnyLease(token) == review.token # 0

OwnsLease(token) == review.token = token

Leased(row, token) ==
  [row EXCEPT !.status = "generating", !.token = token, !.leased = TRUE]

Written(row, snapshot) ==
  [row EXCEPT !.status = IF sources # snapshot THEN "stale"
                         ELSE IF snapshot = Empty THEN "empty" ELSE "ready",
              !.print = snapshot, !.token = 0, !.leased = FALSE]

FailedRow(row) == [row EXCEPT !.status = "failed", !.token = 0, !.leased = FALSE]

\* What is there serves, or is being made.
Reuse(forced) ==
  LET seen == Serialized(Inserted)
  IN /\ sources \notin TooMany
     /\ InProgress(seen) \/ (Unchanged(seen) /\ ~forced)
     /\ review' = seen
     /\ UNCHANGED <<sources, asking, generations, writer>>

\* The lease is taken; without events, or with too much text, no model is
\* asked and the generation ends in the same step.
Generate(caller, forced) ==
  LET seen  == Serialized(Inserted)
      token == generations + 1
      taken == Leased(seen, token)
      ends  == sources = Empty \/ sources \in TooLong
  IN /\ sources \notin TooMany /\ asking[caller] = Quiet /\ generations < MaxGenerations
     /\ ~InProgress(seen) /\ (Unchanged(seen) => forced)
     /\ generations' = token
     /\ review' = IF sources = Empty THEN Written(taken, Empty)
                  ELSE IF sources \in TooLong THEN FailedRow(taken) ELSE taken
     /\ writer' = IF sources = Empty THEN token ELSE writer
     /\ asking' = IF ends THEN asking
                  ELSE [asking EXCEPT ![caller] = [token |-> token, snapshot |-> sources]]
     /\ UNCHANGED sources

\* The model answers.  The row is read again for the reply.
Answer(caller) ==
  LET call == asking[caller]
      owns == OwnsLease(call.token)
  IN /\ call.token # 0
     /\ review' = Serialized(IF owns THEN Written(review, call.snapshot) ELSE review)
     /\ writer' = IF owns THEN call.token ELSE writer
     /\ asking' = [asking EXCEPT ![caller] = Quiet]
     /\ UNCHANGED <<sources, generations>>

\* It fails, or says nothing.
Fail(caller) ==
  LET call == asking[caller]
  IN /\ call.token # 0
     /\ review' = Serialized(IF OwnsLease(call.token) THEN FailedRow(review) ELSE review)
     /\ asking' = [asking EXCEPT ![caller] = Quiet]
     /\ UNCHANGED <<sources, generations, writer>>

-----------------------------------------------------------------------------

LeasePasses ==
  /\ review.leased /\ review' = [review EXCEPT !.leased = FALSE]
  /\ UNCHANGED <<sources, asking, generations, writer>>

\* Events are stored, changed or forgotten.
SourcesChange ==
  /\ \E s \in Source \ {sources} : sources' = s
  /\ UNCHANGED <<review, asking, generations, writer>>

\* The process ends: its calls are gone, the row stays as it is.
ReviewRestart ==
  /\ asking' = [c \in Caller |-> Quiet]
  /\ UNCHANGED <<sources, review, generations, writer>>

ReviewInit ==
  /\ sources = Empty
  /\ review = [status |-> "none", print |-> Unwritten,
               token |-> 0, leased |-> FALSE]
  /\ asking = [c \in Caller |-> Quiet] /\ generations = 0 /\ writer = 0

ReviewNext ==
  \/ Read \/ LeasePasses \/ SourcesChange \/ ReviewRestart
  \/ \E forced \in BOOLEAN : Reuse(forced)
  \/ \E caller \in Caller :
       \/ \E forced \in BOOLEAN : Generate(caller, forced)
       \/ Answer(caller) \/ Fail(caller)

ReviewSpec == ReviewInit /\ [][ReviewNext]_reviewVars

-----------------------------------------------------------------------------
(* Properties.                                                             *)

\* Text is written by the newest generation only, and a generation whose
\* lease is in force is ended by nobody else: an answer or a failure that
\* comes after the lease passed and another generation began is dropped.
NewestGenerationWrites ==
  [][/\ writer' # writer => writer' = generations'
     /\ InProgress(review) /\ review'.token # review.token =>
          \E c \in Caller : asking[c].token = review.token /\ asking'[c] = Quiet]_reviewVars
=============================================================================
