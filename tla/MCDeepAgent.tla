----------------------------- MODULE MCDeepAgent -----------------------------
(***************************************************************************)
(* Plans for model-checking DeepAgent: two independent nodes of which one  *)
(* is a non-idempotent write behind an approval, a write with a dependent  *)
(* node, two sources joined by a third node, and two gated nodes.  A spare *)
(* row, where the plan leaves one, is for the planner's replacement.       *)
(***************************************************************************)
EXTENDS DeepAgent, TLC

CONSTANTS a, b, c, w1, w2

Absent == [status |-> "absent", effect |-> "read_only", gated |-> FALSE,
           sequence |-> 1, attempt |-> 0, maxAttempts |-> 1,
           owner |-> NoWorker, lease |-> "none"]

Row(effect, gated, sequence, attempts) ==
  [Absent EXCEPT !.status = "queued", !.effect = effect, !.gated = gated,
                 !.sequence = sequence, !.maxAttempts = attempts]

Rows(x, y, z) == a :> x @@ b :> y @@ c :> z

PairPlan == [rows  |-> Rows(Row("read_only", FALSE, 1, 1),
                            Row("non_idempotent_write", TRUE, 2, 2), Absent),
             edges |-> {}]

ChainPlan == [rows  |-> Rows(Row("idempotent_write", FALSE, 1, 1),
                             Row("read_only", FALSE, 2, 1), Absent),
              edges |-> {<<a, b>>}]

JoinPlan == [rows  |-> Rows(Row("read_only", FALSE, 1, 1),
                            Row("read_only", FALSE, 2, 1),
                            Row("read_only", FALSE, 3, 1)),
             edges |-> {<<a, c>>, <<b, c>>}]

AllPlans == {PairPlan, ChainPlan, JoinPlan}

\* Two approvals in one run: what a rejection of one does to the other.
TwoGatesPlan == [rows  |-> Rows(Row("read_only", TRUE, 1, 1),
                                Row("read_only", TRUE, 2, 1), Absent),
                 edges |-> {}]

LivePlans == {PairPlan}
GatedPlans == {TwoGatesPlan}

SafeMode == {<<"read_only", FALSE>>}
AnyMode == SafeMode \cup {<<"non_idempotent_write", TRUE>>}

Symmetric == Permutations(Worker)
=============================================================================
