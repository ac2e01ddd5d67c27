-------------------------- MODULE MCChangeControl --------------------------
(* Small instances of ChangeControl. *)
EXTENDS ChangeControl, TLC

CONSTANTS r1, r2, m0, m1, m2

\* Two monthly downshift recommendations that share one policy row.
OneRouteLever == [r \in {r1, r2} |-> "model_downshift"]
\* A trim and a compression recommendation for one model.
TransformLever == [r \in {r1, r2} |-> IF r = r1 THEN "token_trim" ELSE "prompt_compression"]
SameTarget == [r \in {r1, r2} |-> m0]
SameRoute == [r \in {r1, r2} |-> "default"]

Ramp == <<10, 100>>

\* Recommendations with one key are interchangeable, and so are candidates.
Swaps == Permutations({r1, r2}) \cup Permutations({m1, m2})
=============================================================================
