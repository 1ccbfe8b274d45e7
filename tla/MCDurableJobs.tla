--------------------------- MODULE MCDurableJobs ---------------------------
(* Constant values for model checking DurableJobs. *)
EXTENDS DurableJobs, TLC

CONSTANTS d1, d2, j1, j2, j3, j4, w1, w2, k1, k2, k3, k4

OneDefinition  == {d1}
TwoDefinitions == {d1, d2}

TwoAttempts == [d \in {d1} |-> 2]
OneSecond   == [d \in {d1} |-> <<1, 1>>]
TwoAtATime  == [d \in {d1} |-> 2]
NoRate      == [d \in {d1} |-> 120]

\* d1 retries once and runs one job at a time, d2 runs two.
MixedAttempts    == (d1 :> 2) @@ (d2 :> 1)
MixedDelays      == (d1 :> <<1>>) @@ (d2 :> <<>>)
MixedConcurrency == (d1 :> 1) @@ (d2 :> 2)
MixedRate        == (d1 :> 2) @@ (d2 :> 2)

JobSymmetry == Permutations(Job) \cup Permutations(Worker) \cup Permutations(Key)
=============================================================================
