----------------------------- MODULE MCWorkerLoop -----------------------------
(* Two worker goroutines, two valid actions and one whose instance name    *)
(* browserURL.Parse rejects, and up to two transport failures: enough for  *)
(* a response lost after execution while the other worker holds the       *)
(* poisoned action; one crash of the process; two input files; two       *)
(* outputs, one of which both valid actions produce.                      *)
EXTENDS WorkerLoop, TLC

CONSTANTS w1, w2, a1, a2, p1, f1, f2, o1, o2

MCWorkers == {w1, w2}
MCActions == {a1, a2, p1}
MCPoison == {p1}
MCFiles == {f1, f2}
MCOutputs == {o1, o2}
MCOut == (a1 :> {o1}) @@ (a2 :> {o1, o2}) @@ (p1 :> {})
=============================================================================
