----------------------------- MODULE MCBenchmark -----------------------------
(* The pools and limits of the deployment, and the modes of one run. *)
EXTENDS Benchmark

DeployedSlots == [text |-> 6, multimodal |-> 12]
ShortQueue == [text |-> 5, multimodal |-> 50]
DeployedLimit == [text |-> 20, multimodal |-> 100]
=============================================================================
