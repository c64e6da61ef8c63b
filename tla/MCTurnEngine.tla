---- MODULE MCTurnEngine ----
(* Providers with and without a transcript, and what goes wrong with each.  *)
EXTENDS TurnEngine, TLC

CONSTANTS i1, i2

Worker(src, is, ds) == [source |-> src, instructions |-> is, disturbances |-> ds]

MCSetups == {
    Worker("bound", {i1, i2}, {"crash"}),
    Worker("bound", {i1}, {"exit", "stop"}),
    Worker("bound", {i1}, {"fatal", "reject", "unreadable"}),
    Worker("missing", {i1}, {"human", "appear"}),
    Worker("none", {i1, i2}, {"human", "exit", "reject"})}
====
