---------------------------- MODULE CommandQueue ----------------------------
(***************************************************************************)
(* What the ring between the CPUs and the interrupt translation service    *)
(* promises: commands are issued in whole batches and executed one by one, *)
(* each once and in the order of issue.                                    *)
(***************************************************************************)
EXTENDS Sequences

CONSTANT Batches    \* the sequences of commands that are issued together

VARIABLE queue      \* commands issued and not yet executed

Init == queue = <<>>

Issue(batch) == queue' = queue \o batch

Execute == queue # <<>> /\ queue' = Tail(queue)

Next == (\E batch \in Batches : Issue(batch)) \/ Execute

Spec == Init /\ [][Next]_queue
=============================================================================
