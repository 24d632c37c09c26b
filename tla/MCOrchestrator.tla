---- MODULE MCOrchestrator ----
(* Constants of Orchestrator for TLC. *)
EXTENDS Orchestrator

Ask(kind, users, k, pin) == [kind |-> kind, users |-> users, k |-> k, pin |-> pin]

\* One user fewer and one more than a batch, exactly a batch; k given or not.
Unpinned == {Ask(kind, users, k, 0) :
    kind \in {"predict", "diagnostic"}, users \in 1..3, k \in {0, 1}}
\* Pinned to the version whose metadata are loaded at the start, and to another.
Pinned == {Ask("predict", 3, 0, 1), Ask("diagnostic", 2, 2, 1), Ask("predict", 3, 0, 2)}
Simple == {Ask("ann", 2, 0, 0), Ask("ranks_only", 2, 2, 0)}
AllAsks == Unpinned \cup Pinned \cup Simple

\* The second version halves the batch, the third has one more candidate.
Batches == SubSeq(<<2, 1, 2>>, 1, MaxRanker)
Candidates == SubSeq(<<2, 2, 3>>, 1, MaxRanker)
Growing == SubSeq(<<4, 5>>, 1, MaxEmbeddings)
====
