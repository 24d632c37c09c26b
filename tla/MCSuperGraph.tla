---------------------------- MODULE MCSuperGraph ----------------------------
EXTENDS SuperGraph

Movies == {11, 12, 13}

(* At most two movies of the past, and a positive that is not among them.  *)
MCRecords ==
  {[user |-> 1, history |-> h, candidates |-> c, positive |-> i] :
     h \in {<<>>, <<11>>, <<13>>, <<12, 11>>, <<13, 12>>}, c \in {<<11, 12>>, <<13, 11>>, <<12, 13>>}, i \in 1 .. 2}
MCSampled == {r \in MCRecords : r.candidates[r.positive] \notin ToSet(r.history)}

(* A few records, for a batch of every one of two processes.               *)
MCFewSampled == {r \in MCSampled : r.positive = 1 /\ r.candidates = <<12, 13>>}
=============================================================================
