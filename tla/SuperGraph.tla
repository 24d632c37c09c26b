----------------------------- MODULE SuperGraph -----------------------------
(***************************************************************************)
(* A batch on its way from records to scores: the star graph of each       *)
(* record (SparseLocalSubgraphTransform.py, build_graph_arrays), the       *)
(* padded super graph of the batch (SuperGraphPaddingTransform.py,         *)
(* optimized_batch_and_pad), the global array of all processes             *)
(* (_async_device_prefetcher), who is heard by whom in the layers of the   *)
(* network (model.py), and which scores count (score_and_shape_results,    *)
(* train_step, eval_step).                                                 *)
(*                                                                         *)
(* Nodes are numbered from 1, the source's node 0.  Embeddings and scores  *)
(* are abstracted to heard, the nodes that have had a say in a node's      *)
(* embedding.  Ratings on edges, the normalisation within a layer and the  *)
(* arithmetic of losses and metrics are left out.                          *)
(***************************************************************************)
EXTENDS Integers, Sequences, FiniteSets, SequencesExt

CONSTANTS
  NumProcesses,    \* jax.process_count()
  NumLocalDevices, \* n_local_devices
  BatchSize,       \* records of a batch of one process
  MaxHistory,      \* config['max_history']
  NumCandidates,   \* config['num_candidates']
  NumLayers,       \* num_layers of the network
  Granule,         \* the 64 of next_64
  Records          \* what the sampler of negatives hands on

IsRecord(r) ==
  /\ r.user \in Nat \ {0}
  /\ r.history \in Seq(Nat \ {0}) /\ Len(r.history) \in 0 .. MaxHistory
  /\ r.candidates \in Seq(Nat \ {0}) /\ Len(r.candidates) = NumCandidates
  /\ r.positive \in 1 .. NumCandidates

ASSUME SuperGraphAssumption ==
  /\ NumProcesses \in Nat \ {0} /\ NumLocalDevices \in Nat \ {0}
  /\ BatchSize \in Nat \ {0} /\ Granule \in Nat \ {0}
  /\ MaxHistory \in Nat /\ NumCandidates \in Nat \ {0} /\ NumLayers \in Nat
  /\ \A r \in Records : IsRecord(r)

Processes == 1 .. NumProcesses

-----------------------------------------------------------------------------
(* The size of the super graph: calc_number_jax_graph_components.          *)

(* Mutant: what fits exactly gets no padding.                              *)
NextExact(x) == Granule * ((x + Granule - 1) \div Granule)

NextGranule(x) == Granule * (1 + x \div Granule)

NodesPerGraph == 1 + MaxHistory + NumCandidates
EdgesPerGraph == MaxHistory + NumCandidates
MaxNodes == NextGranule(BatchSize * NodesPerGraph)
MaxEdges == NextGranule(BatchSize * EdgesPerGraph)
MaxGraphs == BatchSize + NumLocalDevices + (NumLocalDevices - (BatchSize % NumLocalDevices))

VARIABLES
  stage, \* of each process: "map", "padded" or "raised"
  batch, \* of each process: [nNode, nodes, edges], padded or to be padded
  graph, \* the global super graph on the devices
  layer, \* layers of the network done
  heard, \* of each node of graph: the nodes it has heard of
  rows   \* of each graph: [user, cands, mask], when scored

vars == <<stage, batch, graph, layer, heard, rows>>

NoGraph == [nNode |-> <<>>, nodes |-> <<>>, edges |-> <<>>]

-----------------------------------------------------------------------------
(* build_graph_arrays: the user, its history, its candidates; the history  *)
(* sends to the user and the user to the candidates.  graph is a ghost     *)
(* that says which graph a node was made for.                              *)
Star(r, g) ==
  <<[type |-> 1, id |-> r.user, label |-> 0, graph |-> g]>>
  \o [i \in 1 .. Len(r.history) |-> [type |-> 2, id |-> r.history[i], label |-> 0, graph |-> g]]
  \o [i \in 1 .. NumCandidates |->
        [type |-> 3, id |-> r.candidates[i], label |-> IF i = r.positive THEN 1 ELSE 0, graph |-> g]]

StarEdges(r, offset) ==
  [i \in 1 .. Len(r.history) |-> <<offset + i + 1, offset + 1>>]
  \o [i \in 1 .. NumCandidates |-> <<offset + 1, offset + 1 + Len(r.history) + i>>]

(* Mutant: the edges of every graph are numbered from its own first node.  *)
AddUnshifted(b, r) ==
  [nNode |-> Append(b.nNode, 1 + Len(r.history) + NumCandidates),
   nodes |-> b.nodes \o Star(r, Len(b.nNode) + 1),
   edges |-> b.edges \o StarEdges(r, 0)]

(* A graph behind those of the batch, its edges shifted by their nodes.    *)
AddGraph(b, r) ==
  [nNode |-> Append(b.nNode, 1 + Len(r.history) + NumCandidates),
   nodes |-> b.nodes \o Star(r, Len(b.nNode) + 1),
   edges |-> b.edges \o StarEdges(r, Len(b.nodes))]

Fits(b) ==
  /\ MaxNodes - Len(b.nodes) > 0
  /\ MaxEdges - Len(b.edges) >= 0
  /\ MaxGraphs - Len(b.nNode) > 0

(* Mutant: padding edges at the first node of all.                         *)
PaddedAtZero(b) ==
  [nNode |-> b.nNode \o [i \in 1 .. MaxGraphs - Len(b.nNode) |->
               IF i = 1 THEN MaxNodes - Len(b.nodes) ELSE 0],
   nodes |-> b.nodes \o [i \in 1 .. MaxNodes - Len(b.nodes) |->
               [type |-> 0, id |-> 0, label |-> 0, graph |-> Len(b.nNode) + 1]],
   edges |-> b.edges \o [i \in 1 .. MaxEdges - Len(b.edges) |-> <<1, 1>>]]

(* optimized_batch_and_pad: one dummy graph takes all padding, the others  *)
(* are empty; padding edges are loops at its first node.                   *)
Padded(b) ==
  [nNode |-> b.nNode \o [i \in 1 .. MaxGraphs - Len(b.nNode) |->
               IF i = 1 THEN MaxNodes - Len(b.nodes) ELSE 0],
   nodes |-> b.nodes \o [i \in 1 .. MaxNodes - Len(b.nodes) |->
               [type |-> 0, id |-> 0, label |-> 0, graph |-> Len(b.nNode) + 1]],
   edges |-> b.edges \o [i \in 1 .. MaxEdges - Len(b.edges) |->
               <<Len(b.nodes) + 1, Len(b.nodes) + 1>>]]

Init ==
  /\ stage = [p \in Processes |-> "map"]
  /\ batch = [p \in Processes |-> NoGraph]
  /\ graph = NoGraph
  /\ layer = 0
  /\ heard = <<>>
  /\ rows = <<>>

MapRecord(p) ==
  /\ stage[p] = "map" /\ Len(batch[p].nNode) < BatchSize
  /\ \E r \in Records : batch' = [batch EXCEPT ![p] = AddGraph(batch[p], r)]
  /\ UNCHANGED <<stage, graph, layer, heard, rows>>

PadBatch(p) ==
  /\ stage[p] = "map" /\ Len(batch[p].nNode) = BatchSize
  /\ IF Fits(batch[p])
     THEN /\ stage' = [stage EXCEPT ![p] = "padded"]
          /\ batch' = [batch EXCEPT ![p] = Padded(batch[p])]
     ELSE stage' = [stage EXCEPT ![p] = "raised"] /\ UNCHANGED batch
  /\ UNCHANGED <<graph, layer, heard, rows>>

-----------------------------------------------------------------------------
(* host_local_array_to_global_array: array by array, the processes' parts, *)
(* all of one size, behind one another.  It knows nothing of what the      *)
(* arrays mean.                                                            *)
Behind(parts, size) ==
  [n \in 1 .. NumProcesses * size |-> parts[1 + (n - 1) \div size][1 + ((n - 1) % size)]]

GlobalGraph ==
  [nNode |-> Behind([p \in Processes |-> batch[p].nNode], MaxGraphs),
   nodes |-> Behind([p \in Processes |-> batch[p].nodes], MaxNodes),
   edges |-> Behind([p \in Processes |-> batch[p].edges], MaxEdges)]

Enqueue ==
  /\ \A p \in Processes : stage[p] = "padded"
  /\ graph = NoGraph
  /\ graph' = GlobalGraph
  /\ heard' = [n \in DOMAIN GlobalGraph.nodes |-> {n}]
  /\ UNCHANGED <<stage, batch, layer, rows>>

(* A layer of the network: each node hears what its senders know.          *)
Layer ==
  /\ graph # NoGraph /\ layer < NumLayers
  /\ layer' = layer + 1
  /\ heard' = [n \in DOMAIN heard |->
                 heard[n] \cup UNION {heard[e[1]] : e \in {f \in ToSet(graph.edges) : f[2] = n}}]
  /\ UNCHANGED <<stage, batch, graph, rows>>

-----------------------------------------------------------------------------
(* The elements of a set of nodes in increasing order, as an array of a    *)
(* given size: cut, or filled up with the first node of all.               *)
Compacted(set, size) ==
  LET rank(n) == Cardinality({m \in set : m <= n})
  IN  [s \in 1 .. size |->
         IF s <= Cardinality(set) THEN CHOOSE n \in set : rank(n) = s ELSE 1]

(* Mutant: everything that is not padding, in the order of the nodes.      *)
SlotsFrom(t, size) == Compacted({n \in DOMAIN graph.nodes : graph.nodes[n].type >= t}, size)

(* jnp.where(type == t, size=size, fill_value=0).                          *)
Slots(t, size) == Compacted({n \in DOMAIN graph.nodes : graph.nodes[n].type = t}, size)

NumGraphs == Len(graph.nNode)

(* The s-th part of length width of an array reshaped to rows.             *)
Part(slots, s, width) == [j \in 1 .. width |-> slots[(s - 1) * width + j]]

(* jraph.get_graph_padding_mask: the graphs before the last with nodes.    *)
IsRealGraph(r) == \E later \in r + 1 .. NumGraphs : graph.nNode[later] # 0

Id(n) == graph.nodes[n].id
IsCandidate(n) == graph.nodes[n].type = 3

IsPositive(r, n) == graph.nodes[n].label > 0 /\ IsRealGraph(r) /\ IsCandidate(n)

(* The target of a row: the sum of the ids of its positives, one or none.  *)
TargetId(r, cands) ==
  LET positives == {j \in DOMAIN cands : IsPositive(r, cands[j])}
  IN  IF positives = {} THEN 0 ELSE Id(cands[CHOOSE j \in positives : TRUE])

TargetCollision(r, n, cands) ==
  /\ Id(n) = TargetId(r, cands) /\ ~IsPositive(r, n) /\ TargetId(r, cands) > 0

(* Mutant: the positive, too, is looked for in the history.                *)
AnyInHistory(r, n, hist) == \E j \in DOMAIN hist : Id(n) = Id(hist[j]) /\ Id(hist[j]) > 0

InHistory(r, n, hist) ==
  /\ \E j \in DOMAIN hist : Id(n) = Id(hist[j]) /\ Id(hist[j]) > 0
  /\ ~IsPositive(r, n)

FinalMask(r, cands, hist) ==
  [j \in DOMAIN cands |->
     /\ IsRealGraph(r) /\ IsCandidate(cands[j])
     /\ ~TargetCollision(r, cands[j], cands)
     /\ ~InHistory(r, cands[j], hist)]

ScoreRow(r, users, cands, hists) ==
  LET c == Part(cands, r, NumCandidates)
  IN  [user |-> users[r], cands |-> c, mask |-> FinalMask(r, c, Part(hists, r, MaxHistory))]

ScoreAndShapeResults ==
  /\ graph # NoGraph /\ layer = NumLayers /\ rows = <<>>
  /\ \E users \in {Slots(1, NumGraphs)}, cands \in {Slots(3, NumGraphs * NumCandidates)},
        hists \in {Slots(2, NumGraphs * MaxHistory)} :
       rows' = [r \in 1 .. NumGraphs |-> ScoreRow(r, users, cands, hists)]
  /\ UNCHANGED <<stage, batch, graph, layer, heard>>

(* The loop takes the next batch.                                          *)
NextBatch ==
  /\ rows # <<>>
  /\ stage' = [p \in Processes |-> "map"]
  /\ batch' = [p \in Processes |-> NoGraph]
  /\ graph' = NoGraph
  /\ layer' = 0
  /\ heard' = <<>>
  /\ rows' = <<>>

Next ==
  \/ \E p \in Processes : MapRecord(p) \/ PadBatch(p)
  \/ Enqueue
  \/ Layer
  \/ ScoreAndShapeResults
  \/ NextBatch

Spec == Init /\ [][Next]_vars

(* train_step: a row is trained with when it has a positive and a negative. *)
Label(n) == graph.nodes[n].label
HasPositive(row) == \E j \in DOMAIN row.cands : row.mask[j] /\ Label(row.cands[j]) > 0
HasNegative(row) == \E j \in DOMAIN row.cands : row.mask[j] /\ Label(row.cands[j]) = 0
RowValid(row) == HasPositive(row) /\ HasNegative(row)

(* What the softmax of a row is taken over; a row that does not count gets *)
(* harmless data, its first candidate labelled, and the weight 0.          *)
SafeMask(row) == IF RowValid(row) THEN row.mask ELSE [j \in DOMAIN row.mask |-> TRUE]
SafeLabel(row, j) == IF RowValid(row) THEN Label(row.cands[j]) ELSE IF j = 1 THEN 1 ELSE 0
LossRows == {r \in DOMAIN rows : RowValid(rows[r])}

(* eval_step: valid_query_mask.                                            *)
QueryRows == {r \in DOMAIN rows : HasPositive(rows[r])}
-----------------------------------------------------------------------------
(* Properties.                                                             *)

(* The sizes computed once from the configuration have room for every      *)
(* batch and at least one node of padding: optimized_batch_and_pad never   *)
(* raises "Graph too large for padding".                                   *)
SuperGraphFits == \A p \in Processes : stage[p] # "raised"

(* An edge never leaves its graph: those of a record are its star, those   *)
(* of the padding touch padding only (util_np.py:96).                      *)
EdgesStayHome ==
  \A p \in Processes : \A e \in ToSet(batch[p].edges) :
    LET from == batch[p].nodes[e[1]]  to == batch[p].nodes[e[2]]
    IN  /\ from.graph = to.graph
        /\ <<from.type, to.type>> \in {<<2, 1>>, <<1, 3>>, <<0, 0>>}

Home(n) == <<(n - 1) \div MaxNodes, graph.nodes[n].graph>>
RealRows == 1 .. BatchSize * NumProcesses
Scored == rows # <<>>

(* The score of a candidate rests on itself, its user and all of the       *)
(* user's history, and on no node of another user (model.py:121-127).      *)
HearsItsHistory ==
  Scored => \A n \in DOMAIN heard : IsCandidate(n) =>
    heard[n] = {n} \cup {m \in DOMAIN heard : Home(m) = Home(n) /\ graph.nodes[m].type \in {1, 2}}

(* Row r of the slots is one user, with all its candidates and no one      *)
(* else's, exactly one of them the positive, the users in the order of     *)
(* the batch: the arrays compacted by type still agree with one another.   *)
RowsAreGraphs ==
  Scored => \A r \in RealRows :
    LET row == rows[r]
        of(t) == {n \in DOMAIN heard : graph.nodes[n].type = t /\ Home(n) = Home(row.user)}
    IN  /\ of(1) = {row.user}
        /\ of(3) = ToSet(row.cands)
        /\ Cardinality({n \in of(3) : graph.nodes[n].label = 1}) = 1
        /\ r > 1 => rows[r - 1].user < row.user

(* No row, dummy or real, gives train_step a softmax without a candidate   *)
(* or without a label, whose gradient would be NaN for the whole batch,    *)
(* and only rows of users have a weight in the loss (train.py:263).        *)
SoftmaxIsDefined ==
  /\ \A r \in DOMAIN rows : \E j \in DOMAIN rows[r].cands : SafeMask(rows[r])[j] /\ SafeLabel(rows[r], j) > 0
  /\ LossRows \subseteq RealRows

(* Every user of the batch counts in the metrics of its step, whatever the *)
(* histories around it hold: its positive is never masked.                 *)
EveryUserIsEvaluated == Scored => QueryRows = RealRows

(* Every user of the batch counts, in the loss without harm to others and  *)
(* in the metrics.                                                         *)
EveryUserCounts == SoftmaxIsDefined /\ EveryUserIsEvaluated

(* train.py:193 "candidate matches any history item for this user": what   *)
(* is masked is in the history of its own user.  (Violated: the history    *)
(* nodes of all users are compacted and cut into rows of max_history.)     *)
MaskedByOwnHistory ==
  Scored => \A r \in RealRows : \A j \in DOMAIN rows[r].cands :
    ~rows[r].mask[j] =>
      \E m \in DOMAIN heard : /\ Home(m) = Home(rows[r].user) /\ graph.nodes[m].type = 2
                              /\ Id(m) = Id(rows[r].cands[j])
=============================================================================
