-------------------------- MODULE SuperGraph_proofs -------------------------
(***************************************************************************)
(* For every configuration and every batch: the super graph has room for   *)
(* what it is given, no edge leaves its graph, the rows of scores are the  *)
(* graphs of the batch, every user counts, and (on one process, from two   *)
(* layers on) a candidate hears its user and the whole of its history.     *)
(*                                                                         *)
(* Two inductive invariants.  BatchInv is of the batch that grows: where   *)
(* its edges go and how many they are.  LaidInv says where its nodes are:  *)
(* the users, and the candidates, stand graph by graph, each graph with    *)
(* one positive and all the edges of its star.  It speaks of the positions *)
(* only through a function that lists them in order (Ranked), which is     *)
(* what compaction by type computes (CompactedIs).  DevicesSee carries it  *)
(* to the array of all processes, where place n of process p is At(p,      *)
(* size, n), and RowsAre to the rows.                                      *)
(***************************************************************************)
EXTENDS SuperGraph, SequenceTheorems, FiniteSetTheorems, TLAPS

(* next_64 is strictly above its argument and a number of granules.        *)
LEMMA NextGranuleAbove ==
  ASSUME NEW x \in Nat
  PROVE  NextGranule(x) \in Nat /\ NextGranule(x) > x
<1>1. Granule \in Nat \ {0}
  BY SuperGraphAssumption
<1>2. /\ x \div Granule \in Nat
      /\ x = Granule * (x \div Granule) + (x % Granule)
      /\ x % Granule \in 0 .. Granule - 1
  BY <1>1, SMT
<1>3. Granule * (1 + x \div Granule) = Granule + Granule * (x \div Granule)
  BY <1>1, <1>2, SMT
<1>4. Granule * (x \div Granule) \in Nat
  BY <1>1, <1>2, SMT
<1>. QED
  BY <1>1, <1>2, <1>3, <1>4, SMT DEF NextGranule

(* There is always a dummy graph, and at least one a device.               *)
LEMMA MaxGraphsAbove == MaxGraphs \in Nat /\ MaxGraphs > BatchSize + NumLocalDevices
<1>1. NumLocalDevices \in Nat \ {0} /\ BatchSize \in Nat
  BY SuperGraphAssumption
<1>2. BatchSize % NumLocalDevices \in 0 .. NumLocalDevices - 1
  BY <1>1, SMT
<1>. QED
  BY <1>1, <1>2, SMT DEF MaxGraphs

(* As many graphs on one device as on the other.                           *)
THEOREM GraphsPerDevice == MaxGraphs % NumLocalDevices = 0
<1>1. NumLocalDevices \in Nat \ {0} /\ BatchSize \in Nat
  BY SuperGraphAssumption
<1>2. /\ BatchSize \div NumLocalDevices \in Nat
      /\ BatchSize % NumLocalDevices \in Nat
      /\ BatchSize = NumLocalDevices * (BatchSize \div NumLocalDevices) + (BatchSize % NumLocalDevices)
  BY <1>1, SMT
<1>3. MaxGraphs = NumLocalDevices * (BatchSize \div NumLocalDevices + 2)
  BY <1>1, <1>2, SMT DEF MaxGraphs
<1>4. \A d \in Nat \ {0}, k \in Nat : (d * k) % d = 0
  BY SMT
<1>. QED
  BY <1>1, <1>2, <1>3, <1>4
-----------------------------------------------------------------------------
(* What an edge may join, said of one edge.                                *)
Node == [type : 0 .. 3, id : Nat, label : 0 .. 1, graph : Nat]

(* An edge of two nodes of one graph, from history to user, from user to   *)
(* candidate, or of padding.                                               *)
AtHome(nodes, e) ==
  /\ e \in (DOMAIN nodes) \X (DOMAIN nodes)
  /\ nodes[e[1]].graph = nodes[e[2]].graph
  /\ <<nodes[e[1]].type, nodes[e[2]].type>> \in {<<2, 1>>, <<1, 3>>, <<0, 0>>}

(* All edges of a batch are such.                                          *)
EdgesAtHome(b) ==
  /\ b.nodes \in Seq(Node)
  /\ b.edges \in Seq(Nat \X Nat)
  /\ \A i \in 1 .. Len(b.edges) : AtHome(b.nodes, b.edges[i])

(* A batch that is being built: so many graphs, none larger than the       *)
(* configuration allows.                                                   *)
Growing(b) ==
  /\ b.nNode \in Seq(Nat) /\ Len(b.nNode) \in 0 .. BatchSize
  /\ Len(b.nodes) <= Len(b.nNode) * NodesPerGraph
  /\ Len(b.edges) <= Len(b.nNode) * EdgesPerGraph

(* The inductive invariant.                                                *)
BatchInv ==
  /\ DOMAIN stage = Processes /\ DOMAIN batch = Processes
  /\ \A p \in Processes :
       /\ stage[p] \in {"map", "padded"}
       /\ EdgesAtHome(batch[p])
       /\ stage[p] = "map" => Growing(batch[p])

-----------------------------------------------------------------------------
(* A function on 1 .. n is a sequence of length n.                         *)
LEMMA FcnIsSeq ==
  ASSUME NEW n \in Nat, NEW S, NEW f \in [1 .. n -> S]
  PROVE  f \in Seq(S) /\ Len(f) = n
  BY SMT

(* Two sequences of known lengths behind one another.                      *)
LEMMA TwoParts ==
  ASSUME NEW S, NEW s \in Seq(S), NEW t \in Seq(S)
  PROVE  /\ s \o t \in Seq(S)
         /\ Len(s \o t) = Len(s) + Len(t) /\ Len(s) \in Nat /\ Len(t) \in Nat
         /\ \A k \in 1 .. Len(s) : (s \o t)[k] = s[k]
         /\ \A k \in 1 .. Len(t) : (s \o t)[Len(s) + k] = t[k]
<1>1. /\ s \o t \in Seq(S)
      /\ Len(s \o t) = Len(s) + Len(t)
      /\ \A i \in 1 .. Len(s) + Len(t) : (s \o t)[i] = IF i <= Len(s) THEN s[i] ELSE t[i - Len(s)]
  BY ConcatProperties, Zenon
<1>2. Len(s) \in Nat /\ Len(t) \in Nat
  OBVIOUS
<1>. QED
  BY <1>1, <1>2

(* build_graph_arrays: the user in front, its history behind it, the       *)
(* candidates last.                                                        *)
LEMMA StarNodes ==
  ASSUME NEW r \in Records, NEW g \in Nat
  PROVE  /\ Star(r, g) \in Seq(Node)
         /\ Len(r.history) \in 0 .. MaxHistory
         /\ Len(Star(r, g)) = 1 + Len(r.history) + NumCandidates
         /\ Star(r, g)[1].graph = g /\ Star(r, g)[1].type = 1
         /\ \A k \in 1 .. Len(r.history) :
              Star(r, g)[1 + k].graph = g /\ Star(r, g)[1 + k].type = 2
         /\ \A k \in 1 .. NumCandidates :
              /\ Star(r, g)[1 + Len(r.history) + k].graph = g
              /\ Star(r, g)[1 + Len(r.history) + k].type = 3
              /\ Star(r, g)[1 + Len(r.history) + k].label = IF k = r.positive THEN 1 ELSE 0
<1>. DEFINE h == Len(r.history)
           U == [type |-> 1, id |-> r.user, label |-> 0, graph |-> g]
           H == [i \in 1 .. h |-> [type |-> 2, id |-> r.history[i], label |-> 0, graph |-> g]]
           C == [i \in 1 .. NumCandidates |->
                  [type |-> 3, id |-> r.candidates[i], label |-> IF i = r.positive THEN 1 ELSE 0, graph |-> g]]
<1>1. /\ r.user \in Nat /\ r.history \in Seq(Nat \ {0}) /\ h \in 0 .. MaxHistory
      /\ r.candidates \in Seq(Nat \ {0}) /\ Len(r.candidates) = NumCandidates
      /\ NumCandidates \in Nat /\ MaxHistory \in Nat /\ h \in Nat
  BY SuperGraphAssumption DEF IsRecord
<1>2. U \in Node
  BY <1>1 DEF Node
<1>3. H \in [1 .. h -> Node]
  <2>1. \A i \in 1 .. h : r.history[i] \in Nat
    BY <1>1, ElementOfSeq
  <2>. QED  BY <2>1 DEF Node
<1>4. C \in [1 .. NumCandidates -> Node]
  <2>1. \A i \in 1 .. NumCandidates : r.candidates[i] \in Nat
    BY <1>1, ElementOfSeq
  <2>. QED  BY <2>1 DEF Node
<1>5. Star(r, g) = (<<U>> \o H) \o C
  BY DEF Star
<1>6. U.graph = g /\ U.type = 1
  OBVIOUS
<1>7. \A k \in 1 .. h : H[k].graph = g /\ H[k].type = 2
  OBVIOUS
<1>8. \A k \in 1 .. NumCandidates :
        C[k].graph = g /\ C[k].type = 3 /\ C[k].label = IF k = r.positive THEN 1 ELSE 0
  OBVIOUS
<1>9. h \in Nat /\ h \in 0 .. MaxHistory /\ NumCandidates \in Nat
  BY <1>1
<1>. DEFINE star == (<<U>> \o H) \o C
<1>10. /\ star \in Seq(Node) /\ Len(star) = 1 + h + NumCandidates
       /\ star[1] = U
       /\ \A k \in 1 .. h : star[1 + k] = H[k]
       /\ \A k \in 1 .. NumCandidates : star[1 + h + k] = C[k]
  <2>1. <<U>> \in Seq(Node) /\ Len(<<U>>) = 1 /\ <<U>>[1] = U
    BY <1>2
  <2>2. H \in Seq(Node) /\ Len(H) = h
    <3>. HIDE DEF H, h
    <3>. QED  BY <1>3, <1>9, FcnIsSeq
  <2>3. C \in Seq(Node) /\ Len(C) = NumCandidates
    <3>. HIDE DEF C
    <3>. QED  BY <1>4, <1>9, FcnIsSeq
  <2>. HIDE DEF U, H, C, h
  <2>4. /\ <<U>> \o H \in Seq(Node) /\ Len(<<U>> \o H) = 1 + h
        /\ (<<U>> \o H)[1] = U
        /\ \A k \in 1 .. h : (<<U>> \o H)[1 + k] = H[k]
    BY <2>1, <2>2, <1>9, TwoParts
  <2>. DEFINE uh == <<U>> \o H
  <2>. HIDE DEF uh
  <2>5. /\ uh \in Seq(Node) /\ Len(uh) = 1 + h
        /\ uh[1] = U
        /\ \A k \in 1 .. h : uh[1 + k] = H[k]
    BY <2>4 DEF uh
  <2>6. /\ uh \o C \in Seq(Node) /\ Len(uh \o C) = 1 + h + NumCandidates
        /\ \A k \in 1 .. 1 + h : (uh \o C)[k] = uh[k]
        /\ \A k \in 1 .. NumCandidates : (uh \o C)[1 + h + k] = C[k]
    <3>1. /\ uh \o C \in Seq(Node) /\ Len(uh \o C) = Len(uh) + Len(C)
          /\ \A k \in 1 .. Len(uh) : (uh \o C)[k] = uh[k]
          /\ \A k \in 1 .. Len(C) : (uh \o C)[Len(uh) + k] = C[k]
      <4>1. uh \in Seq(Node) /\ C \in Seq(Node)
        BY <2>3, <2>5
      <4>. QED  BY <4>1, TwoParts
    <3>. QED  BY <3>1, <2>3, <2>5
  <2>7. (uh \o C)[1] = U /\ \A k \in 1 .. h : (uh \o C)[1 + k] = H[k]
    BY <2>5, <2>6, <1>9
  <2>. QED  BY <2>6, <2>7 DEF uh
<1>11. Star(r, g) = star
  BY <1>5
<1>. HIDE DEF U, H, C, star
<1>12. star[1].graph = g /\ star[1].type = 1
  BY <1>6, <1>10
<1>13. \A k \in 1 .. h : star[1 + k].graph = g /\ star[1 + k].type = 2
  BY <1>7, <1>10
<1>14. \A k \in 1 .. NumCandidates :
         /\ star[1 + h + k].graph = g /\ star[1 + h + k].type = 3
         /\ star[1 + h + k].label = IF k = r.positive THEN 1 ELSE 0
  BY <1>8, <1>10
<1>. QED
  BY <1>9, <1>10, <1>11, <1>12, <1>13, <1>14

(* Its edges: from the history to the user, from the user to the candidates. *)
LEMMA StarEdgesAre ==
  ASSUME NEW r \in Records, NEW offset \in Nat
  PROVE  /\ StarEdges(r, offset) \in Seq(Nat \X Nat)
         /\ Len(StarEdges(r, offset)) = Len(r.history) + NumCandidates
         /\ \A k \in 1 .. Len(r.history) :
              StarEdges(r, offset)[k] = <<offset + k + 1, offset + 1>>
         /\ \A k \in 1 .. NumCandidates :
              StarEdges(r, offset)[Len(r.history) + k] = <<offset + 1, offset + 1 + Len(r.history) + k>>
<1>. DEFINE h == Len(r.history)
           H == [i \in 1 .. h |-> <<offset + i + 1, offset + 1>>]
           C == [i \in 1 .. NumCandidates |-> <<offset + 1, offset + 1 + h + i>>]
<1>1. h \in Nat /\ NumCandidates \in Nat
  BY SuperGraphAssumption DEF IsRecord
<1>2. H \in [1 .. h -> Nat \X Nat]
  BY <1>1
<1>3. C \in [1 .. NumCandidates -> Nat \X Nat]
  <2>1. \A i \in 1 .. NumCandidates : offset + 1 \in Nat /\ offset + 1 + h + i \in Nat
    <3>. HIDE DEF h
    <3>. QED  BY <1>1
  <2>. HIDE DEF h
  <2>. QED  BY <2>1
<1>4. H \in Seq(Nat \X Nat) /\ Len(H) = h
  BY <1>1, <1>2, FcnIsSeq
<1>5. C \in Seq(Nat \X Nat) /\ Len(C) = NumCandidates
  BY <1>1, <1>3, FcnIsSeq
<1>6. StarEdges(r, offset) = H \o C
  BY DEF StarEdges
<1>7. \A k \in 1 .. h : H[k] = <<offset + k + 1, offset + 1>>
  OBVIOUS
<1>8. \A k \in 1 .. NumCandidates : C[k] = <<offset + 1, offset + 1 + h + k>>
  OBVIOUS
<1>. HIDE DEF H, C
<1>9. /\ H \o C \in Seq(Nat \X Nat)
      /\ Len(H \o C) = Len(H) + Len(C)
      /\ \A k \in 1 .. Len(H) : (H \o C)[k] = H[k]
      /\ \A k \in 1 .. Len(C) : (H \o C)[Len(H) + k] = C[k]
  <2>1. H \in Seq(Nat \X Nat) /\ C \in Seq(Nat \X Nat)
    BY <1>4, <1>5
  <2>. QED  BY <2>1, TwoParts
<1>. QED
  BY <1>1, <1>4, <1>5, <1>6, <1>7, <1>8, <1>9

(* An edge at home stays so when nodes are put behind those there are.     *)
LEMMA AtHomeBehind ==
  ASSUME NEW s \in Seq(Node), NEW t \in Seq(Node), NEW e \in Nat \X Nat, AtHome(s, e)
  PROVE  AtHome(s \o t, e)
<1>1. /\ s \o t \in Seq(Node)
      /\ Len(s \o t) = Len(s) + Len(t) /\ Len(s) \in Nat /\ Len(t) \in Nat
      /\ \A k \in 1 .. Len(s) : (s \o t)[k] = s[k]
  BY TwoParts
<1>2. e[1] \in 1 .. Len(s) /\ e[2] \in 1 .. Len(s)
  BY DEF AtHome
<1>3. e[1] \in DOMAIN (s \o t) /\ e[2] \in DOMAIN (s \o t)
  BY <1>1, <1>2
<1>4. (s \o t)[e[1]] = s[e[1]] /\ (s \o t)[e[2]] = s[e[2]]
  BY <1>1, <1>2
<1>. QED
  BY <1>3, <1>4 DEF AtHome

(* More nodes and more edges, the new edges at home.                       *)
LEMMA HomeTogether ==
  ASSUME NEW b, EdgesAtHome(b), NEW t \in Seq(Node), NEW d \in Seq(Nat \X Nat), NEW c,
         \A i \in 1 .. Len(d) : AtHome(b.nodes \o t, d[i]),
         c.nodes = b.nodes \o t, c.edges = b.edges \o d
  PROVE  /\ EdgesAtHome(c)
         /\ Len(c.nodes) = Len(b.nodes) + Len(t)
         /\ Len(c.edges) = Len(b.edges) + Len(d)
<1>. DEFINE s == b.nodes
           a == b.edges
<1>1. s \in Seq(Node) /\ a \in Seq(Nat \X Nat) /\ \A i \in 1 .. Len(a) : AtHome(s, a[i])
  BY DEF EdgesAtHome
<1>. HIDE DEF s, a
<1>2. s \o t \in Seq(Node) /\ Len(s \o t) = Len(s) + Len(t)
  BY <1>1, TwoParts
<1>3. /\ a \o d \in Seq(Nat \X Nat)
      /\ Len(a \o d) = Len(a) + Len(d) /\ Len(a) \in Nat /\ Len(d) \in Nat
      /\ \A k \in 1 .. Len(a) : (a \o d)[k] = a[k]
      /\ \A k \in 1 .. Len(d) : (a \o d)[Len(a) + k] = d[k]
  BY <1>1, TwoParts
<1>4. ASSUME NEW i \in 1 .. Len(a \o d)  PROVE AtHome(s \o t, (a \o d)[i])
  <2>1. CASE i \in 1 .. Len(a)
    <3>1. a[i] \in Nat \X Nat /\ AtHome(s, a[i])
      BY <1>1, <2>1, ElementOfSeq
    <3>2. AtHome(s \o t, a[i])
      BY <1>1, <3>1, AtHomeBehind
    <3>. QED  BY <1>3, <2>1, <3>2
  <2>2. CASE i \notin 1 .. Len(a)
    <3>1. i - Len(a) \in 1 .. Len(d) /\ i = Len(a) + (i - Len(a))
      BY <1>3, <2>2
    <3>2. (a \o d)[i] = d[i - Len(a)]
      BY <1>3, <3>1
    <3>. QED  BY <3>1, <3>2 DEF s
  <2>. QED  BY <2>1, <2>2
<1>. QED
  BY <1>2, <1>3, <1>4 DEF EdgesAtHome, s, a

-----------------------------------------------------------------------------
(* The actions on one batch.                                               *)

(* One graph more is one time the largest graph more.                      *)
LEMMA OneMore ==
  ASSUME NEW x \in Nat, NEW y \in Nat
  PROVE  (x + 1) * y = x * y + y /\ x * y \in Nat
  BY SMT

(* One more star: its edges at home, its size within bounds.               *)
LEMMA AddGraphGrows ==
  ASSUME NEW b, EdgesAtHome(b), Growing(b), Len(b.nNode) < BatchSize, NEW r \in Records
  PROVE  EdgesAtHome(AddGraph(b, r)) /\ Growing(AddGraph(b, r))
<1>. DEFINE g == Len(b.nNode) + 1
           n == Len(b.nodes)
           h == Len(r.history)
           S == Star(r, g)
           D == StarEdges(r, n)
           c == AddGraph(b, r)
<1>1. /\ BatchSize \in Nat /\ NumCandidates \in Nat /\ MaxHistory \in Nat
      /\ b.nNode \in Seq(Nat) /\ Len(b.nNode) \in Nat /\ g \in Nat
      /\ b.nodes \in Seq(Node) /\ n \in Nat /\ Len(b.edges) \in Nat
  BY SuperGraphAssumption DEF EdgesAtHome, Growing
<1>2. /\ S \in Seq(Node) /\ h \in 0 .. MaxHistory /\ Len(S) = 1 + h + NumCandidates
      /\ S[1].graph = g /\ S[1].type = 1
      /\ \A k \in 1 .. h : S[1 + k].graph = g /\ S[1 + k].type = 2
      /\ \A k \in 1 .. NumCandidates : S[1 + h + k].graph = g /\ S[1 + h + k].type = 3
  <2>1. g \in Nat
    BY <1>1
  <2>. HIDE DEF g
  <2>. QED  BY <2>1, StarNodes
<1>3. /\ D \in Seq(Nat \X Nat) /\ Len(D) = h + NumCandidates
      /\ \A k \in 1 .. h : D[k] = <<n + k + 1, n + 1>>
      /\ \A k \in 1 .. NumCandidates : D[h + k] = <<n + 1, n + 1 + h + k>>
  BY <1>1, StarEdgesAre
<1>4. c.nodes = b.nodes \o S /\ c.edges = b.edges \o D /\ c.nNode = Append(b.nNode, 1 + h + NumCandidates)
  BY DEF AddGraph
<1>5. /\ b.nodes \o S \in Seq(Node)
      /\ Len(b.nodes \o S) = n + Len(S)
      /\ \A k \in 1 .. Len(S) : (b.nodes \o S)[n + k] = S[k]
  <2>1. b.nodes \in Seq(Node) /\ S \in Seq(Node)
    BY <1>1, <1>2
  <2>. HIDE DEF S
  <2>. QED  BY <2>1, TwoParts
<1>. HIDE DEF S, D, c, h, n, g
<1>6. ASSUME NEW i \in 1 .. Len(D)  PROVE AtHome(b.nodes \o S, D[i])
  <2>. DEFINE T == b.nodes \o S
  <2>1. /\ DOMAIN T = 1 .. n + (1 + h + NumCandidates)
        /\ T[n + 1] = S[1]
        /\ \A k \in 1 .. h : T[n + k + 1] = S[1 + k]
        /\ \A k \in 1 .. NumCandidates : T[n + 1 + h + k] = S[1 + h + k]
    <3>1. \A k \in 1 .. h : n + k + 1 = n + (1 + k) /\ 1 + k \in 1 .. Len(S)
      BY <1>1, <1>2
    <3>2. \A k \in 1 .. NumCandidates : n + 1 + h + k = n + (1 + h + k) /\ 1 + h + k \in 1 .. Len(S)
      BY <1>1, <1>2
    <3>3. 1 \in 1 .. Len(S)
      BY <1>1, <1>2
    <3>4. DOMAIN T = 1 .. n + (1 + h + NumCandidates)
      BY <1>2, <1>5
    <3>. HIDE DEF T
    <3>5. \A k \in 1 .. Len(S) : T[n + k] = S[k]
      BY <1>5 DEF T
    <3>. QED  BY <3>1, <3>2, <3>3, <3>4, <3>5
  <2>. HIDE DEF T
  <2>2. CASE i \in 1 .. h
    <3>1. D[i] = <<n + i + 1, n + 1>>
      BY <1>3, <2>2
    <3>2. n + i + 1 \in DOMAIN T /\ n + 1 \in DOMAIN T
      BY <1>1, <1>2, <2>1, <2>2
    <3>3. /\ T[n + i + 1].graph = g /\ T[n + i + 1].type = 2
          /\ T[n + 1].graph = g /\ T[n + 1].type = 1
      BY <1>2, <2>1, <2>2
    <3>. QED  BY <3>1, <3>2, <3>3 DEF AtHome, T
  <2>3. CASE i \notin 1 .. h
    <3>. DEFINE k == i - h
    <3>1. k \in 1 .. NumCandidates /\ i = h + k
      BY <1>1, <1>2, <1>3, <2>3
    <3>. HIDE DEF k
    <3>2. D[i] = <<n + 1, n + 1 + h + k>>
      BY <1>3, <3>1
    <3>3. n + 1 + h + k \in DOMAIN T /\ n + 1 \in DOMAIN T
      BY <1>1, <1>2, <2>1, <3>1
    <3>4. /\ T[n + 1 + h + k].graph = g /\ T[n + 1 + h + k].type = 3
          /\ T[n + 1].graph = g /\ T[n + 1].type = 1
      BY <1>2, <2>1, <3>1
    <3>. QED  BY <3>2, <3>3, <3>4 DEF AtHome, T
  <2>. QED  BY <2>2, <2>3
<1>7. EdgesAtHome(c) /\ Len(c.nodes) = n + Len(S) /\ Len(c.edges) = Len(b.edges) + Len(D)
  <2>1. S \in Seq(Node) /\ D \in Seq(Nat \X Nat) /\ c.nodes = b.nodes \o S /\ c.edges = b.edges \o D
    BY <1>2, <1>3, <1>4
  <2>2. \A i \in 1 .. Len(D) : AtHome(b.nodes \o S, D[i])
    BY <1>6
  <2>3. EdgesAtHome(c) /\ Len(c.nodes) = Len(b.nodes) + Len(S) /\ Len(c.edges) = Len(b.edges) + Len(D)
    BY <2>1, <2>2, HomeTogether, Z3
  <2>. QED  BY <2>3 DEF n
<1>8. c.nNode \in Seq(Nat) /\ Len(c.nNode) = Len(b.nNode) + 1 /\ Len(c.nNode) \in 0 .. BatchSize
  <2>1. 1 + h + NumCandidates \in Nat
    BY <1>1, <1>2
  <2>. QED  BY <1>1, <1>4, <2>1
<1>9. /\ (Len(b.nNode) + 1) * NodesPerGraph = Len(b.nNode) * NodesPerGraph + NodesPerGraph
      /\ (Len(b.nNode) + 1) * EdgesPerGraph = Len(b.nNode) * EdgesPerGraph + EdgesPerGraph
      /\ Len(b.nNode) * NodesPerGraph \in Nat /\ Len(b.nNode) * EdgesPerGraph \in Nat
  <2>1. Len(b.nNode) \in Nat /\ NodesPerGraph \in Nat /\ EdgesPerGraph \in Nat
    BY <1>1 DEF NodesPerGraph, EdgesPerGraph
  <2>. QED  BY <2>1, OneMore
<1>10. n <= Len(b.nNode) * NodesPerGraph /\ Len(b.edges) <= Len(b.nNode) * EdgesPerGraph
  BY DEF Growing, n
<1>11. Len(S) <= NodesPerGraph /\ Len(D) <= EdgesPerGraph /\ Len(S) \in Nat /\ Len(D) \in Nat
       /\ NodesPerGraph \in Nat /\ EdgesPerGraph \in Nat
  BY <1>1, <1>2, <1>3 DEF NodesPerGraph, EdgesPerGraph
<1>12. Len(c.nodes) <= Len(c.nNode) * NodesPerGraph /\ Len(c.edges) <= Len(c.nNode) * EdgesPerGraph
  <2>1. /\ n + Len(S) <= (Len(b.nNode) + 1) * NodesPerGraph
        /\ Len(b.edges) + Len(D) <= (Len(b.nNode) + 1) * EdgesPerGraph
    BY <1>1, <1>9, <1>10, <1>11
  <2>. QED  BY <1>7, <1>8, <2>1
<1>. QED
  BY <1>7, <1>8, <1>12 DEF Growing, c

(* A full batch fits: its room is computed for graphs of the largest size, *)
(* and next_64 and the dummy graphs leave room for the padding.            *)
LEMMA FullBatchFits ==
  ASSUME NEW b, EdgesAtHome(b), Growing(b), Len(b.nNode) = BatchSize
  PROVE  Fits(b)
<1>1. /\ BatchSize \in Nat /\ NumLocalDevices \in Nat \ {0}
      /\ NodesPerGraph \in Nat /\ EdgesPerGraph \in Nat
  BY SuperGraphAssumption DEF NodesPerGraph, EdgesPerGraph
<1>2. BatchSize * NodesPerGraph \in Nat /\ BatchSize * EdgesPerGraph \in Nat
  BY <1>1
<1>3. /\ MaxNodes \in Nat /\ MaxNodes > BatchSize * NodesPerGraph
      /\ MaxEdges \in Nat /\ MaxEdges > BatchSize * EdgesPerGraph
  BY <1>2, NextGranuleAbove DEF MaxNodes, MaxEdges
<1>4. /\ Len(b.nodes) <= BatchSize * NodesPerGraph /\ Len(b.edges) <= BatchSize * EdgesPerGraph
      /\ Len(b.nodes) \in Nat /\ Len(b.edges) \in Nat
  BY DEF Growing, EdgesAtHome
<1>5. MaxGraphs \in Nat /\ MaxGraphs > BatchSize
  BY <1>1, MaxGraphsAbove
<1>. QED
  BY <1>2, <1>3, <1>4, <1>5 DEF Fits

(* Padding edges are loops at the first padding node, which there is.      *)
LEMMA PaddedAtHome ==
  ASSUME NEW b, EdgesAtHome(b), Growing(b), Len(b.nNode) = BatchSize
  PROVE  EdgesAtHome(Padded(b))
<1>. DEFINE n == Len(b.nodes)
           g == Len(b.nNode) + 1
           T == [i \in 1 .. MaxNodes - n |-> [type |-> 0, id |-> 0, label |-> 0, graph |-> g]]
           D == [i \in 1 .. MaxEdges - Len(b.edges) |-> <<n + 1, n + 1>>]
<1>1. /\ BatchSize \in Nat /\ b.nodes \in Seq(Node) /\ n \in Nat /\ g \in Nat /\ Len(b.edges) \in Nat
  BY SuperGraphAssumption DEF EdgesAtHome, Growing
<1>2. MaxNodes \in Nat /\ MaxEdges \in Nat
  <2>1. BatchSize * NodesPerGraph \in Nat /\ BatchSize * EdgesPerGraph \in Nat
    BY SuperGraphAssumption DEF NodesPerGraph, EdgesPerGraph
  <2>. QED  BY <2>1, NextGranuleAbove DEF MaxNodes, MaxEdges
<1>3. MaxNodes - n \in Nat \ {0} /\ MaxEdges - Len(b.edges) \in Nat
  BY <1>1, <1>2, FullBatchFits DEF Fits
<1>4. T \in Seq(Node) /\ Len(T) = MaxNodes - n
  <2>1. T \in [1 .. MaxNodes - n -> Node]
    BY <1>1 DEF Node
  <2>. QED  BY <1>3, <2>1, FcnIsSeq
<1>5. D \in Seq(Nat \X Nat) /\ Len(D) = MaxEdges - Len(b.edges)
  <2>1. n + 1 \in Nat
    BY <1>1
  <2>2. D \in [1 .. MaxEdges - Len(b.edges) -> Nat \X Nat]
    <3>. HIDE DEF n
    <3>. QED  BY <2>1
  <2>. QED  BY <1>3, <2>2, FcnIsSeq
<1>6. Padded(b).nodes = b.nodes \o T /\ Padded(b).edges = b.edges \o D
  BY DEF Padded
<1>7. T[1].type = 0 /\ T[1].graph = g
  BY <1>3
<1>8. \A i \in 1 .. Len(D) : D[i] = <<n + 1, n + 1>>
  BY <1>5
<1>. HIDE DEF T, D, n, g
<1>9. /\ b.nodes \o T \in Seq(Node)
      /\ Len(b.nodes \o T) = n + Len(T)
      /\ \A k \in 1 .. Len(T) : (b.nodes \o T)[n + k] = T[k]
  BY <1>1, <1>4, TwoParts DEF n
<1>10. n + 1 \in DOMAIN (b.nodes \o T) /\ (b.nodes \o T)[n + 1] = T[1]
  <2>1. 1 \in 1 .. Len(T) /\ n + 1 \in 1 .. n + Len(T)
    BY <1>1, <1>3, <1>4
  <2>2. DOMAIN (b.nodes \o T) = 1 .. n + Len(T)
    BY <1>9
  <2>. QED  BY <1>9, <2>1, <2>2
<1>11. ASSUME NEW i \in 1 .. Len(D)  PROVE AtHome(b.nodes \o T, D[i])
  <2>. DEFINE m == b.nodes \o T
  <2>1. n + 1 \in DOMAIN m /\ m[n + 1].type = 0
    BY <1>7, <1>10
  <2>. HIDE DEF m
  <2>2. D[i] = <<n + 1, n + 1>>
    BY <1>8
  <2>3. AtHome(m, <<n + 1, n + 1>>)
    BY <2>1 DEF AtHome
  <2>. QED  BY <2>2, <2>3 DEF m
<1>. QED
  BY <1>4, <1>5, <1>6, <1>11, HomeTogether

-----------------------------------------------------------------------------
(* A batch without graphs.                                                 *)
LEMMA EmptyAtHome == EdgesAtHome(NoGraph) /\ Growing(NoGraph)
<1>1. <<>> \in Seq(Node) /\ <<>> \in Seq(Nat \X Nat) /\ <<>> \in Seq(Nat) /\ Len(<<>>) = 0
  OBVIOUS
<1>2. BatchSize \in Nat /\ 0 * NodesPerGraph = 0 /\ 0 * EdgesPerGraph = 0
  BY SuperGraphAssumption DEF NodesPerGraph, EdgesPerGraph
<1>. QED
  BY <1>1, <1>2 DEF EdgesAtHome, Growing, NoGraph

(* The empty batches of Init are at home and of no size.                   *)
LEMMA InitBatchInv == Init => BatchInv
  BY EmptyAtHome DEF Init, BatchInv

(* Every action keeps every batch at home and within bounds.               *)
LEMMA NextBatchInv == BatchInv /\ [Next]_vars => BatchInv'
<1>. SUFFICES ASSUME BatchInv, [Next]_vars  PROVE BatchInv'
  OBVIOUS
<1>1. ASSUME NEW p \in Processes, MapRecord(p)  PROVE BatchInv'
  <2>1. PICK r \in Records : batch' = [batch EXCEPT ![p] = AddGraph(batch[p], r)]
    BY <1>1 DEF MapRecord
  <2>2. EdgesAtHome(AddGraph(batch[p], r)) /\ Growing(AddGraph(batch[p], r))
    BY <1>1, AddGraphGrows DEF MapRecord, BatchInv
  <2>3. DOMAIN batch = Processes /\ stage' = stage
    BY <1>1 DEF MapRecord, BatchInv
  <2>4. batch'[p] = AddGraph(batch[p], r) /\ \A q \in Processes \ {p} : batch'[q] = batch[q]
    BY <2>1, <2>3
  <2>5. DOMAIN batch' = Processes
    BY <2>1, <2>3
  <2>. QED  BY <2>2, <2>3, <2>4, <2>5 DEF BatchInv
<1>2. ASSUME NEW p \in Processes, PadBatch(p)  PROVE BatchInv'
  <2>1. EdgesAtHome(batch[p]) /\ Growing(batch[p]) /\ Len(batch[p].nNode) = BatchSize
    BY <1>2 DEF PadBatch, BatchInv
  <2>2. stage' = [stage EXCEPT ![p] = "padded"] /\ batch' = [batch EXCEPT ![p] = Padded(batch[p])]
    BY <1>2, <2>1, FullBatchFits DEF PadBatch
  <2>3. EdgesAtHome(Padded(batch[p]))
    BY <2>1, PaddedAtHome
  <2>4. /\ stage'[p] = "padded" /\ batch'[p] = Padded(batch[p])
        /\ \A q \in Processes \ {p} : stage'[q] = stage[q] /\ batch'[q] = batch[q]
        /\ DOMAIN stage' = Processes /\ DOMAIN batch' = Processes
    BY <2>2 DEF BatchInv
  <2>. QED  BY <2>3, <2>4 DEF BatchInv
<1>3. CASE NextBatch
  BY <1>3, EmptyAtHome DEF NextBatch, BatchInv
<1>4. CASE Enqueue \/ Layer \/ ScoreAndShapeResults \/ UNCHANGED vars
  <2>1. UNCHANGED <<stage, batch>>
    BY <1>4 DEF Enqueue, Layer, ScoreAndShapeResults, vars
  <2>. QED  BY <2>1 DEF BatchInv
<1>. QED
  BY <1>1, <1>2, <1>3, <1>4 DEF Next

(* The edges of every batch are at home and its size within bounds, while  *)
(* it is built and when it is padded (optimized_batch_and_pad).            *)
THEOREM BatchesInvariant == Spec => []BatchInv
  BY InitBatchInv, NextBatchInv, PTL DEF Spec

(* "Graph too large for padding" is never raised, whatever the sizes of    *)
(* batches, histories, granules and devices.                               *)
THEOREM SuperGraphAlwaysFits == Spec => []SuperGraphFits
<1>1. BatchInv => SuperGraphFits
  BY DEF BatchInv, SuperGraphFits
<1>. QED
  BY <1>1, BatchesInvariant, PTL

(* The edges of every super graph, whatever the records, join nodes of one *)
(* graph, and those of the padding join padding.                           *)
THEOREM EdgesAlwaysStayHome == Spec => []EdgesStayHome
<1>1. ASSUME BatchInv, NEW p \in Processes, NEW e \in ToSet(batch[p].edges)
      PROVE  /\ batch[p].nodes[e[1]].graph = batch[p].nodes[e[2]].graph
             /\ <<batch[p].nodes[e[1]].type, batch[p].nodes[e[2]].type>> \in {<<2, 1>>, <<1, 3>>, <<0, 0>>}
  <2>1. EdgesAtHome(batch[p])
    BY <1>1 DEF BatchInv
  <2>2. PICK i \in 1 .. Len(batch[p].edges) : e = batch[p].edges[i]
    BY <2>1 DEF ToSet, EdgesAtHome
  <2>. QED  BY <2>1, <2>2 DEF EdgesAtHome, AtHome
<1>2. BatchInv => EdgesStayHome
  BY <1>1 DEF EdgesStayHome
<1>. QED
  BY <1>2, BatchesInvariant, PTL

-----------------------------------------------------------------------------
(* Places in parts behind one another.                                     *)

(* Place n of the p-th of several parts of one size.                       *)
At(p, size, n) == (p - 1) * size + n

(* A place tells its part and its place there.                             *)
LEMMA AtIs ==
  ASSUME NEW size \in Nat \ {0}, NEW p \in Nat \ {0}, NEW n \in 1 .. size
  PROVE  /\ At(p, size, n) \in Nat \ {0}
         /\ (At(p, size, n) - 1) \div size = p - 1
         /\ (At(p, size, n) - 1) % size = n - 1
<1>1. \A q \in Nat : q * size \in Nat
  BY SMT
<1>2. \A q \in Nat, t \in 0 .. size - 1 : (q * size + t) \div size = q /\ (q * size + t) % size = t
  BY SMT
<1>3. p - 1 \in Nat /\ n - 1 \in 0 .. size - 1
  OBVIOUS
<1>4. (p - 1) * size \in Nat
  BY <1>1, <1>3
<1>5. At(p, size, n) - 1 = (p - 1) * size + (n - 1)
  <2>. DEFINE a == (p - 1) * size
  <2>1. a \in Nat
    BY <1>4
  <2>2. At(p, size, n) = a + n
    BY DEF At
  <2>. HIDE DEF a
  <2>3. At(p, size, n) - 1 = a + (n - 1)
    BY <2>1, <2>2
  <2>. QED  BY <2>3 DEF a
<1>6. At(p, size, n) \in Nat \ {0}
  <2>. DEFINE a == (p - 1) * size
  <2>1. a \in Nat
    BY <1>4
  <2>2. At(p, size, n) = a + n
    BY DEF At
  <2>. HIDE DEF a
  <2>. QED  BY <2>1, <2>2
<1>. QED
  BY <1>2, <1>3, <1>5, <1>6, Zenon

(* The parts before take no more room than they have.                      *)
LEMMA PartsBefore ==
  ASSUME NEW size \in Nat, NEW p \in Nat \ {0}, NEW q \in Nat, p <= q
  PROVE  (p - 1) * size + size <= q * size /\ (p - 1) * size \in Nat /\ q * size \in Nat
<1>1. \A a \in Nat, d \in Nat : (a + 1 + d) * size = a * size + size + d * size /\ a * size \in Nat /\ d * size \in Nat
  BY SMT
<1>2. p - 1 \in Nat /\ q - p \in Nat /\ q = (p - 1) + 1 + (q - p)
  OBVIOUS
<1>. DEFINE a == p - 1
           d == q - p
<1>3. (a + 1 + d) * size = a * size + size + d * size /\ a * size \in Nat /\ d * size \in Nat
  <2>. HIDE DEF a, d
  <2>. QED  BY <1>1, <1>2 DEF a, d
<1>. DEFINE x == a * size
           y == d * size
           z == q * size
<1>4. z = x + size + y /\ x \in Nat /\ y \in Nat
  BY <1>2, <1>3
<1>5. z \in Nat /\ x + size <= z
  <2>. HIDE DEF x, y, z
  <2>. QED  BY <1>4
<1>. QED
  BY <1>4, <1>5

(* A place in a part is a place in the whole.                              *)
LEMMA AtWithin ==
  ASSUME NEW size \in Nat, NEW k \in Nat, NEW p \in 1 .. k, NEW n \in 1 .. size
  PROVE  At(p, size, n) \in 1 .. k * size
<1>1. (p - 1) * size + size <= k * size /\ (p - 1) * size \in Nat /\ k * size \in Nat
  BY PartsBefore
<1>. DEFINE x == (p - 1) * size
           z == k * size
<1>2. x + size <= z /\ x \in Nat /\ z \in Nat /\ At(p, size, n) = x + n
  BY <1>1 DEF At
<1>. HIDE DEF x, z
<1>3. At(p, size, n) \in 1 .. z
  BY <1>2
<1>. QED  BY <1>3 DEF z

(* Every place is in a part.                                               *)
LEMMA AtSome ==
  ASSUME NEW size \in Nat, NEW k \in Nat, NEW x \in 1 .. k * size
  PROVE  \E p \in 1 .. k, n \in 1 .. size :
           /\ x = At(p, size, n)
           /\ p = 1 + (x - 1) \div size /\ n = 1 + ((x - 1) % size)
<1>0. size # 0
  BY SMT
<1>. DEFINE q == (x - 1) \div size
           t == (x - 1) % size
<1>1. k * size \in Nat
  BY SMT
<1>2. x - 1 \in Nat /\ x \in Nat
  <2>. DEFINE z == k * size
  <2>1. z \in Nat /\ x \in 1 .. z
    BY <1>1
  <2>. HIDE DEF z
  <2>. QED  BY <2>1
<1>3. q \in Nat /\ t \in 0 .. size - 1 /\ x - 1 = size * q + t
  BY <1>0, <1>2, SMT
<1>4. size * q = q * size
  <2>. HIDE DEF q
  <2>. QED  BY <1>3
<1>. HIDE DEF q, t
<1>5. x = At(1 + q, size, 1 + t)
  <2>1. (1 + q) - 1 = q
    BY <1>3
  <2>2. q * size \in Nat
    BY <1>3
  <2>. DEFINE y == q * size
  <2>3. y \in Nat /\ x - 1 = y + t /\ At(1 + q, size, 1 + t) = y + (1 + t)
    BY <1>3, <1>4, <2>1, <2>2 DEF At
  <2>. HIDE DEF y
  <2>. QED  BY <1>2, <1>3, <2>3
<1>6. 1 + q <= k
  <2>1. SUFFICES ASSUME ~ (1 + q <= k)  PROVE FALSE
    OBVIOUS
  <2>2. (k + 1 - 1) * size + size <= (1 + q) * size /\ (k + 1 - 1) * size \in Nat /\ (1 + q) * size \in Nat
    <3>1. k + 1 \in Nat \ {0} /\ 1 + q \in Nat /\ k + 1 <= 1 + q
      BY <1>3, <2>1
    <3>. QED  BY <3>1, PartsBefore
  <2>3. k + 1 - 1 = k /\ (1 + q) * size = q * size + size
    BY <1>3
  <2>. DEFINE y == q * size
             z == k * size
  <2>4. y \in Nat /\ z \in Nat /\ z <= y /\ x - 1 = y + t /\ x \in 1 .. z
    <3>1. y \in Nat /\ z \in Nat /\ x - 1 = y + t /\ x \in 1 .. z
      BY <1>1, <1>3, <1>4
    <3>2. z + size <= y + size
      BY <2>2, <2>3
    <3>. HIDE DEF y, z
    <3>. QED  BY <3>1, <3>2
  <2>. HIDE DEF y, z
  <2>. QED  BY <1>3, <2>4
<1>7. 1 + q \in 1 .. k /\ 1 + t \in 1 .. size
  BY <1>3, <1>6
<1>. QED
  BY <1>5, <1>7 DEF q, t

(* Places are ordered by part, then by place there.                        *)
LEMMA AtIncreases ==
  ASSUME NEW size \in Nat, NEW p \in Nat \ {0}, NEW n \in 1 .. size, NEW q \in Nat \ {0}, NEW m \in 1 .. size
  PROVE  At(p, size, n) < At(q, size, m) <=> (p < q \/ (p = q /\ n < m))
<1>1. ASSUME NEW c \in Nat \ {0}, NEW d \in Nat \ {0}, c < d, NEW i \in 1 .. size, NEW j \in 1 .. size
      PROVE  At(c, size, i) < At(d, size, j)
  <2>1. (c - 1) * size + size <= (d - 1) * size /\ (c - 1) * size \in Nat /\ (d - 1) * size \in Nat
    <3>1. d - 1 \in Nat /\ c <= d - 1
      BY <1>1
    <3>. QED  BY <3>1, PartsBefore
  <2>. DEFINE x == (c - 1) * size
             y == (d - 1) * size
  <2>2. x + size <= y /\ x \in Nat /\ y \in Nat /\ At(c, size, i) = x + i /\ At(d, size, j) = y + j
    BY <2>1 DEF At
  <2>. HIDE DEF x, y
  <2>. QED  BY <2>2
<1>2. CASE p < q
  <2>1. At(p, size, n) < At(q, size, m)
    BY <1>1, <1>2
  <2>. QED  BY <1>2, <2>1
<1>3. CASE q < p
  <2>1. At(q, size, m) < At(p, size, n)
    BY <1>1, <1>3
  <2>2. At(q, size, m) \in Int /\ At(p, size, n) \in Int
    BY DEF At
  <2>. QED  BY <1>3, <2>1, <2>2
<1>4. CASE p = q
  <2>. DEFINE x == (p - 1) * size
  <2>1. x \in Int /\ At(p, size, n) = x + n /\ At(q, size, m) = x + m
    BY <1>4 DEF At
  <2>. HIDE DEF x
  <2>. QED  BY <1>4, <2>1
<1>. QED  BY <1>2, <1>3, <1>4

(* Places of parts of parts.                                               *)
LEMMA AtAt ==
  ASSUME NEW k \in Nat, NEW w \in Nat, NEW p \in Nat \ {0}, NEW s \in 1 .. k, NEW j \in 1 .. w
  PROVE  At(At(p, k, s), w, j) = At(p, k * w, At(s, w, j))
<1>1. \A a \in Nat, b \in Nat : (a * k + b) * w + j = a * (k * w) + (b * w + j)
  BY SMT
<1>. DEFINE a == p - 1
           b == s - 1
<1>2. a \in Nat /\ b \in Nat /\ s = b + 1
  OBVIOUS
<1>3. (a * k + b) * w + j = a * (k * w) + (b * w + j)
  <2>. HIDE DEF a, b
  <2>. QED  BY <1>1, <1>2
<1>4. At(p, k, s) - 1 = a * k + b
  <2>. DEFINE x == a * k
  <2>1. x \in Int /\ At(p, k, s) = x + s
    BY DEF At
  <2>. HIDE DEF x
  <2>2. At(p, k, s) - 1 = x + b
    BY <2>1
  <2>. QED  BY <2>2 DEF x
<1>. QED
  BY <1>3, <1>4 DEF At

-----------------------------------------------------------------------------
(* Lists in increasing order, and compaction.                              *)

(* f lists the elements of S from the least to the greatest.               *)
Lists(f, S, m) ==
  /\ f \in [1 .. m -> S]
  /\ \A i, j \in 1 .. m : i < j => f[i] < f[j]
  /\ \A n \in S : \E i \in 1 .. m : f[i] = n

(* The first k of a list.                                                  *)
FirstOf(f, k) == {f[i] : i \in 1 .. k}

(* The first k are k.                                                      *)
LEMMA ListCounts ==
  ASSUME NEW S \in SUBSET Int, NEW m \in Nat, NEW f, Lists(f, S, m), NEW k \in Nat, k <= m
  PROVE  Cardinality(FirstOf(f, k)) = k /\ IsFiniteSet(FirstOf(f, k))
<1>. DEFINE T == {f[i] : i \in 1 .. k}
           g == [i \in 1 .. k |-> f[i]]
<1>1. g \in [1 .. k -> T]
  OBVIOUS
<1>2. \A i, j \in 1 .. k : g[i] = g[j] => i = j
  <2>. SUFFICES ASSUME NEW i \in 1 .. k, NEW j \in 1 .. k, f[i] = f[j]  PROVE i = j
    OBVIOUS
  <2>1. i \in 1 .. m /\ j \in 1 .. m
    OBVIOUS
  <2>2. f[i] \in Int /\ f[j] \in Int
    BY <2>1 DEF Lists
  <2>3. i < j => f[i] < f[j]
    BY <2>1 DEF Lists
  <2>4. j < i => f[j] < f[i]
    BY <2>1 DEF Lists
  <2>. QED  BY <2>2, <2>3, <2>4
<1>3. \A t \in T : \E i \in 1 .. k : g[i] = t
  OBVIOUS
<1>4. g \in Bijection(1 .. k, T)
  <2>. HIDE DEF g, T
  <2>. QED  BY <1>1, <1>2, <1>3 DEF Bijection, Injection, Surjection, IsInjective
<1>5. ExistsBijection(1 .. k, T)
  BY <1>4 DEF ExistsBijection
<1>. HIDE DEF T
<1>6. IsFiniteSet(1 .. k) /\ k \in Nat
  BY FS_Interval
<1>7. IsFiniteSet(T)
  BY <1>5, <1>6, FS_Bijection
<1>8. Cardinality(T) = k
  BY <1>5, <1>6, FS_CountingElements
<1>. QED  BY <1>7, <1>8 DEF T, FirstOf

(* A list leaves no element out.                                           *)
LEMMA ListedIsAll ==
  ASSUME NEW S, NEW m \in Nat, NEW f, Lists(f, S, m)
  PROVE  S = FirstOf(f, m)
<1>1. \A i \in 1 .. m : f[i] \in S
  BY DEF Lists
<1>2. \A n \in S : \E i \in 1 .. m : f[i] = n
  BY DEF Lists
<1>. QED  BY <1>1, <1>2 DEF FirstOf

(* The n-th place of a compacted array holds the n-th of its elements.     *)
LEMMA CompactedIs ==
  ASSUME NEW S \in SUBSET Int, NEW m \in Nat, NEW f, Lists(f, S, m), NEW size \in Nat
  PROVE  /\ DOMAIN Compacted(S, size) = 1 .. size
         /\ \A s \in 1 .. size :
              Compacted(S, size)[s] = IF s <= m THEN f[s] ELSE 1
<1>. DEFINE rank(n) == Cardinality({x \in S : x <= n})
<1>1. ASSUME NEW s \in 1 .. m  PROVE rank(f[s]) = s
  <2>1. \A i \in 1 .. m : f[i] \in S /\ f[i] \in Int
    BY DEF Lists
  <2>2. \A i \in 1 .. m : f[i] <= f[s] <=> i <= s
    <3>. SUFFICES ASSUME NEW i \in 1 .. m  PROVE f[i] <= f[s] <=> i <= s
      OBVIOUS
    <3>1. (i < s => f[i] < f[s]) /\ (s < i => f[s] < f[i])
      BY DEF Lists
    <3>2. f[i] \in Int /\ f[s] \in Int
      BY <2>1
    <3>. QED  BY <3>1, <3>2
  <2>3. \A x \in S : \E i \in 1 .. m : f[i] = x
    BY DEF Lists
  <2>4. \A x : x \in {y \in S : y <= f[s]} <=> x \in {f[i] : i \in 1 .. s}
    <3>1. ASSUME NEW x \in S, x <= f[s]  PROVE \E i \in 1 .. s : x = f[i]
      <4>1. PICK i \in 1 .. m : f[i] = x
        BY <2>3
      <4>2. i <= s
        BY <2>2, <3>1, <4>1
      <4>. QED  BY <4>1, <4>2
    <3>2. ASSUME NEW i \in 1 .. s  PROVE f[i] \in S /\ f[i] <= f[s]
      <4>1. i \in 1 .. m /\ i <= s
        OBVIOUS
      <4>. QED  BY <2>1, <2>2, <4>1
    <3>. QED  BY <3>1, <3>2
  <2>5. {y \in S : y <= f[s]} = FirstOf(f, s)
    BY <2>4, Zenon DEF FirstOf
  <2>6. s \in Nat /\ s <= m
    OBVIOUS
  <2>7. Cardinality(FirstOf(f, s)) = s
    BY <2>6, ListCounts, SMT
  <2>. QED  BY <2>5, <2>7
<1>2. Cardinality(S) = m
  <2>1. m \in Nat /\ m <= m
    OBVIOUS
  <2>2. S = FirstOf(f, m)
    BY ListedIsAll
  <2>3. Cardinality(FirstOf(f, m)) = m
    BY <2>1, ListCounts, SMT
  <2>. QED  BY <2>2, <2>3, Zenon
<1>3. ASSUME NEW s \in 1 .. m  PROVE (CHOOSE n \in S : rank(n) = s) = f[s]
  <2>. HIDE DEF rank
  <2>1. f[s] \in S /\ rank(f[s]) = s
    BY <1>1 DEF Lists
  <2>2. ASSUME NEW n \in S, rank(n) = s  PROVE n = f[s]
    <3>1. PICK i \in 1 .. m : f[i] = n
      BY DEF Lists
    <3>2. rank(f[i]) = i
      BY <1>1
    <3>. QED  BY <2>2, <3>1, <3>2
  <2>3. \A n \in S : rank(n) = s => n = f[s]
    BY <2>2
  <2>. QED  BY <2>1, <2>3, Zenon
<1>4. Compacted(S, size) = [s \in 1 .. size |-> IF s <= m THEN CHOOSE n \in S : rank(n) = s ELSE 1]
  <2>1. Compacted(S, size) =
          [s \in 1 .. size |-> IF s <= Cardinality(S) THEN CHOOSE n \in S : rank(n) = s ELSE 1]
    BY DEF Compacted
  <2>. QED  BY <1>2, <2>1
<1>. HIDE DEF rank
<1>5. ASSUME NEW s \in 1 .. size, s <= m  PROVE (CHOOSE n \in S : rank(n) = s) = f[s]
  <2>1. s \in 1 .. m
    BY <1>5
  <2>. QED  BY <1>3, <2>1
<1>. QED  BY <1>4, <1>5

-----------------------------------------------------------------------------
(* Where the nodes of a batch stand.                                       *)

(* The nodes of a type.                                                    *)
TypeAt(nodes, t) == {n \in DOMAIN nodes : nodes[n].type = t}

(* The nodes of type t, w for each of k graphs, stand graph by graph.      *)
Ranked(nodes, t, w, k, f) ==
  /\ Lists(f, TypeAt(nodes, t), k * w)
  /\ \A s \in 1 .. k : \A j \in 1 .. w : nodes[f[At(s, w, j)]].graph = s

(* Each of k graphs has one candidate labelled 1.                          *)
OnePositive(nodes, k) ==
  \A s \in 1 .. k : \E c \in DOMAIN nodes : \A n \in DOMAIN nodes :
    (nodes[n].type = 3 /\ nodes[n].graph = s /\ nodes[n].label = 1) <=> n = c

(* Two nodes that build_graph_arrays joins.                                *)
MustJoin(nodes, m, n) ==
  /\ nodes[m].graph = nodes[n].graph
  /\ <<nodes[m].type, nodes[n].type>> \in {<<2, 1>>, <<1, 3>>}

(* The edges of k stars are all there.                                     *)
Starred(nodes, edges, k) ==
  /\ \A n \in DOMAIN nodes : nodes[n].type # 0 => nodes[n].graph \in 1 .. k
  /\ \A m, n \in DOMAIN nodes : MustJoin(nodes, m, n) =>
       \E i \in DOMAIN edges : edges[i] = <<m, n>>

(* Node 1, what unused slots are filled with, is a user.                   *)
UserFirst(nodes, k) == k # 0 => 1 \in DOMAIN nodes /\ nodes[1].type = 1

(* A batch of k graphs.                                                    *)
Laid(b, k) ==
  /\ \E f : Ranked(b.nodes, 1, 1, k, f)
  /\ \E f : Ranked(b.nodes, 3, NumCandidates, k, f)
  /\ OnePositive(b.nodes, k)
  /\ UserFirst(b.nodes, k)
  /\ Starred(b.nodes, b.edges, k)

(* c is t behind s.                                                        *)
Joined(c, s, t, l, d) ==
  /\ l \in Nat /\ d \in Nat
  /\ DOMAIN s = 1 .. l /\ DOMAIN t = 1 .. d /\ DOMAIN c = 1 .. l + d
  /\ \A i \in 1 .. l : c[i] = s[i]
  /\ \A i \in 1 .. d : c[l + i] = t[i]

(* Two sequences joined.                                                   *)
LEMMA JoinedBehind ==
  ASSUME NEW S, NEW s \in Seq(S), NEW t \in Seq(S)
  PROVE  Joined(s \o t, s, t, Len(s), Len(t))
<1>. DEFINE c == s \o t
<1>1. /\ c \in Seq(S) /\ Len(c) = Len(s) + Len(t) /\ Len(s) \in Nat /\ Len(t) \in Nat
      /\ \A k \in 1 .. Len(s) : c[k] = s[k]
      /\ \A k \in 1 .. Len(t) : c[Len(s) + k] = t[k]
  BY TwoParts
<1>2. DOMAIN s = 1 .. Len(s) /\ DOMAIN t = 1 .. Len(t)
  OBVIOUS
<1>. HIDE DEF c
<1>3. DOMAIN c = 1 .. Len(s) + Len(t)
  BY <1>1
<1>. QED
  BY <1>1, <1>2, <1>3, Zenon DEF Joined, c

(* A place in a joined sequence is of the one or of the other.             *)
LEMMA OldOrNew ==
  ASSUME NEW c, NEW s, NEW t, NEW l, NEW d, Joined(c, s, t, l, d), NEW n \in DOMAIN c
  PROVE  \/ n \in DOMAIN s /\ n \in 1 .. l /\ c[n] = s[n]
         \/ \E i \in DOMAIN t : i \in 1 .. d /\ n = l + i /\ c[n] = t[i]
<1>1. CASE n <= l
  BY <1>1 DEF Joined
<1>2. CASE ~ (n <= l)
  <2>1. n - l \in 1 .. d /\ n = l + (n - l) /\ n - l \in DOMAIN t
    BY <1>2 DEF Joined
  <2>2. c[n] = t[n - l]
    BY <2>1 DEF Joined
  <2>. QED  BY <2>1, <2>2
<1>. QED  BY <1>1, <1>2

(* What either holds is in the joined sequence.                            *)
LEMMA OldAndNewWithin ==
  ASSUME NEW c, NEW s, NEW t, NEW l, NEW d, Joined(c, s, t, l, d)
  PROVE  /\ \A i \in DOMAIN s : i \in DOMAIN c /\ c[i] = s[i] /\ i \in 1 .. l
         /\ \A i \in DOMAIN t : l + i \in DOMAIN c /\ c[l + i] = t[i] /\ i \in 1 .. d
         /\ l \in Nat /\ d \in Nat
<1>1. \A i \in 1 .. l : i \in 1 .. l + d
  BY DEF Joined
<1>2. \A i \in 1 .. d : l + i \in 1 .. l + d
  BY DEF Joined
<1>. QED  BY <1>1, <1>2 DEF Joined

(* The first user stays first as graphs come behind it.                    *)
LEMMA UserFirstMore ==
  ASSUME NEW c, NEW s, NEW t, NEW l, NEW d, Joined(c, s, t, l, d),
         NEW k \in Nat, UserFirst(s, k), k = 0 => l = 0, 1 \in DOMAIN t, t[1].type = 1
  PROVE  UserFirst(c, k + 1)
<1>1. /\ \A i \in DOMAIN s : i \in DOMAIN c /\ c[i] = s[i] /\ i \in 1 .. l
      /\ \A i \in DOMAIN t : l + i \in DOMAIN c /\ c[l + i] = t[i] /\ i \in 1 .. d
  BY OldAndNewWithin
<1>2. CASE k = 0
  <2>1. l + 1 = 1
    BY <1>2
  <2>. QED  BY <1>1, <2>1 DEF UserFirst
<1>3. CASE k # 0
  BY <1>1, <1>3 DEF UserFirst
<1>. QED  BY <1>2, <1>3

(* And as padding does.                                                    *)
LEMMA UserFirstSame ==
  ASSUME NEW c, NEW s, NEW t, NEW l, NEW d, Joined(c, s, t, l, d), NEW k \in Nat, UserFirst(s, k)
  PROVE  UserFirst(c, k)
BY OldAndNewWithin DEF UserFirst

(* A graph behind k graphs: its nodes of a type are listed last.           *)
LEMMA RankedMore ==
  ASSUME NEW c, NEW s, NEW t, NEW l, NEW d, Joined(c, s, t, l, d),
         NEW ty, NEW w \in Nat, NEW k \in Nat, NEW off \in Nat, NEW f,
         \A i \in DOMAIN t : t[i].type = ty <=> i \in off + 1 .. off + w,
         \A i \in DOMAIN t : t[i].graph = k + 1,
         off + w <= d, Ranked(s, ty, w, k, f)
  PROVE  \E g : Ranked(c, ty, w, k + 1, g)
<1>. DEFINE N == k * w
           g == [i \in 1 .. N + w |-> IF i <= N THEN f[i] ELSE l + (off + (i - N))]
<1>1. N \in Nat /\ (k + 1) * w = N + w
  BY SMT
<1>2. /\ \A i \in DOMAIN s : i \in DOMAIN c /\ c[i] = s[i] /\ i \in 1 .. l
      /\ \A i \in DOMAIN t : l + i \in DOMAIN c /\ c[l + i] = t[i] /\ i \in 1 .. d
      /\ l \in Nat /\ d \in Nat
  BY OldAndNewWithin
<1>3. /\ f \in [1 .. N -> TypeAt(s, ty)]
      /\ \A i, j \in 1 .. N : i < j => f[i] < f[j]
      /\ \A n \in TypeAt(s, ty) : \E i \in 1 .. N : f[i] = n
      /\ \A x \in 1 .. k : \A j \in 1 .. w : s[f[At(x, w, j)]].graph = x
  BY DEF Ranked, Lists
<1>. HIDE DEF N
<1>4. /\ \A i \in 1 .. N : g[i] = f[i]
      /\ \A j \in 1 .. w : g[N + j] = l + (off + j)
  <2>1. \A i \in 1 .. N : i \in 1 .. N + w /\ i <= N
    BY <1>1
  <2>2. \A j \in 1 .. w : N + j \in 1 .. N + w /\ ~ (N + j <= N) /\ (N + j) - N = j
    BY <1>1
  <2>. QED  BY <2>1, <2>2
<1>5. DOMAIN g = 1 .. N + w
  OBVIOUS
<1>. HIDE DEF g
<1>6. \A i \in 1 .. N : f[i] \in DOMAIN s /\ s[f[i]].type = ty /\ f[i] \in 1 .. l /\ c[f[i]] = s[f[i]] /\ f[i] \in TypeAt(c, ty)
  <2>1. \A i \in 1 .. N : f[i] \in DOMAIN s /\ s[f[i]].type = ty
    BY <1>3 DEF TypeAt
  <2>. QED  BY <1>2, <2>1 DEF TypeAt
<1>7. \A j \in 1 .. w : /\ l + (off + j) \in TypeAt(c, ty)
                         /\ c[l + (off + j)].graph = k + 1
  <2>. SUFFICES ASSUME NEW j \in 1 .. w
                PROVE  l + (off + j) \in TypeAt(c, ty) /\ c[l + (off + j)].graph = k + 1
    OBVIOUS
  <2>1. off + j \in 1 .. d /\ off + j \in off + 1 .. off + w
    BY <1>2
  <2>2. off + j \in DOMAIN t
    BY <2>1 DEF Joined
  <2>3. t[off + j].type = ty /\ t[off + j].graph = k + 1
    BY <2>1, <2>2
  <2>. QED  BY <1>2, <2>2, <2>3 DEF TypeAt
<1>8. \A i \in 1 .. N + w : i \in 1 .. N \/ \E j \in 1 .. w : i = N + j
  <2>1. \A i \in 1 .. N + w : i \in 1 .. N \/ (i - N \in 1 .. w /\ i = N + (i - N))
    BY <1>1
  <2>. QED  BY <2>1
<1>9. g \in [1 .. N + w -> TypeAt(c, ty)]
  <2>1. \A i \in 1 .. N + w : g[i] \in TypeAt(c, ty)
    <3>. TAKE i \in 1 .. N + w
    <3>1. CASE i \in 1 .. N
      BY <1>4, <1>6, <3>1
    <3>2. CASE \E j \in 1 .. w : i = N + j
      <4>1. PICK j \in 1 .. w : i = N + j
        BY <3>2
      <4>2. g[i] = l + (off + j)
        BY <1>4, <4>1
      <4>. QED  BY <1>7, <4>2
    <3>. QED  BY <1>8, <3>1, <3>2
  <2>2. g = [i \in 1 .. N + w |-> g[i]]
    BY DEF g
  <2>. QED  BY <2>1, <2>2
<1>10. \A i, j \in 1 .. N + w : i < j => g[i] < g[j]
  <2>. SUFFICES ASSUME NEW i \in 1 .. N + w, NEW j \in 1 .. N + w, i < j  PROVE g[i] < g[j]
    OBVIOUS
  <2>1. CASE i \in 1 .. N /\ j \in 1 .. N
    BY <1>3, <1>4, <2>1
  <2>2. ASSUME NEW x \in 1 .. w, j = N + x, i \in 1 .. N  PROVE g[i] < g[j]
    <3>1. g[i] = f[i] /\ f[i] \in 1 .. l /\ g[j] = l + (off + x)
      BY <1>4, <1>6, <2>2
    <3>. QED  BY <1>2, <3>1
  <2>3. ASSUME NEW x \in 1 .. w, NEW y \in 1 .. w, j = N + x, i = N + y  PROVE g[i] < g[j]
    <3>1. g[i] = l + (off + y) /\ g[j] = l + (off + x)
      BY <1>4, <2>3
    <3>2. y < x
      BY <1>1, <2>3
    <3>. QED  BY <1>2, <3>1, <3>2
  <2>4. ASSUME NEW y \in 1 .. w, i = N + y, j \in 1 .. N  PROVE FALSE
    BY <1>1, <2>4
  <2>. QED  BY <1>8, <2>1, <2>2, <2>3, <2>4
<1>11. \A n \in TypeAt(c, ty) : \E i \in 1 .. N + w : g[i] = n
  <2>. SUFFICES ASSUME NEW n \in TypeAt(c, ty)  PROVE \E i \in 1 .. N + w : g[i] = n
    OBVIOUS
  <2>1. n \in DOMAIN c /\ c[n].type = ty
    BY DEF TypeAt
  <2>2. CASE n \in DOMAIN s /\ c[n] = s[n]
    <3>1. n \in TypeAt(s, ty)
      BY <2>1, <2>2 DEF TypeAt
    <3>2. PICK i \in 1 .. N : f[i] = n
      BY <1>3, <3>1
    <3>3. i \in 1 .. N + w /\ g[i] = n
      BY <1>1, <1>4, <3>2
    <3>. QED  BY <3>3
  <2>3. ASSUME NEW i \in DOMAIN t, n = l + i, c[n] = t[i]  PROVE \E j \in 1 .. N + w : g[j] = n
    <3>1. i \in off + 1 .. off + w
      BY <2>1, <2>3
    <3>2. i - off \in 1 .. w /\ i = off + (i - off)
      BY <3>1
    <3>3. g[N + (i - off)] = n
      BY <1>4, <2>3, <3>2
    <3>4. N + (i - off) \in 1 .. N + w
      BY <1>1, <3>2
    <3>. QED  BY <3>3, <3>4
  <2>. QED  BY <2>1, <2>2, <2>3, OldOrNew
<1>12. \A x \in 1 .. k + 1 : \A j \in 1 .. w : c[g[At(x, w, j)]].graph = x
  <2>. SUFFICES ASSUME NEW x \in 1 .. k + 1, NEW j \in 1 .. w  PROVE c[g[At(x, w, j)]].graph = x
    OBVIOUS
  <2>1. CASE x \in 1 .. k
    <3>1. At(x, w, j) \in 1 .. N
      BY <2>1, AtWithin DEF N
    <3>2. g[At(x, w, j)] = f[At(x, w, j)] /\ c[f[At(x, w, j)]] = s[f[At(x, w, j)]]
      BY <1>4, <1>6, <3>1
    <3>3. s[f[At(x, w, j)]].graph = x
      BY <1>3, <2>1
    <3>. QED  BY <3>2, <3>3
  <2>2. CASE x = k + 1
    <3>1. At(x, w, j) = N + j
      <4>1. x - 1 = k
        BY <2>2
      <4>. QED  BY <4>1 DEF At, N
    <3>. QED  BY <1>4, <1>7, <2>2, <3>1
  <2>. QED  BY <2>1, <2>2
<1>13. Lists(g, TypeAt(c, ty), N + w)
  BY <1>9, <1>10, <1>11 DEF Lists
<1>14. Ranked(c, ty, w, k + 1, g)
  BY <1>1, <1>12, <1>13 DEF Ranked
<1>. QED
  BY <1>14

(* Nodes of other types do not change the list.                            *)
LEMMA RankedSame ==
  ASSUME NEW c, NEW s, NEW t, NEW l, NEW d, Joined(c, s, t, l, d),
         NEW ty, NEW w \in Nat, NEW k \in Nat, NEW f,
         \A i \in DOMAIN t : t[i].type # ty,
         Ranked(s, ty, w, k, f)
  PROVE  Ranked(c, ty, w, k, f)
<1>1. /\ \A i \in DOMAIN s : i \in DOMAIN c /\ c[i] = s[i] /\ i \in 1 .. l
      /\ \A i \in DOMAIN t : l + i \in DOMAIN c /\ c[l + i] = t[i] /\ i \in 1 .. d
  BY OldAndNewWithin
<1>2. TypeAt(c, ty) = TypeAt(s, ty)
  <2>1. ASSUME NEW n \in TypeAt(c, ty)  PROVE n \in TypeAt(s, ty)
    <3>1. n \in DOMAIN c /\ c[n].type = ty
      BY DEF TypeAt
    <3>2. n \in DOMAIN s /\ c[n] = s[n]
      BY <3>1, OldOrNew
    <3>. QED  BY <3>1, <3>2 DEF TypeAt
  <2>2. ASSUME NEW n \in TypeAt(s, ty)  PROVE n \in TypeAt(c, ty)
    BY <1>1 DEF TypeAt
  <2>. QED  BY <2>1, <2>2
<1>3. ASSUME NEW x \in 1 .. k, NEW j \in 1 .. w  PROVE c[f[At(x, w, j)]].graph = x
  <2>1. At(x, w, j) \in 1 .. k * w
    BY AtWithin
  <2>2. f[At(x, w, j)] \in TypeAt(s, ty)
    BY <2>1 DEF Ranked, Lists
  <2>3. f[At(x, w, j)] \in DOMAIN s
    BY <2>2 DEF TypeAt
  <2>. QED  BY <1>1, <2>3 DEF Ranked
<1>. QED
  BY <1>2, <1>3 DEF Ranked

(* A graph with one positive behind k such graphs.                         *)
LEMMA PositiveMore ==
  ASSUME NEW c, NEW s, NEW t, NEW l, NEW d, Joined(c, s, t, l, d), NEW k \in Nat,
         OnePositive(s, k),
         \A n \in DOMAIN s : s[n].type # 0 => s[n].graph \in 1 .. k,
         \A i \in DOMAIN t : t[i].graph = k + 1,
         NEW q \in DOMAIN t,
         \A i \in DOMAIN t : (t[i].type = 3 /\ t[i].label = 1) <=> i = q
  PROVE  OnePositive(c, k + 1)
<1>1. /\ \A i \in DOMAIN s : i \in DOMAIN c /\ c[i] = s[i] /\ i \in 1 .. l
      /\ \A i \in DOMAIN t : l + i \in DOMAIN c /\ c[l + i] = t[i] /\ i \in 1 .. d
      /\ l \in Nat /\ d \in Nat
  BY OldAndNewWithin
<1>2. ASSUME NEW x \in 1 .. k
      PROVE  \E p \in DOMAIN c : \A n \in DOMAIN c :
               (c[n].type = 3 /\ c[n].graph = x /\ c[n].label = 1) <=> n = p
  <2>1. PICK p \in DOMAIN s : \A n \in DOMAIN s :
               (s[n].type = 3 /\ s[n].graph = x /\ s[n].label = 1) <=> n = p
    BY DEF OnePositive
  <2>2. p \in DOMAIN c /\ p \in 1 .. l
    BY <1>1
  <2>3. ASSUME NEW n \in DOMAIN c
        PROVE  (c[n].type = 3 /\ c[n].graph = x /\ c[n].label = 1) <=> n = p
    <3>1. CASE n \in DOMAIN s /\ c[n] = s[n]
      BY <2>1, <3>1
    <3>2. ASSUME NEW i \in DOMAIN t, n = l + i, c[n] = t[i]
          PROVE  ~ (c[n].graph = x) /\ n # p
      <4>1. c[n].graph = k + 1
        BY <3>2
      <4>2. i \in 1 .. d
        BY <1>1
      <4>. QED  BY <1>1, <2>2, <3>2, <4>1, <4>2
    <3>. QED  BY <3>1, <3>2, OldOrNew
  <2>. QED  BY <2>2, <2>3
<1>3. \A n \in DOMAIN c : (c[n].type = 3 /\ c[n].graph = k + 1 /\ c[n].label = 1) <=> n = l + q
  <2>. SUFFICES ASSUME NEW n \in DOMAIN c
                PROVE  (c[n].type = 3 /\ c[n].graph = k + 1 /\ c[n].label = 1) <=> n = l + q
    OBVIOUS
  <2>0. q \in 1 .. d
    BY <1>1
  <2>1. ASSUME n \in DOMAIN s, n \in 1 .. l, c[n] = s[n]
        PROVE  ~ (c[n].type = 3 /\ c[n].graph = k + 1) /\ n # l + q
    <3>1. s[n].type # 0 => s[n].graph \in 1 .. k
      BY <2>1
    <3>2. s[n].type = 3 => s[n].graph # k + 1
      BY <3>1
    <3>. QED  BY <1>1, <2>0, <2>1, <3>2
  <2>2. ASSUME NEW i \in DOMAIN t, i \in 1 .. d, n = l + i, c[n] = t[i]
        PROVE  (c[n].type = 3 /\ c[n].graph = k + 1 /\ c[n].label = 1) <=> n = l + q
    <3>1. (c[n].type = 3 /\ c[n].graph = k + 1 /\ c[n].label = 1) <=> i = q
      BY <2>2
    <3>2. i = q <=> n = l + q
      BY <1>1, <2>0, <2>2
    <3>. QED  BY <3>1, <3>2
  <2>. QED  BY <2>1, <2>2, OldOrNew
<1>4. l + q \in DOMAIN c
  BY <1>1
<1>5. \A x \in 1 .. k + 1 : x \in 1 .. k \/ x = k + 1
  OBVIOUS
<1>. QED
  BY <1>2, <1>3, <1>4, <1>5, Zenon DEF OnePositive

(* Padding has no positive.                                                *)
LEMMA PositiveSame ==
  ASSUME NEW c, NEW s, NEW t, NEW l, NEW d, Joined(c, s, t, l, d), NEW k \in Nat,
         OnePositive(s, k), \A i \in DOMAIN t : t[i].type = 0
  PROVE  OnePositive(c, k)
<1>1. /\ \A i \in DOMAIN s : i \in DOMAIN c /\ c[i] = s[i] /\ i \in 1 .. l
      /\ \A i \in DOMAIN t : l + i \in DOMAIN c /\ c[l + i] = t[i] /\ i \in 1 .. d
      /\ l \in Nat /\ d \in Nat
  BY OldAndNewWithin
<1>2. ASSUME NEW x \in 1 .. k
      PROVE  \E p \in DOMAIN c : \A n \in DOMAIN c :
               (c[n].type = 3 /\ c[n].graph = x /\ c[n].label = 1) <=> n = p
  <2>1. PICK p \in DOMAIN s : \A n \in DOMAIN s :
               (s[n].type = 3 /\ s[n].graph = x /\ s[n].label = 1) <=> n = p
    BY DEF OnePositive
  <2>2. p \in DOMAIN c /\ p \in 1 .. l
    BY <1>1
  <2>3. ASSUME NEW n \in DOMAIN c
        PROVE  (c[n].type = 3 /\ c[n].graph = x /\ c[n].label = 1) <=> n = p
    <3>1. CASE n \in DOMAIN s /\ c[n] = s[n]
      BY <2>1, <3>1
    <3>2. ASSUME NEW i \in DOMAIN t, n = l + i, c[n] = t[i]
          PROVE  ~ (c[n].type = 3) /\ n # p
      <4>1. c[n].type = 0
        BY <3>2
      <4>2. i \in 1 .. d
        BY <1>1
      <4>. QED  BY <1>1, <2>2, <3>2, <4>1, <4>2
    <3>. QED  BY <3>1, <3>2, OldOrNew
  <2>. QED  BY <2>2, <2>3
<1>. QED
  BY <1>2, Zenon DEF OnePositive

(* A star behind k stars.                                                  *)
LEMMA StarredMore ==
  ASSUME NEW c, NEW s, NEW t, NEW l, NEW d, Joined(c, s, t, l, d),
         NEW ce, NEW se, NEW te, NEW le, NEW de, Joined(ce, se, te, le, de),
         NEW k \in Nat, Starred(s, se, k),
         \A i \in DOMAIN t : t[i].graph = k + 1 /\ t[i].type # 0,
         \A i, j \in DOMAIN t : MustJoin(t, i, j) => \E x \in DOMAIN te : te[x] = <<l + i, l + j>>
  PROVE  Starred(c, ce, k + 1)
<1>1. /\ \A i \in DOMAIN s : i \in DOMAIN c /\ c[i] = s[i] /\ i \in 1 .. l
      /\ \A i \in DOMAIN t : l + i \in DOMAIN c /\ c[l + i] = t[i] /\ i \in 1 .. d
      /\ l \in Nat /\ d \in Nat
  BY OldAndNewWithin
<1>2. /\ \A i \in DOMAIN se : i \in DOMAIN ce /\ ce[i] = se[i] /\ i \in 1 .. le
      /\ \A i \in DOMAIN te : le + i \in DOMAIN ce /\ ce[le + i] = te[i] /\ i \in 1 .. de
      /\ le \in Nat /\ de \in Nat
  BY OldAndNewWithin
<1>3. ASSUME NEW n \in DOMAIN c, c[n].type # 0  PROVE c[n].graph \in 1 .. k + 1
  <2>1. CASE n \in DOMAIN s /\ c[n] = s[n]
    <3>1. s[n].graph \in 1 .. k
      BY <1>3, <2>1 DEF Starred
    <3>. QED  BY <2>1, <3>1
  <2>2. CASE \E i \in DOMAIN t : c[n] = t[i]
    BY <2>2
  <2>. QED  BY <2>1, <2>2, OldOrNew
<1>4. ASSUME NEW m \in DOMAIN c, NEW n \in DOMAIN c, MustJoin(c, m, n)
      PROVE  \E x \in DOMAIN ce : ce[x] = <<m, n>>
  <2>0. c[m].graph = c[n].graph /\ c[m].type # 0 /\ c[n].type # 0
    BY <1>4 DEF MustJoin
  <2>1. CASE (m \in DOMAIN s /\ c[m] = s[m]) /\ (n \in DOMAIN s /\ c[n] = s[n])
    <3>1. MustJoin(s, m, n)
      BY <1>4, <2>1 DEF MustJoin
    <3>2. PICK x \in DOMAIN se : se[x] = <<m, n>>
      BY <2>1, <3>1 DEF Starred
    <3>. QED  BY <1>2, <3>2
  <2>2. ASSUME NEW i \in DOMAIN t, m = l + i, c[m] = t[i], NEW j \in DOMAIN t, n = l + j, c[n] = t[j]
        PROVE  \E x \in DOMAIN ce : ce[x] = <<m, n>>
    <3>1. MustJoin(t, i, j)
      BY <1>4, <2>2 DEF MustJoin
    <3>2. PICK x \in DOMAIN te : te[x] = <<l + i, l + j>>
      BY <3>1
    <3>. QED  BY <1>2, <2>2, <3>2
  <2>3. ASSUME NEW u \in DOMAIN s, s[u].type # 0, NEW v \in DOMAIN t  PROVE s[u].graph # t[v].graph
    <3>1. s[u].graph \in 1 .. k /\ t[v].graph = k + 1
      BY <2>3 DEF Starred
    <3>. QED  BY <3>1
  <2>. QED  BY <2>0, <2>1, <2>2, <2>3, OldOrNew
<1>. QED
  BY <1>3, <1>4 DEF Starred

(* Padding needs no edges.                                                 *)
LEMMA StarredSame ==
  ASSUME NEW c, NEW s, NEW t, NEW l, NEW d, Joined(c, s, t, l, d),
         NEW ce, NEW se, NEW te, NEW le, NEW de, Joined(ce, se, te, le, de),
         NEW k \in Nat, Starred(s, se, k),
         \A i \in DOMAIN t : t[i].type = 0
  PROVE  Starred(c, ce, k)
<1>1. /\ \A i \in DOMAIN se : i \in DOMAIN ce /\ ce[i] = se[i] /\ i \in 1 .. le
      /\ \A i \in DOMAIN te : le + i \in DOMAIN ce /\ ce[le + i] = te[i] /\ i \in 1 .. de
      /\ le \in Nat /\ de \in Nat
  BY OldAndNewWithin
<1>2. ASSUME NEW n \in DOMAIN c, c[n].type # 0
      PROVE  n \in DOMAIN s /\ c[n] = s[n] /\ c[n].graph \in 1 .. k
  <2>1. n \in DOMAIN s /\ c[n] = s[n]
    BY <1>2, OldOrNew
  <2>. QED  BY <1>2, <2>1 DEF Starred
<1>3. ASSUME NEW m \in DOMAIN c, NEW n \in DOMAIN c, MustJoin(c, m, n)
      PROVE  \E x \in DOMAIN ce : ce[x] = <<m, n>>
  <2>1. c[m].type # 0 /\ c[n].type # 0
    BY <1>3 DEF MustJoin
  <2>2. m \in DOMAIN s /\ c[m] = s[m] /\ n \in DOMAIN s /\ c[n] = s[n]
    BY <1>2, <2>1
  <2>3. MustJoin(s, m, n)
    BY <1>3, <2>2 DEF MustJoin
  <2>4. PICK x \in DOMAIN se : se[x] = <<m, n>>
    BY <2>2, <2>3 DEF Starred
  <2>. QED  BY <1>1, <2>4
<1>. QED
  BY <1>2, <1>3 DEF Starred

-----------------------------------------------------------------------------
(* A star more.                                                            *)

(* A graph of one user, h movies of its history and the candidates, the    *)
(* q-th of which is the positive.                                          *)
StarShape(t, h, q, g) ==
  /\ h \in Nat /\ DOMAIN t = 1 .. 1 + h + NumCandidates
  /\ \A i \in DOMAIN t :
       /\ t[i].graph = g /\ t[i].type # 0
       /\ t[i].type = 1 <=> i \in 0 + 1 .. 0 + 1
       /\ t[i].type = 2 <=> i \in 2 .. 1 + h
       /\ t[i].type = 3 <=> i \in (1 + h) + 1 .. (1 + h) + NumCandidates
       /\ (t[i].type = 3 /\ t[i].label = 1) <=> i = 1 + h + q
  /\ 1 + h + q \in DOMAIN t

(* The star of a record is shaped so.                                      *)
LEMMA StarTypes ==
  ASSUME NEW r \in Records, NEW g \in Nat, NEW h, h = Len(r.history), NEW t, t = Star(r, g)
  PROVE  StarShape(t, h, r.positive, g)
<1>1. /\ t \in Seq(Node)
      /\ h \in 0 .. MaxHistory
      /\ Len(t) = 1 + h + NumCandidates
      /\ t[1].graph = g /\ t[1].type = 1
      /\ \A k \in 1 .. h : t[1 + k].graph = g /\ t[1 + k].type = 2
      /\ \A k \in 1 .. NumCandidates :
           /\ t[1 + h + k].graph = g
           /\ t[1 + h + k].type = 3
           /\ t[1 + h + k].label = IF k = r.positive THEN 1 ELSE 0
  BY StarNodes
<1>2. NumCandidates \in Nat /\ MaxHistory \in Nat /\ r.positive \in 1 .. NumCandidates /\ h \in Nat
  BY <1>1, SuperGraphAssumption DEF IsRecord
<1>3. DOMAIN t = 1 .. 1 + h + NumCandidates
  BY <1>1, <1>2
<1>. DEFINE C == NumCandidates
           q == r.positive
<1>. HIDE DEF C, q
<1>4. ASSUME NEW i \in DOMAIN t
      PROVE  /\ t[i].graph = g /\ t[i].type # 0
             /\ t[i].type = 1 <=> i \in 0 + 1 .. 0 + 1
             /\ t[i].type = 2 <=> i \in 2 .. 1 + h
             /\ t[i].type = 3 <=> i \in (1 + h) + 1 .. (1 + h) + C
             /\ (t[i].type = 3 /\ t[i].label = 1) <=> i = 1 + h + q
  <2>0. C \in Nat /\ q \in 1 .. C /\ h \in Nat /\ i \in 1 .. 1 + h + C
    BY <1>2, <1>3 DEF C, q
  <2>1. CASE i = 1
    <3>1. t[i].graph = g /\ t[i].type = 1
      BY <1>1, <2>1
    <3>2. ~ (i \in 2 .. 1 + h) /\ ~ (i \in (1 + h) + 1 .. (1 + h) + C) /\ i # 1 + h + q /\ i \in 0 + 1 .. 0 + 1
      BY <2>0, <2>1
    <3>. QED  BY <3>1, <3>2
  <2>2. CASE i \in 2 .. 1 + h
    <3>1. i - 1 \in 1 .. h /\ i = 1 + (i - 1)
      BY <2>0, <2>2
    <3>2. t[i].graph = g /\ t[i].type = 2
      BY <1>1, <3>1
    <3>3. i \notin 0 + 1 .. 0 + 1 /\ ~ (i \in (1 + h) + 1 .. (1 + h) + C) /\ i # 1 + h + q
      BY <2>0, <2>2
    <3>. QED  BY <2>2, <3>2, <3>3
  <2>3. CASE i \in (1 + h) + 1 .. (1 + h) + C
    <3>. DEFINE k == i - (1 + h)
    <3>1. k \in 1 .. C /\ i = 1 + h + k
      BY <2>0, <2>3
    <3>. HIDE DEF k
    <3>2. t[i].graph = g /\ t[i].type = 3 /\ t[i].label = IF k = q THEN 1 ELSE 0
      BY <1>1, <3>1 DEF C, q
    <3>3. i \notin 0 + 1 .. 0 + 1 /\ ~ (i \in 2 .. 1 + h) /\ (i = 1 + h + q <=> k = q)
      BY <2>0, <2>3, <3>1
    <3>. QED  BY <2>3, <3>2, <3>3
  <2>4. i = 1 \/ i \in 2 .. 1 + h \/ i \in (1 + h) + 1 .. (1 + h) + C
    BY <2>0
  <2>. QED  BY <2>1, <2>2, <2>3, <2>4
<1>5. 1 + h + q \in 1 .. 1 + h + C
  BY <1>2 DEF C, q
<1>. QED
  BY <1>2, <1>3, <1>4, <1>5 DEF C, q, StarShape

(* The edges e, shifted by l, join what is to be joined in t.              *)
JoinsAll(t, e, l) ==
  \A i, j \in DOMAIN t : MustJoin(t, i, j) => \E x \in DOMAIN e : e[x] = <<l + i, l + j>>

(* So do the edges of anything shaped like a star.                         *)
LEMMA ShapeJoins ==
  ASSUME NEW t, NEW h, NEW q, NEW g, StarShape(t, h, q, g), NEW l \in Nat, NEW e,
         DOMAIN e = 1 .. h + NumCandidates,
         \A k \in 1 .. h : e[k] = <<l + k + 1, l + 1>>,
         \A k \in 1 .. NumCandidates : e[h + k] = <<l + 1, l + 1 + h + k>>
  PROVE  JoinsAll(t, e, l)
<1>. DEFINE C == NumCandidates
<1>1. /\ h \in Nat /\ DOMAIN t = 1 .. 1 + h + C
      /\ \A x \in DOMAIN t :
           /\ t[x].type = 1 <=> x \in 0 + 1 .. 0 + 1
           /\ t[x].type = 2 <=> x \in 2 .. 1 + h
           /\ t[x].type = 3 <=> x \in (1 + h) + 1 .. (1 + h) + C
  BY DEF StarShape
<1>2. C \in Nat
  BY SuperGraphAssumption
<1>. HIDE DEF C
<1>3. ASSUME NEW i \in 2 .. 1 + h  PROVE \E x \in DOMAIN e : e[x] = <<l + i, l + 1>>
  <2>1. i - 1 \in 1 .. h /\ i - 1 \in 1 .. h + C /\ l + (i - 1) + 1 = l + i
    BY <1>1, <1>2
  <2>2. e[i - 1] = <<l + (i - 1) + 1, l + 1>>
    BY <2>1
  <2>. QED  BY <2>1, <2>2 DEF C
<1>4. ASSUME NEW j \in (1 + h) + 1 .. (1 + h) + C
      PROVE  \E x \in DOMAIN e : e[x] = <<l + 1, l + j>>
  <2>1. PICK k \in 1 .. C : j = 1 + h + k
    <3>1. j - (1 + h) \in 1 .. C /\ j = 1 + h + (j - (1 + h))
      BY <1>1, <1>2
    <3>. QED  BY <3>1
  <2>2. l + 1 + h + k = l + j /\ h + k \in 1 .. h + C
    BY <1>1, <1>2, <2>1
  <2>3. e[h + k] = <<l + 1, l + 1 + h + k>>
    BY DEF C
  <2>. QED  BY <2>2, <2>3 DEF C
<1>5. ASSUME NEW i \in DOMAIN t, NEW j \in DOMAIN t, MustJoin(t, i, j)
      PROVE  \E x \in DOMAIN e : e[x] = <<l + i, l + j>>
  <2>1. CASE t[i].type = 2 /\ t[j].type = 1
    <3>1. i \in 2 .. 1 + h /\ j = 1
      BY <1>1, <2>1
    <3>. QED  BY <1>3, <3>1
  <2>2. CASE t[i].type = 1 /\ t[j].type = 3
    <3>1. i = 1 /\ j \in (1 + h) + 1 .. (1 + h) + C
      BY <1>1, <2>2
    <3>. QED  BY <1>4, <3>1
  <2>. QED  BY <1>5, <2>1, <2>2 DEF MustJoin
<1>. QED
  BY <1>5 DEF JoinsAll

(* So do those of the star of a record.                                    *)
LEMMA StarJoins ==
  ASSUME NEW r \in Records, NEW g \in Nat, NEW l \in Nat
  PROVE  JoinsAll(Star(r, g), StarEdges(r, l), l)
<1>. DEFINE h == Len(r.history)
           t == Star(r, g)
           e == StarEdges(r, l)
<1>1. StarShape(t, h, r.positive, g)
  BY StarTypes
<1>2. /\ e \in Seq(Nat \X Nat)
      /\ Len(e) = h + NumCandidates
      /\ \A k \in 1 .. h : e[k] = <<l + k + 1, l + 1>>
      /\ \A k \in 1 .. NumCandidates : e[h + k] = <<l + 1, l + 1 + h + k>>
  BY StarEdgesAre
<1>. HIDE DEF h, t, e
<1>3. DOMAIN e = 1 .. h + NumCandidates
  BY <1>2
<1>4. JoinsAll(t, e, l)
  BY <1>1, <1>2, <1>3, ShapeJoins
<1>. QED
  BY <1>4 DEF t, e

(* build_graph_arrays keeps a batch laid out.                              *)
LEMMA AddGraphLaid ==
  ASSUME NEW b, EdgesAtHome(b), Growing(b), Laid(b, Len(b.nNode)), NEW r \in Records
  PROVE  Laid(AddGraph(b, r), Len(b.nNode) + 1)
<1>. DEFINE k == Len(b.nNode)
           g == k + 1
           s == b.nodes
           l == Len(s)
           h == Len(r.history)
           t == Star(r, g)
           d == Len(t)
           a == b.edges
           e == StarEdges(r, l)
           c == s \o t
           ce == a \o e
<1>1. k \in Nat /\ g \in Nat /\ s \in Seq(Node) /\ a \in Seq(Nat \X Nat) /\ l \in Nat
  BY DEF EdgesAtHome, Growing
<1>2. t \in Seq(Node) /\ e \in Seq(Nat \X Nat)
  <2>. HIDE DEF l, g
  <2>. QED  BY <1>1, StarNodes, StarEdgesAre
<1>3. AddGraph(b, r).nodes = c /\ AddGraph(b, r).edges = ce
  BY DEF AddGraph
<1>4. Laid(b, k)
  OBVIOUS
<1>5. NumCandidates \in Nat
  BY SuperGraphAssumption
<1>. HIDE DEF h, t, e, k
<1>. DEFINE q == r.positive
<1>6. StarShape(t, h, q, g)
  <2>1. h = Len(r.history) /\ t = Star(r, g)
    BY DEF h, t
  <2>. HIDE DEF g
  <2>. QED  BY <1>1, <2>1, StarTypes
<1>7. JoinsAll(t, e, l)
  <2>. HIDE DEF g, l
  <2>. QED  BY <1>1, StarJoins DEF t, e
<1>. HIDE DEF s, a
<1>8. Joined(c, s, t, l, d)
  <2>. QED  BY <1>1, <1>2, JoinedBehind
<1>9. Joined(ce, a, e, Len(a), Len(e))
  BY <1>1, <1>2, JoinedBehind
<1>10. d = 1 + h + NumCandidates
  <2>1. DOMAIN t = 1 .. 1 + h + NumCandidates /\ h \in Nat
    BY <1>6 DEF StarShape
  <2>. QED  BY <1>2, <1>5, <2>1
<1>11. /\ \E f : Ranked(s, 1, 1, k, f)
       /\ \E f : Ranked(s, 3, NumCandidates, k, f)
       /\ OnePositive(s, k)
       /\ UserFirst(s, k)
       /\ Starred(s, a, k)
  BY <1>4 DEF Laid, s, a
<1>0. k = 0 => l = 0
  <2>1. Len(b.nodes) <= Len(b.nNode) * NodesPerGraph /\ NodesPerGraph \in Nat
    <3>1. NodesPerGraph \in Nat
      BY SuperGraphAssumption DEF NodesPerGraph
    <3>2. Len(b.nodes) <= Len(b.nNode) * NodesPerGraph
      BY DEF Growing
    <3>. QED  BY <3>1, <3>2
  <2>2. 0 * NodesPerGraph = 0
    BY <2>1, SMT
  <2>3. k = 0 => l <= 0
    BY <2>1, <2>2 DEF k, l, s
  <2>. HIDE DEF l
  <2>. QED  BY <1>1, <2>3
<1>. HIDE DEF c, ce, d, l, q
<1>12. \E f : Ranked(c, 1, 1, k + 1, f)
  <2>1. PICK f : Ranked(s, 1, 1, k, f)
    BY <1>11
  <2>2. 0 + 1 <= d
    BY <1>5, <1>6, <1>10 DEF StarShape
  <2>3. \A i \in DOMAIN t : t[i].type = 1 <=> i \in 0 + 1 .. 0 + 1
    BY <1>6 DEF StarShape
  <2>4. \A i \in DOMAIN t : t[i].graph = k + 1
    BY <1>6 DEF StarShape
  <2>. QED  BY <1>1, <1>8, <2>1, <2>2, <2>3, <2>4, RankedMore
<1>13. \E f : Ranked(c, 3, NumCandidates, k + 1, f)
  <2>1. PICK f : Ranked(s, 3, NumCandidates, k, f)
    BY <1>11
  <2>2. (1 + h) + NumCandidates <= d /\ 1 + h \in Nat
    BY <1>5, <1>6, <1>10 DEF StarShape
  <2>3. \A i \in DOMAIN t : t[i].type = 3 <=> i \in (1 + h) + 1 .. (1 + h) + NumCandidates
    BY <1>6 DEF StarShape
  <2>4. \A i \in DOMAIN t : t[i].graph = k + 1
    BY <1>6 DEF StarShape
  <2>. QED  BY <1>1, <1>5, <1>8, <2>1, <2>2, <2>3, <2>4, RankedMore
<1>14. OnePositive(c, k + 1)
  <2>1. \A n \in DOMAIN s : s[n].type # 0 => s[n].graph \in 1 .. k
    BY <1>11 DEF Starred
  <2>2. \A i \in DOMAIN t : t[i].graph = k + 1
    BY <1>6 DEF StarShape
  <2>3. PICK p \in DOMAIN t :
          \A i \in DOMAIN t : (t[i].type = 3 /\ t[i].label = 1) <=> i = p
    BY <1>6 DEF StarShape
  <2>4. k \in Nat /\ OnePositive(s, k)
    BY <1>1, <1>11
  <2>. QED  BY <1>8, <2>1, <2>2, <2>3, <2>4, PositiveMore
<1>15. Starred(c, ce, k + 1)
  <2>1. \A i \in DOMAIN t : t[i].graph = k + 1 /\ t[i].type # 0
    BY <1>6 DEF StarShape
  <2>. QED  BY <1>1, <1>7, <1>8, <1>9, <1>11, <2>1, StarredMore DEF JoinsAll
<1>16. UserFirst(c, k + 1)
  <2>1. 1 \in DOMAIN t
    <3>1. DOMAIN t = 1 .. 1 + h + NumCandidates /\ h \in Nat
      BY <1>6 DEF StarShape
    <3>. QED  BY <1>5, <3>1
  <2>2. t[1].type = 1
    BY <1>6, <2>1 DEF StarShape
  <2>. QED  BY <1>0, <1>1, <1>8, <1>11, <2>1, <2>2, UserFirstMore
<1>. QED
  BY <1>3, <1>12, <1>13, <1>14, <1>15, <1>16 DEF Laid, k

-----------------------------------------------------------------------------
(* The batch is laid out so on all its way.                                *)

(* A padded batch has the sizes of its configuration, and nodes in the     *)
(* graph that takes the padding.                                           *)
Sized(b) ==
  /\ DOMAIN b.nodes = 1 .. MaxNodes /\ DOMAIN b.edges = 1 .. MaxEdges
  /\ DOMAIN b.nNode = 1 .. MaxGraphs /\ b.nNode[BatchSize + 1] # 0

(* Each batch is laid out, as far as it is built, and sized when padded.   *)
LaidInv ==
  \A p \in Processes :
    /\ Laid(batch[p], IF stage[p] = "map" THEN Len(batch[p].nNode) ELSE BatchSize)
    /\ stage[p] = "padded" => Sized(batch[p])

(* The rows of what is on the devices.                                     *)
ScoredRows ==
  [r \in 1 .. NumGraphs |->
     ScoreRow(r, Slots(1, NumGraphs), Slots(3, NumGraphs * NumCandidates), Slots(2, NumGraphs * MaxHistory))]

(* What is on the devices is what was padded, and the rows are of that.    *)
GraphInv ==
  /\ graph # NoGraph =>
       /\ graph = GlobalGraph /\ DOMAIN heard = DOMAIN graph.nodes
       /\ \A p \in Processes : stage[p] = "padded"
  /\ graph = NoGraph => layer = 0
  /\ Scored => graph # NoGraph /\ layer = NumLayers /\ rows = ScoredRows

(* An empty batch is laid out.                                             *)
LEMMA EmptyLaid == Laid(NoGraph, Len(NoGraph.nNode))
<1>1. /\ NoGraph.nodes = <<>> /\ NoGraph.edges = <<>> /\ NoGraph.nNode = <<>>
      /\ Len(<<>>) = 0 /\ DOMAIN <<>> = {} /\ 1 .. 0 = {}
  BY DEF NoGraph
<1>2. NumCandidates \in Nat
  BY SuperGraphAssumption
<1>3. ASSUME NEW ty, NEW w \in Nat  PROVE \E f : Ranked(<<>>, ty, w, 0, f)
  <2>. DEFINE f == [i \in {} |-> 0]
  <2>1. TypeAt(<<>>, ty) = {}
    BY <1>1 DEF TypeAt
  <2>2. 0 * w = 0
    BY SMT
  <2>3. f \in [{} -> {}]
    OBVIOUS
  <2>. HIDE DEF f
  <2>4. Lists(f, {}, 0)
    BY <1>1, <2>3 DEF Lists
  <2>5. Ranked(<<>>, ty, w, 0, f)
    BY <1>1, <2>1, <2>2, <2>4 DEF Ranked
  <2>. QED  BY <2>5
<1>4. OnePositive(<<>>, 0)
  BY <1>1 DEF OnePositive
<1>5. Starred(<<>>, <<>>, 0)
  BY <1>1 DEF Starred
<1>6. (\E f : Ranked(<<>>, 1, 1, 0, f)) /\ \E f : Ranked(<<>>, 3, NumCandidates, 0, f)
  BY <1>2, <1>3
<1>. QED
  BY <1>1, <1>4, <1>5, <1>6 DEF Laid, UserFirst

(* optimized_batch_and_pad keeps a batch laid out.                         *)
LEMMA PaddedLaid ==
  ASSUME NEW b, EdgesAtHome(b), Growing(b), Len(b.nNode) = BatchSize, Laid(b, BatchSize)
  PROVE  Laid(Padded(b), BatchSize) /\ Sized(Padded(b))
<1>. DEFINE s == b.nodes
           l == Len(s)
           a == b.edges
           v == b.nNode
           t == [i \in 1 .. MaxNodes - l |-> [type |-> 0, id |-> 0, label |-> 0, graph |-> Len(v) + 1]]
           e == [i \in 1 .. MaxEdges - Len(a) |-> <<l + 1, l + 1>>]
           u == [i \in 1 .. MaxGraphs - Len(v) |-> IF i = 1 THEN MaxNodes - l ELSE 0]
           k == BatchSize
<1>1. /\ k \in Nat /\ s \in Seq(Node) /\ l \in Nat /\ a \in Seq(Nat \X Nat) /\ Len(a) \in Nat
      /\ v \in Seq(Nat) /\ Len(v) = k
  BY SuperGraphAssumption DEF EdgesAtHome, Growing
<1>2. MaxNodes \in Nat /\ MaxEdges \in Nat /\ MaxGraphs \in Nat
  <2>1. BatchSize * NodesPerGraph \in Nat /\ BatchSize * EdgesPerGraph \in Nat
    BY SuperGraphAssumption DEF NodesPerGraph, EdgesPerGraph
  <2>. QED  BY <2>1, NextGranuleAbove, MaxGraphsAbove DEF MaxNodes, MaxEdges
<1>3. MaxNodes - l \in Nat \ {0} /\ MaxEdges - Len(a) \in Nat /\ MaxGraphs - Len(v) \in Nat \ {0}
  BY <1>1, <1>2, FullBatchFits DEF Fits
<1>4. Padded(b).nodes = s \o t /\ Padded(b).edges = a \o e /\ Padded(b).nNode = v \o u
  BY DEF Padded
<1>5. t \in Seq(Node) /\ Len(t) = MaxNodes - l /\ \A i \in DOMAIN t : t[i].type = 0
  <2>. DEFINE z == [type |-> 0, id |-> 0, label |-> 0, graph |-> Len(v) + 1]
  <2>1. z \in Node /\ z.type = 0
    BY <1>1 DEF Node
  <2>2. t = [i \in 1 .. MaxNodes - l |-> z]
    OBVIOUS
  <2>. HIDE DEF z, t
  <2>3. t \in [1 .. MaxNodes - l -> Node] /\ \A i \in DOMAIN t : t[i].type = 0
    BY <2>1, <2>2
  <2>. HIDE DEF l
  <2>. QED  BY <1>3, <2>3, FcnIsSeq
<1>6. e \in Seq(Nat \X Nat) /\ Len(e) = MaxEdges - Len(a)
  <2>. DEFINE z == <<l + 1, l + 1>>
  <2>1. z \in Nat \X Nat
    <3>. HIDE DEF l
    <3>. QED  BY <1>1
  <2>2. e = [i \in 1 .. MaxEdges - Len(a) |-> z]
    OBVIOUS
  <2>. HIDE DEF z, e
  <2>3. e \in [1 .. MaxEdges - Len(a) -> Nat \X Nat]
    BY <2>1, <2>2
  <2>. HIDE DEF a
  <2>. QED  BY <1>3, <2>3, FcnIsSeq
<1>7. u \in Seq(Nat) /\ Len(u) = MaxGraphs - Len(v) /\ u[1] # 0
  <2>. DEFINE z == MaxNodes - l
             x == MaxGraphs - Len(v)
  <2>1. z \in Nat \ {0} /\ x \in Nat \ {0} /\ u = [i \in 1 .. x |-> IF i = 1 THEN z ELSE 0]
    BY <1>3
  <2>. HIDE DEF z, u, x
  <2>2. u \in [1 .. x -> Nat] /\ u[1] # 0
    BY <2>1
  <2>3. u \in Seq(Nat) /\ Len(u) = x
    BY <2>1, <2>2, FcnIsSeq
  <2>. QED  BY <2>2, <2>3 DEF x
<1>. HIDE DEF t, e, u, s, a, v, k
<1>8. Joined(s \o t, s, t, l, Len(t))
  BY <1>1, <1>5, JoinedBehind
<1>9. Joined(a \o e, a, e, Len(a), Len(e))
  BY <1>1, <1>6, JoinedBehind
<1>10. Joined(v \o u, v, u, Len(v), Len(u))
  BY <1>1, <1>7, JoinedBehind
<1>11. /\ \E f : Ranked(s, 1, 1, k, f)
       /\ \E f : Ranked(s, 3, NumCandidates, k, f)
       /\ OnePositive(s, k)
       /\ UserFirst(s, k)
       /\ Starred(s, a, k)
  BY DEF Laid, s, a, k
<1>. HIDE DEF l
<1>12. \E f : Ranked(s \o t, 1, 1, k, f)
  <2>1. PICK f : Ranked(s, 1, 1, k, f)
    BY <1>11
  <2>2. \A i \in DOMAIN t : t[i].type # 1
    BY <1>5
  <2>. QED  BY <1>1, <1>8, <2>1, <2>2, RankedSame
<1>13. \E f : Ranked(s \o t, 3, NumCandidates, k, f)
  <2>1. PICK f : Ranked(s, 3, NumCandidates, k, f)
    BY <1>11
  <2>2. \A i \in DOMAIN t : t[i].type # 3
    BY <1>5
  <2>3. NumCandidates \in Nat
    BY SuperGraphAssumption
  <2>. QED  BY <1>1, <1>8, <2>1, <2>2, <2>3, RankedSame
<1>14. OnePositive(s \o t, k)
  BY <1>1, <1>5, <1>8, <1>11, PositiveSame
<1>15. Starred(s \o t, a \o e, k)
  BY <1>1, <1>5, <1>8, <1>9, <1>11, StarredSame
<1>20. UserFirst(s \o t, k)
  BY <1>1, <1>8, <1>11, UserFirstSame
<1>16. Laid(Padded(b), k)
  BY <1>4, <1>12, <1>13, <1>14, <1>15, <1>20 DEF Laid
<1>17. DOMAIN (s \o t) = 1 .. MaxNodes
  <2>1. l + Len(t) = MaxNodes
    BY <1>1, <1>2, <1>5
  <2>. QED  BY <1>8, <2>1 DEF Joined
<1>18. DOMAIN (a \o e) = 1 .. MaxEdges
  <2>1. Len(a) + Len(e) = MaxEdges
    BY <1>1, <1>2, <1>6
  <2>. QED  BY <1>9, <2>1 DEF Joined
<1>19. DOMAIN (v \o u) = 1 .. MaxGraphs /\ (v \o u)[k + 1] # 0
  <2>1. Len(v) + Len(u) = MaxGraphs /\ 1 \in 1 .. Len(u)
    BY <1>1, <1>2, <1>3, <1>7
  <2>. QED  BY <1>1, <1>7, <1>10, <2>1 DEF Joined
<1>. QED
  BY <1>4, <1>16, <1>17, <1>18, <1>19 DEF Sized, k

(* Both hold at first.                                                     *)
LEMMA InitLaid == Init => LaidInv /\ GraphInv
<1>. SUFFICES ASSUME Init  PROVE LaidInv /\ GraphInv
  OBVIOUS
<1>1. LaidInv
  BY EmptyLaid DEF Init, LaidInv
<1>2. GraphInv
  BY DEF Init, GraphInv, Scored
<1>. QED  BY <1>1, <1>2

(* No step undoes the first.                                               *)
LEMMA NextLaid == BatchInv /\ LaidInv /\ [Next]_vars => LaidInv'
<1>. SUFFICES ASSUME BatchInv, LaidInv, [Next]_vars  PROVE LaidInv'
  OBVIOUS
<1>1. ASSUME NEW p \in Processes, MapRecord(p)  PROVE LaidInv'
  <2>1. PICK r \in Records : batch' = [batch EXCEPT ![p] = AddGraph(batch[p], r)]
    BY <1>1 DEF MapRecord
  <2>2. EdgesAtHome(batch[p]) /\ Growing(batch[p]) /\ stage[p] = "map" /\ Laid(batch[p], Len(batch[p].nNode))
    BY <1>1 DEF MapRecord, BatchInv, LaidInv
  <2>3. Laid(AddGraph(batch[p], r), Len(batch[p].nNode) + 1)
    BY <2>2, AddGraphLaid
  <2>4. Len(AddGraph(batch[p], r).nNode) = Len(batch[p].nNode) + 1
    <3>1. AddGraph(batch[p], r).nNode = Append(batch[p].nNode, 1 + Len(r.history) + NumCandidates)
      BY DEF AddGraph
    <3>2. batch[p].nNode \in Seq(Nat)
      BY <2>2 DEF Growing
    <3>. QED  BY <3>1, <3>2
  <2>5. DOMAIN batch = Processes /\ stage' = stage
    BY <1>1 DEF MapRecord, BatchInv
  <2>6. batch'[p] = AddGraph(batch[p], r) /\ \A q \in Processes \ {p} : batch'[q] = batch[q]
    BY <2>1, <2>5
  <2>. QED  BY <2>2, <2>3, <2>4, <2>5, <2>6 DEF LaidInv
<1>2. ASSUME NEW p \in Processes, PadBatch(p)  PROVE LaidInv'
  <2>1. /\ EdgesAtHome(batch[p]) /\ Growing(batch[p]) /\ Len(batch[p].nNode) = BatchSize
        /\ stage[p] = "map" /\ Laid(batch[p], BatchSize)
    BY <1>2 DEF PadBatch, BatchInv, LaidInv
  <2>2. stage' = [stage EXCEPT ![p] = "padded"] /\ batch' = [batch EXCEPT ![p] = Padded(batch[p])]
    BY <1>2, <2>1, FullBatchFits DEF PadBatch
  <2>3. Laid(Padded(batch[p]), BatchSize) /\ Sized(Padded(batch[p]))
    BY <2>1, PaddedLaid
  <2>4. /\ stage'[p] = "padded" /\ batch'[p] = Padded(batch[p])
        /\ \A q \in Processes \ {p} : stage'[q] = stage[q] /\ batch'[q] = batch[q]
    BY <2>2 DEF BatchInv
  <2>. QED  BY <2>3, <2>4 DEF LaidInv
<1>3. CASE NextBatch
  BY <1>3, EmptyLaid DEF NextBatch, LaidInv
<1>4. CASE Enqueue \/ Layer \/ ScoreAndShapeResults \/ UNCHANGED vars
  <2>1. UNCHANGED <<stage, batch>>
    BY <1>4 DEF Enqueue, Layer, ScoreAndShapeResults, vars
  <2>. QED  BY <2>1 DEF LaidInv
<1>. QED
  BY <1>1, <1>2, <1>3, <1>4 DEF Next

(* The scores are of the graph and of nothing else.                        *)
LEMMA SameScores ==
  ASSUME graph' = graph
  PROVE  ScoredRows' = ScoredRows
BY DEF ScoredRows, ScoreRow, FinalMask, Slots, Part, NumGraphs, IsRealGraph, IsCandidate,
       TargetCollision, TargetId, InHistory, IsPositive, Id

(* No step undoes the second.                                              *)
LEMMA NextGraph == GraphInv /\ [Next]_vars => GraphInv'
<1>. SUFFICES ASSUME GraphInv, [Next]_vars  PROVE GraphInv'
  OBVIOUS
<1>1. ASSUME NEW p \in Processes, MapRecord(p) \/ PadBatch(p)  PROVE GraphInv'
  <2>1. stage[p] = "map" /\ UNCHANGED <<graph, layer, heard, rows>>
    BY <1>1 DEF MapRecord, PadBatch
  <2>2. graph = NoGraph
    BY <2>1 DEF GraphInv
  <2>. QED  BY <2>1, <2>2 DEF GraphInv, Scored
<1>2. CASE Enqueue
  <2>1. /\ graph = NoGraph /\ graph' = GlobalGraph /\ \A p \in Processes : stage[p] = "padded"
        /\ UNCHANGED <<stage, batch, layer, rows>>
    BY <1>2 DEF Enqueue
  <2>2. GlobalGraph' = GlobalGraph
    BY <2>1 DEF GlobalGraph
  <2>3. ~ Scored /\ ~ Scored' /\ layer' = 0
    BY <2>1 DEF GraphInv, Scored
  <2>4. DOMAIN heard' = DOMAIN graph'.nodes
    BY <1>2 DEF Enqueue
  <2>. QED  BY <2>1, <2>2, <2>3, <2>4 DEF GraphInv
<1>3. CASE Layer
  <2>1. graph # NoGraph /\ layer < NumLayers /\ UNCHANGED <<stage, batch, graph, rows>>
    BY <1>3 DEF Layer
  <2>2. GlobalGraph' = GlobalGraph
    BY <2>1 DEF GlobalGraph
  <2>3. layer # NumLayers
    BY <2>1, SuperGraphAssumption
  <2>4. ~ Scored'
    BY <2>1, <2>3 DEF GraphInv, Scored
  <2>5. DOMAIN heard' = DOMAIN heard
    BY <1>3 DEF Layer
  <2>. QED  BY <2>1, <2>2, <2>4, <2>5 DEF GraphInv
<1>4. CASE ScoreAndShapeResults
  <2>1. graph # NoGraph /\ layer = NumLayers /\ UNCHANGED <<stage, batch, graph, layer, heard>> /\ rows' = ScoredRows
    BY <1>4 DEF ScoreAndShapeResults, ScoredRows
  <2>2. GlobalGraph' = GlobalGraph
    BY <2>1 DEF GlobalGraph
  <2>3. ScoredRows' = ScoredRows
    BY <2>1, SameScores
  <2>. QED  BY <2>1, <2>2, <2>3 DEF GraphInv
<1>5. CASE NextBatch
  BY <1>5 DEF NextBatch, GraphInv, Scored
<1>6. CASE UNCHANGED vars
  <2>1. GlobalGraph' = GlobalGraph /\ ScoredRows' = ScoredRows
    BY <1>6, SameScores DEF vars, GlobalGraph
  <2>. QED  BY <1>6, <2>1 DEF GraphInv, Scored, vars
<1>. QED
  BY <1>1, <1>2, <1>3, <1>4, <1>5, <1>6 DEF Next

-----------------------------------------------------------------------------
(* From the processes to the devices.                                      *)

(* The sizes of a padded graph are positive.                               *)
LEMMA Sizes ==
  /\ NumProcesses \in Nat \ {0} /\ BatchSize \in Nat \ {0} /\ NumCandidates \in Nat \ {0}
  /\ MaxNodes \in Nat \ {0} /\ MaxEdges \in Nat \ {0}
  /\ MaxGraphs \in Nat \ {0} /\ MaxGraphs >= BatchSize + 1
<1>1. /\ NumProcesses \in Nat \ {0} /\ BatchSize \in Nat \ {0} /\ NumCandidates \in Nat \ {0}
      /\ NumLocalDevices \in Nat \ {0}
  BY SuperGraphAssumption
<1>2. BatchSize * NodesPerGraph \in Nat /\ BatchSize * EdgesPerGraph \in Nat
  BY SuperGraphAssumption DEF NodesPerGraph, EdgesPerGraph
<1>3. MaxNodes \in Nat \ {0} /\ MaxEdges \in Nat \ {0}
  BY <1>2, NextGranuleAbove DEF MaxNodes, MaxEdges
<1>. QED
  BY <1>1, <1>3, MaxGraphsAbove

(* What the global array holds of each process.                            *)
LEMMA BehindIs ==
  ASSUME NEW parts, NEW size \in Nat \ {0}
  PROVE  /\ DOMAIN Behind(parts, size) = 1 .. NumProcesses * size
         /\ Len(Behind(parts, size)) = NumProcesses * size
         /\ \A p \in Processes : \A n \in 1 .. size :
              /\ At(p, size, n) \in 1 .. NumProcesses * size
              /\ Behind(parts, size)[At(p, size, n)] = parts[p][n]
<1>. DEFINE N == NumProcesses * size
           f == Behind(parts, size)
<1>1. N \in Nat /\ NumProcesses \in Nat
  BY Sizes
<1>2. f = [n \in 1 .. N |-> parts[1 + (n - 1) \div size][1 + ((n - 1) % size)]]
  BY DEF Behind
<1>. HIDE DEF N, f
<1>3. DOMAIN f = 1 .. N
  BY <1>2
<1>4. Len(f) = N
  <2>1. f \in [1 .. N -> {f[i] : i \in 1 .. N}]
    BY <1>2
  <2>. QED  BY <1>1, <2>1, FcnIsSeq
<1>5. ASSUME NEW p \in Processes, NEW n \in 1 .. size
      PROVE  At(p, size, n) \in 1 .. N /\ f[At(p, size, n)] = parts[p][n]
  <2>1. p \in 1 .. NumProcesses /\ p \in Nat \ {0}
    BY <1>1 DEF Processes
  <2>2. At(p, size, n) \in 1 .. N
    BY <1>1, <2>1, AtWithin DEF N
  <2>3. (At(p, size, n) - 1) \div size = p - 1 /\ (At(p, size, n) - 1) % size = n - 1
    BY <2>1, AtIs
  <2>4. 1 + (p - 1) = p /\ 1 + (n - 1) = n
    BY <2>1
  <2>5. f[At(p, size, n)] = parts[1 + (At(p, size, n) - 1) \div size][1 + ((At(p, size, n) - 1) % size)]
    BY <1>2, <2>2
  <2>. QED  BY <2>2, <2>3, <2>4, <2>5
<1>. QED
  BY <1>3, <1>4, <1>5 DEF N, f

(* What the devices see, told by process and place.                        *)
OnDevices ==
  /\ DOMAIN graph.nodes = 1 .. NumProcesses * MaxNodes
  /\ NumGraphs = NumProcesses * MaxGraphs
  /\ \A p \in Processes : Laid(batch[p], BatchSize) /\ Sized(batch[p])
  /\ \A p \in Processes : \A n \in 1 .. MaxNodes :
       /\ At(p, MaxNodes, n) \in DOMAIN graph.nodes
       /\ graph.nodes[At(p, MaxNodes, n)] = batch[p].nodes[n]
       /\ Home(At(p, MaxNodes, n)) = <<p - 1, batch[p].nodes[n].graph>>
  /\ \A x \in DOMAIN graph.nodes : \E p \in Processes : \E n \in 1 .. MaxNodes :
       x = At(p, MaxNodes, n)
  /\ \A p \in Processes : \A g \in 1 .. MaxGraphs :
       graph.nNode[At(p, MaxGraphs, g)] = batch[p].nNode[g]

(* The devices hold the batch of each process at its place.                *)
LEMMA DevicesSee ==
  ASSUME LaidInv, GraphInv, graph # NoGraph
  PROVE  OnDevices
<1>1. graph = GlobalGraph /\ \A p \in Processes : stage[p] = "padded"
  BY DEF GraphInv
<1>2. \A p \in Processes : Laid(batch[p], BatchSize) /\ Sized(batch[p])
  BY <1>1 DEF LaidInv
<1>. DEFINE nodes == [p \in Processes |-> batch[p].nodes]
           nNode == [p \in Processes |-> batch[p].nNode]
<1>3. graph.nodes = Behind(nodes, MaxNodes) /\ graph.nNode = Behind(nNode, MaxGraphs)
  BY <1>1 DEF GlobalGraph
<1>4. \A p \in Processes : nodes[p] = batch[p].nodes /\ nNode[p] = batch[p].nNode
  OBVIOUS
<1>. HIDE DEF nodes, nNode
<1>5. /\ DOMAIN graph.nodes = 1 .. NumProcesses * MaxNodes
      /\ \A p \in Processes : \A n \in 1 .. MaxNodes :
           /\ At(p, MaxNodes, n) \in 1 .. NumProcesses * MaxNodes
           /\ graph.nodes[At(p, MaxNodes, n)] = nodes[p][n]
  BY <1>3, BehindIs, Sizes
<1>6. /\ Len(graph.nNode) = NumProcesses * MaxGraphs
      /\ \A p \in Processes : \A n \in 1 .. MaxGraphs :
           graph.nNode[At(p, MaxGraphs, n)] = nNode[p][n]
  BY <1>3, BehindIs, Sizes
<1>7. ASSUME NEW p \in Processes, NEW n \in 1 .. MaxNodes
      PROVE  Home(At(p, MaxNodes, n)) = <<p - 1, batch[p].nodes[n].graph>>
  <2>1. p \in Nat \ {0} /\ MaxNodes \in Nat \ {0}
    BY Sizes DEF Processes
  <2>2. (At(p, MaxNodes, n) - 1) \div MaxNodes = p - 1
    BY <2>1, AtIs
  <2>3. graph.nodes[At(p, MaxNodes, n)] = batch[p].nodes[n]
    BY <1>4, <1>5
  <2>. QED  BY <2>2, <2>3, Zenon DEF Home
<1>8. ASSUME NEW x \in 1 .. NumProcesses * MaxNodes
      PROVE  \E p \in Processes : \E n \in 1 .. MaxNodes : x = At(p, MaxNodes, n)
  <2>1. NumProcesses \in Nat /\ MaxNodes \in Nat
    BY Sizes
  <2>2. \E p \in 1 .. NumProcesses, n \in 1 .. MaxNodes :
           /\ x = At(p, MaxNodes, n)
           /\ p = 1 + (x - 1) \div MaxNodes /\ n = 1 + ((x - 1) % MaxNodes)
    BY <2>1, AtSome
  <2>. QED  BY <2>2, Zenon DEF Processes
<1>. QED
  <2>1. \A p \in Processes : \A n \in 1 .. MaxNodes :
          /\ At(p, MaxNodes, n) \in DOMAIN graph.nodes
          /\ graph.nodes[At(p, MaxNodes, n)] = batch[p].nodes[n]
          /\ Home(At(p, MaxNodes, n)) = <<p - 1, batch[p].nodes[n].graph>>
    BY <1>4, <1>5, <1>7, Zenon
  <2>2. \A x \in DOMAIN graph.nodes : \E p \in Processes : \E n \in 1 .. MaxNodes :
          x = At(p, MaxNodes, n)
    BY <1>5, <1>8, Zenon
  <2>3. \A p \in Processes : \A g \in 1 .. MaxGraphs :
          graph.nNode[At(p, MaxGraphs, g)] = batch[p].nNode[g]
    BY <1>4, <1>6, Zenon
  <2>. QED
    BY <1>2, <1>5, <1>6, <2>1, <2>2, <2>3, Zenon DEF OnDevices, NumGraphs

(* The nodes of a type of all processes, w of each graph, graph by graph.  *)
InBatchOrder(t, w, F) ==
  /\ Lists(F, TypeAt(graph.nodes, t), NumProcesses * (BatchSize * w))
  /\ \A p \in Processes : \A s \in 1 .. BatchSize : \A j \in 1 .. w :
       Home(F[At(At(p, BatchSize, s), w, j)]) = <<p - 1, s>>

(* Listed in each process, the nodes of a type are listed across them.     *)
LEMMA OrderedAcross ==
  ASSUME OnDevices, NEW t, NEW w \in Nat \ {0},
         \A p \in Processes : \E f : Ranked(batch[p].nodes, t, w, BatchSize, f)
  PROVE  \E F : InBatchOrder(t, w, F)
<1>. DEFINE P == NumProcesses
           M == BatchSize * w
           L == MaxNodes
           fs == [p \in Processes |-> CHOOSE f : Ranked(batch[p].nodes, t, w, BatchSize, f)]
           F == [x \in 1 .. P * M |->
                   At(1 + (x - 1) \div M, L, fs[1 + (x - 1) \div M][1 + ((x - 1) % M)])]
<1>1. P \in Nat \ {0} /\ BatchSize \in Nat \ {0} /\ L \in Nat \ {0} /\ P * M \in Nat /\ M \in Nat \ {0}
  <2>1. \A a, b \in Nat \ {0} : a * b \in Nat \ {0}
    BY SMT
  <2>2. P \in Nat \ {0} /\ BatchSize \in Nat \ {0} /\ L \in Nat \ {0}
    BY Sizes
  <2>3. M \in Nat \ {0}
    BY <2>1, <2>2
  <2>. HIDE DEF M
  <2>. QED  BY <2>1, <2>2, <2>3
<1>2. \A p \in Processes : Ranked(batch[p].nodes, t, w, BatchSize, fs[p])
  <2>. SUFFICES ASSUME NEW p \in Processes  PROVE Ranked(batch[p].nodes, t, w, BatchSize, fs[p])
    OBVIOUS
  <2>1. Ranked(batch[p].nodes, t, w, BatchSize, CHOOSE f : Ranked(batch[p].nodes, t, w, BatchSize, f))
    OBVIOUS
  <2>. QED  BY <2>1
<1>. HIDE DEF fs, M, P, L
<1>3. ASSUME NEW p \in Processes
      PROVE  /\ \A i \in 1 .. M : fs[p][i] \in 1 .. L /\ batch[p].nodes[fs[p][i]].type = t
             /\ \A i, j \in 1 .. M : i < j => fs[p][i] < fs[p][j]
             /\ \A n \in 1 .. L : batch[p].nodes[n].type = t => \E i \in 1 .. M : fs[p][i] = n
             /\ \A s \in 1 .. BatchSize : \A j \in 1 .. w : batch[p].nodes[fs[p][At(s, w, j)]].graph = s
  <2>1. DOMAIN batch[p].nodes = 1 .. L
    BY DEF OnDevices, Sized, L
  <2>2. Ranked(batch[p].nodes, t, w, BatchSize, fs[p])
    BY <1>2
  <2>. QED  BY <2>1, <2>2 DEF Ranked, Lists, TypeAt, M
<1>4. ASSUME NEW p \in Processes, NEW i \in 1 .. M
      PROVE  At(p, M, i) \in 1 .. P * M /\ F[At(p, M, i)] = At(p, L, fs[p][i])
  <2>1. p \in 1 .. P /\ p \in Nat \ {0}
    BY <1>1 DEF Processes, P
  <2>2. At(p, M, i) \in 1 .. P * M
    BY <1>1, <2>1, AtWithin
  <2>3. (At(p, M, i) - 1) \div M = p - 1 /\ (At(p, M, i) - 1) % M = i - 1
    BY <1>1, <2>1, AtIs
  <2>4. 1 + (p - 1) = p /\ 1 + (i - 1) = i
    BY <2>1
  <2>5. F[At(p, M, i)] =
          At(1 + (At(p, M, i) - 1) \div M, L, fs[1 + (At(p, M, i) - 1) \div M][1 + ((At(p, M, i) - 1) % M)])
    BY <2>2
  <2>. HIDE DEF F
  <2>. QED  BY <2>2, <2>3, <2>4, <2>5
<1>5. ASSUME NEW x \in 1 .. P * M
      PROVE  \E p \in Processes : \E i \in 1 .. M : x = At(p, M, i) /\ F[x] = At(p, L, fs[p][i])
  <2>1. \E p \in 1 .. P, i \in 1 .. M :
           x = At(p, M, i) /\ p = 1 + (x - 1) \div M /\ i = 1 + ((x - 1) % M)
    BY <1>1, AtSome
  <2>2. PICK p \in Processes, i \in 1 .. M : x = At(p, M, i)
    BY <2>1, Zenon DEF Processes, P
  <2>. HIDE DEF F
  <2>. QED  BY <1>4, <2>2
<1>6. DOMAIN F = 1 .. P * M
  OBVIOUS
<1>7. F = [x \in 1 .. P * M |-> F[x]]
  OBVIOUS
<1>. HIDE DEF F
<1>8. ASSUME NEW p \in Processes, NEW i \in 1 .. M
      PROVE  At(p, L, fs[p][i]) \in TypeAt(graph.nodes, t)
  <2>1. fs[p][i] \in 1 .. L /\ batch[p].nodes[fs[p][i]].type = t
    BY <1>3
  <2>2. /\ At(p, L, fs[p][i]) \in DOMAIN graph.nodes
        /\ graph.nodes[At(p, L, fs[p][i])] = batch[p].nodes[fs[p][i]]
    BY <2>1 DEF OnDevices, L
  <2>. QED  BY <2>1, <2>2 DEF TypeAt
<1>9. F \in [1 .. P * M -> TypeAt(graph.nodes, t)]
  <2>1. \A x \in 1 .. P * M : F[x] \in TypeAt(graph.nodes, t)
    BY <1>5, <1>8
  <2>. QED  BY <1>7, <2>1
<1>10. ASSUME NEW x \in 1 .. P * M, NEW y \in 1 .. P * M, x < y  PROVE F[x] < F[y]
  <2>1. PICK p \in Processes, i \in 1 .. M : x = At(p, M, i) /\ F[x] = At(p, L, fs[p][i])
    BY <1>5
  <2>2. PICK q \in Processes, j \in 1 .. M : y = At(q, M, j) /\ F[y] = At(q, L, fs[q][j])
    BY <1>5
  <2>3. p \in Nat \ {0} /\ q \in Nat \ {0} /\ M \in Nat /\ L \in Nat
    BY <1>1 DEF Processes
  <2>4. p < q \/ (p = q /\ i < j)
    <3>1. At(p, M, i) < At(q, M, j)
      BY <1>10, <2>1, <2>2
    <3>. QED  BY <2>3, <3>1, AtIncreases
  <2>5. fs[p][i] \in 1 .. L /\ fs[q][j] \in 1 .. L /\ (p = q /\ i < j => fs[p][i] < fs[q][j])
    BY <1>3
  <2>6. At(p, L, fs[p][i]) < At(q, L, fs[q][j])
    <3>1. p < q \/ (p = q /\ fs[p][i] < fs[q][j])
      BY <2>4, <2>5
    <3>. QED  BY <2>3, <2>5, <3>1, AtIncreases
  <2>. QED  BY <2>1, <2>2, <2>6
<1>11. ASSUME NEW n \in TypeAt(graph.nodes, t)  PROVE \E x \in 1 .. P * M : F[x] = n
  <2>1. n \in DOMAIN graph.nodes /\ graph.nodes[n].type = t
    BY DEF TypeAt
  <2>2. PICK p \in Processes, m \in 1 .. L : n = At(p, L, m)
    BY <2>1 DEF OnDevices, L
  <2>3. batch[p].nodes[m].type = t
    BY <2>1, <2>2 DEF OnDevices, L
  <2>4. PICK i \in 1 .. M : fs[p][i] = m
    BY <1>3, <2>3
  <2>5. At(p, M, i) \in 1 .. P * M /\ F[At(p, M, i)] = n
    BY <1>4, <2>2, <2>4
  <2>. QED  BY <2>5
<1>12. ASSUME NEW p \in Processes, NEW s \in 1 .. BatchSize, NEW j \in 1 .. w
       PROVE  Home(F[At(At(p, BatchSize, s), w, j)]) = <<p - 1, s>>
  <2>1. At(s, w, j) \in 1 .. M
    BY <1>1, AtWithin DEF M
  <2>2. At(At(p, BatchSize, s), w, j) = At(p, M, At(s, w, j))
    <3>1. p \in Nat \ {0}
      BY <1>1 DEF Processes
    <3>. QED  BY <1>1, <3>1, AtAt DEF M
  <2>3. F[At(p, M, At(s, w, j))] = At(p, L, fs[p][At(s, w, j)])
    BY <1>4, <2>1
  <2>4. fs[p][At(s, w, j)] \in 1 .. L /\ batch[p].nodes[fs[p][At(s, w, j)]].graph = s
    BY <1>3, <2>1
  <2>5. Home(At(p, L, fs[p][At(s, w, j)])) = <<p - 1, s>>
    <3>1. Home(At(p, L, fs[p][At(s, w, j)])) = <<p - 1, batch[p].nodes[fs[p][At(s, w, j)]].graph>>
      BY <2>4, Zenon DEF OnDevices, L
    <3>. QED  BY <2>4, <3>1, Zenon
  <2>. QED  BY <2>2, <2>3, <2>5
<1>13. Lists(F, TypeAt(graph.nodes, t), P * M)
  BY <1>9, <1>10, <1>11 DEF Lists
<1>14. InBatchOrder(t, w, F)
  BY <1>12, <1>13 DEF InBatchOrder, P, M
<1>. QED
  BY <1>14

-----------------------------------------------------------------------------
(* From the devices to the rows.                                           *)

(* The compacted array holds that list, and then the first node of all.    *)
LEMMA SlotsAre ==
  ASSUME OnDevices, NEW t, NEW w \in Nat \ {0}, NEW F, InBatchOrder(t, w, F), NEW size \in Nat
  PROVE  /\ DOMAIN Slots(t, size) = 1 .. size
         /\ \A x \in 1 .. size :
              Slots(t, size)[x] = IF x <= NumProcesses * (BatchSize * w) THEN F[x] ELSE 1
<1>. DEFINE m == NumProcesses * (BatchSize * w)
           S == TypeAt(graph.nodes, t)
<1>1. S \subseteq Int
  BY DEF OnDevices, TypeAt
<1>2. m \in Nat
  <2>1. \A a, b \in Nat : a * b \in Nat
    BY SMT
  <2>. QED  BY <2>1, Sizes
<1>3. Lists(F, S, m)
  BY DEF InBatchOrder
<1>4. Slots(t, size) = Compacted(S, size)
  BY DEF Slots, TypeAt
<1>. HIDE DEF m, S
<1>5. /\ DOMAIN Compacted(S, size) = 1 .. size
      /\ \A x \in 1 .. size : Compacted(S, size)[x] = IF x <= m THEN F[x] ELSE 1
  BY <1>1, <1>2, <1>3, CompactedIs
<1>. QED
  BY <1>4, <1>5 DEF m

(* What is in a row that a user of the batch has, and in one that no user  *)
(* has.                                                                    *)
RowsTell(U, F) ==
  /\ DOMAIN rows = 1 .. NumGraphs
  /\ \A r \in 1 .. NumGraphs :
       /\ rows[r].user = IF r <= NumProcesses * BatchSize THEN U[r] ELSE 1
       /\ DOMAIN rows[r].cands = 1 .. NumCandidates
       /\ \A j \in 1 .. NumCandidates :
            rows[r].cands[j] = IF r <= NumProcesses * BatchSize THEN F[At(r, NumCandidates, j)] ELSE 1
       /\ \E hist : rows[r].mask = FinalMask(r, rows[r].cands, hist)

(* score_and_shape_results in terms of the two lists.                      *)
LEMMA RowsAre ==
  ASSUME OnDevices, rows = ScoredRows,
         NEW U, InBatchOrder(1, 1, U), NEW F, InBatchOrder(3, NumCandidates, F)
  PROVE  RowsTell(U, F)
<1>. DEFINE P == NumProcesses
           B == BatchSize
           C == NumCandidates
           G == NumGraphs
           users == Slots(1, G)
           cands == Slots(3, G * C)
           hists == Slots(2, G * MaxHistory)
<1>1. P \in Nat \ {0} /\ B \in Nat \ {0} /\ C \in Nat \ {0}
  BY Sizes
<1>2. \A a, b \in Nat : a * b \in Nat
  BY SMT
<1>3. G \in Nat
  BY <1>2, Sizes DEF OnDevices
<1>4. \A a, b, c \in Nat : a * (b * c) = (a * b) * c
  BY SMT
<1>5. /\ P * B \in Nat /\ G * C \in Nat
      /\ P * (B * 1) = P * B
      /\ P * (B * C) = (P * B) * C /\ (P * B) * C \in Nat
  <2>1. B * 1 = B
    BY <1>1
  <2>2. P * B \in Nat /\ P * (B * C) = (P * B) * C
    BY <1>1, <1>2, <1>4
  <2>. QED  BY <1>1, <1>2, <1>3, <2>1, <2>2
<1>6. \A x \in 1 .. G : users[x] = IF x <= P * B THEN U[x] ELSE 1
  <2>1. \A x \in 1 .. G : users[x] = IF x <= P * (B * 1) THEN U[x] ELSE 1
    <3>1. 1 \in Nat \ {0}
      OBVIOUS
    <3>. QED  BY <1>3, <3>1, SlotsAre
  <2>. QED  BY <1>5, <2>1
<1>7. \A x \in 1 .. G * C : cands[x] = IF x <= (P * B) * C THEN F[x] ELSE 1
  <2>1. \A x \in 1 .. G * C : cands[x] = IF x <= P * (B * C) THEN F[x] ELSE 1
    <3>. DEFINE z == G * C
    <3>1. C \in Nat \ {0} /\ z \in Nat
      BY <1>1, <1>5
    <3>2. InBatchOrder(3, C, F)
      OBVIOUS
    <3>3. cands = Slots(3, z)
      OBVIOUS
    <3>. HIDE DEF G, C, cands, z
    <3>4. \A x \in 1 .. z : Slots(3, z)[x] = IF x <= P * (B * C) THEN F[x] ELSE 1
      BY <3>1, <3>2, SlotsAre
    <3>5. \A x \in 1 .. z : cands[x] = IF x <= P * (B * C) THEN F[x] ELSE 1
      BY <3>3, <3>4
    <3>. QED  BY <3>5 DEF z
  <2>. QED  BY <1>5, <2>1
<1>8. rows = [r \in 1 .. G |-> ScoreRow(r, users, cands, hists)]
  BY DEF ScoredRows
<1>. HIDE DEF users, cands, hists, G, P, B, C
<1>9. ASSUME NEW r \in 1 .. G
      PROVE  /\ rows[r].user = IF r <= P * B THEN U[r] ELSE 1
             /\ DOMAIN rows[r].cands = 1 .. C
             /\ \A j \in 1 .. C : rows[r].cands[j] = IF r <= P * B THEN F[At(r, C, j)] ELSE 1
             /\ \E hist : rows[r].mask = FinalMask(r, rows[r].cands, hist)
  <2>. DEFINE c == Part(cands, r, NumCandidates)
             h == Part(hists, r, MaxHistory)
  <2>1. rows[r] = [user |-> users[r], cands |-> c, mask |-> FinalMask(r, c, h)]
    BY <1>8 DEF ScoreRow
  <2>2. c = [j \in 1 .. C |-> cands[At(r, C, j)]]
    BY DEF Part, At, C
  <2>. HIDE DEF c, h
  <2>3. rows[r].user = users[r] /\ rows[r].cands = c /\ rows[r].mask = FinalMask(r, c, h)
    BY <2>1
  <2>4. ASSUME NEW j \in 1 .. C  PROVE c[j] = IF r <= P * B THEN F[At(r, C, j)] ELSE 1
    <3>1. At(r, C, j) \in 1 .. G * C
      BY <1>1, <1>3, AtWithin
    <3>2. c[j] = IF At(r, C, j) <= (P * B) * C THEN F[At(r, C, j)] ELSE 1
      BY <1>7, <2>2, <3>1
    <3>3. CASE r <= P * B
      <4>1. At(r, C, j) \in 1 .. (P * B) * C
        <5>1. r \in 1 .. P * B
          BY <1>3, <1>5, <3>3
        <5>. QED  BY <1>1, <1>5, <5>1, AtWithin
      <4>2. At(r, C, j) <= (P * B) * C
        <5>. DEFINE z == (P * B) * C
        <5>1. z \in Nat /\ At(r, C, j) \in 1 .. z
          BY <1>5, <4>1
        <5>. HIDE DEF z
        <5>2. At(r, C, j) <= z
          BY <5>1
        <5>. QED  BY <5>2 DEF z
      <4>. QED  BY <3>2, <3>3, <4>2
    <3>4. CASE ~ (r <= P * B)
      <4>1. (P * B + 1 - 1) * C + C <= r * C /\ (P * B + 1 - 1) * C \in Nat
        <5>1. P * B + 1 \in Nat \ {0} /\ r \in Nat /\ P * B + 1 <= r
          BY <1>3, <1>5, <3>4
        <5>. QED  BY <1>1, <5>1, PartsBefore
      <4>2. (P * B + 1 - 1) = P * B
        BY <1>5
      <4>3. (P * B) * C <= (r - 1) * C
        <5>1. P * B + 1 \in Nat \ {0} /\ r - 1 \in Nat /\ P * B <= r - 1
          BY <1>3, <1>5, <3>4
        <5>2. \A a, d \in Nat : (a + d) * C = a * C + d * C /\ a * C \in Nat /\ d * C \in Nat
          BY <1>1, SMT
        <5>3. r - 1 = P * B + ((r - 1) - P * B) /\ (r - 1) - P * B \in Nat
          BY <1>5, <5>1
        <5>. DEFINE a == P * B
                   d == (r - 1) - P * B
        <5>4. (a + d) * C = a * C + d * C /\ a * C \in Nat /\ d * C \in Nat
          <6>1. a \in Nat /\ d \in Nat
            BY <1>5, <5>3
          <6>. HIDE DEF a, d
          <6>. QED  BY <5>2, <6>1
        <5>. DEFINE x == a * C
                   y == d * C
                   z == (r - 1) * C
        <5>5. z = x + y /\ x \in Nat /\ y \in Nat
          <6>1. r - 1 = a + d
            BY <5>3
          <6>. HIDE DEF a, d
          <6>. QED  BY <5>4, <6>1
        <5>6. x <= z
          <6>. HIDE DEF x, y, z
          <6>. QED  BY <5>5
        <5>. QED  BY <5>6
      <4>4. ~ (At(r, C, j) <= (P * B) * C)
        <5>. DEFINE x == (P * B) * C
                   z == (r - 1) * C
        <5>1. x \in Nat /\ x <= z /\ At(r, C, j) = z + j /\ z \in Nat
          <6>1. r - 1 \in Nat /\ C \in Nat
            BY <1>1, <1>3
          <6>. HIDE DEF x
          <6>2. z \in Nat
            BY <1>2, <6>1
          <6>. QED  BY <1>5, <4>3, <6>2 DEF At, x
        <5>. HIDE DEF x, z
        <5>2. ~ (At(r, C, j) <= x)
          BY <5>1
        <5>. QED  BY <5>2 DEF x
      <4>. QED  BY <3>2, <3>4, <4>4
    <3>. QED  BY <3>3, <3>4
  <2>5. rows[r].user = IF r <= P * B THEN U[r] ELSE 1
    BY <1>6, <2>3
  <2>6. DOMAIN rows[r].cands = 1 .. C
    BY <2>2, <2>3
  <2>7. \E hist : rows[r].mask = FinalMask(r, rows[r].cands, hist)
    BY <2>3
  <2>. QED  BY <2>3, <2>4, <2>5, <2>6, <2>7
<1>10. DOMAIN rows = 1 .. G
  BY <1>8
<1>. QED
  BY <1>9, <1>10 DEF RowsTell, G, P, B, C

(* The nodes of a type of the s-th graph of process p, and their places in *)
(* an array in the order of the batch.                                     *)
OfGraph(t, p, s) == {n \in TypeAt(graph.nodes, t) : Home(n) = <<p - 1, s>>}
(* What row r of such an array holds.                                      *)
InRow(w, F, r) == {F[At(r, w, j)] : j \in 1 .. w}

(* A row holds the nodes of one graph, and all of them.                    *)
LEMMA RowOfGraph ==
  ASSUME NEW t, NEW w \in Nat \ {0}, NEW F, InBatchOrder(t, w, F),
         NEW p \in Processes, NEW s \in 1 .. BatchSize
  PROVE  /\ At(p, BatchSize, s) \in 1 .. NumProcesses * BatchSize
         /\ OfGraph(t, p, s) = InRow(w, F, At(p, BatchSize, s))
<1>. DEFINE P == NumProcesses
           B == BatchSize
           N == P * B
           T == TypeAt(graph.nodes, t)
<1>1. P \in Nat /\ B \in Nat /\ N \in Nat /\ N * w = P * (B * w) /\ w \in Nat
  <2>1. \A a, b, c \in Nat : (a * b) * c = a * (b * c) /\ a * b \in Nat
    BY SMT
  <2>2. P \in Nat /\ B \in Nat /\ w \in Nat
    BY Sizes
  <2>. HIDE DEF P, B
  <2>. QED  BY <2>1, <2>2
<1>2. /\ F \in [1 .. N * w -> T]
      /\ \A n \in T : \E i \in 1 .. N * w : F[i] = n
      /\ \A q \in Processes : \A x \in 1 .. B : \A j \in 1 .. w :
           Home(F[At(At(q, B, x), w, j)]) = <<q - 1, x>>
  <2>1. Lists(F, T, P * (B * w))
    BY DEF InBatchOrder
  <2>2. Lists(F, T, N * w)
    BY <1>1, <2>1
  <2>3. \A q \in Processes : \A x \in 1 .. B : \A j \in 1 .. w :
           Home(F[At(At(q, B, x), w, j)]) = <<q - 1, x>>
    BY DEF InBatchOrder
  <2>. HIDE DEF N, T, B
  <2>. QED  BY <2>2, <2>3 DEF Lists
<1>3. \A q \in Processes : q \in 1 .. P /\ q \in Nat
  BY <1>1 DEF Processes
<1>4. At(p, B, s) \in 1 .. N
  BY <1>1, <1>3, AtWithin
<1>. HIDE DEF P, B, N, T
<1>5. ASSUME NEW n \in T, Home(n) = <<p - 1, s>>
      PROVE  \E j \in 1 .. w : n = F[At(At(p, B, s), w, j)]
  <2>1. PICK i \in 1 .. N * w : F[i] = n
    BY <1>2
  <2>2. PICK y \in 1 .. N, j \in 1 .. w : i = At(y, w, j)
    BY <1>1, AtSome
  <2>3. PICK q \in 1 .. P, x \in 1 .. B : y = At(q, B, x)
    <3>1. y \in 1 .. P * B
      BY <2>2 DEF N
    <3>2. P \in Nat /\ B \in Nat
      BY <1>1
    <3>3. \E q \in 1 .. P, x \in 1 .. B :
             y = At(q, B, x) /\ q = 1 + (y - 1) \div B /\ x = 1 + ((y - 1) % B)
      BY <3>1, <3>2, AtSome
    <3>. QED  BY <3>3, Zenon
  <2>4. q \in Processes
    BY <2>3 DEF Processes, P
  <2>5. Home(n) = <<q - 1, x>>
    BY <1>2, <2>1, <2>2, <2>3, <2>4
  <2>6. q - 1 = p - 1 /\ x = s
    BY <1>5, <2>5
  <2>7. q = p
    BY <1>1, <1>3, <2>3, <2>6
  <2>. QED  BY <2>1, <2>2, <2>3, <2>6, <2>7
<1>6. ASSUME NEW j \in 1 .. w
      PROVE  F[At(At(p, B, s), w, j)] \in T /\ Home(F[At(At(p, B, s), w, j)]) = <<p - 1, s>>
  <2>1. At(At(p, B, s), w, j) \in 1 .. N * w
    BY <1>1, <1>4, AtWithin
  <2>2. s \in 1 .. B
    BY DEF B
  <2>. QED  BY <1>2, <2>1, <2>2
<1>7. \A n : n \in OfGraph(t, p, s) <=> n \in InRow(w, F, At(p, B, s))
  BY <1>5, <1>6 DEF OfGraph, InRow, T
<1>. QED
  BY <1>4, <1>7 DEF N, P, B

(* The row of the s-th user of process p, and the rows of users.           *)
RowOf(p, s) == At(p, BatchSize, s)
BatchRows == 1 .. NumProcesses * BatchSize

(* The rows of users are rows, and every one is of a graph.                *)
LEMMA RowOfSome ==
  /\ \A r \in BatchRows : \E p \in Processes : \E s \in 1 .. BatchSize : r = RowOf(p, s)
  /\ RealRows = BatchRows
  /\ NumGraphs = NumProcesses * MaxGraphs => BatchRows \subseteq 1 .. NumGraphs
<1>1. NumProcesses \in Nat /\ BatchSize \in Nat /\ MaxGraphs \in Nat /\ MaxGraphs >= BatchSize
  BY Sizes
<1>2. ASSUME NEW r \in BatchRows  PROVE \E p \in Processes : \E s \in 1 .. BatchSize : r = RowOf(p, s)
  <2>1. r \in 1 .. NumProcesses * BatchSize /\ NumProcesses \in Nat /\ BatchSize \in Nat
    BY <1>1 DEF BatchRows
  <2>2. \E q \in 1 .. NumProcesses, x \in 1 .. BatchSize :
             r = At(q, BatchSize, x) /\ q = 1 + (r - 1) \div BatchSize /\ x = 1 + ((r - 1) % BatchSize)
    BY <2>1, AtSome
  <2>. QED  BY <2>2, Zenon DEF Processes, RowOf
<1>3. NumProcesses * BatchSize = BatchSize * NumProcesses
  BY <1>1, SMT
<1>4. ASSUME NumGraphs = NumProcesses * MaxGraphs  PROVE BatchRows \subseteq 1 .. NumGraphs
  <2>1. \A a, b, d \in Nat : a * (b + d) = a * b + a * d /\ a * b \in Nat /\ a * d \in Nat
    BY SMT
  <2>. DEFINE d == MaxGraphs - BatchSize
  <2>2. d \in Nat /\ MaxGraphs = BatchSize + d
    BY <1>1
  <2>. HIDE DEF d
  <2>. DEFINE x == NumProcesses * BatchSize
             y == NumProcesses * d
             z == NumProcesses * MaxGraphs
  <2>3. z = x + y /\ x \in Nat /\ y \in Nat
    BY <1>1, <2>1, <2>2
  <2>4. BatchRows = 1 .. x /\ NumGraphs = z
    BY <1>4 DEF BatchRows
  <2>. HIDE DEF x, y, z
  <2>. QED  BY <2>3, <2>4
<1>. QED
  BY <1>2, <1>3, <1>4 DEF RealRows, BatchRows

(* The row of a user holds it and its candidates.                          *)
LEMMA RowHolds ==
  ASSUME OnDevices, NEW U, InBatchOrder(1, 1, U), NEW F, InBatchOrder(3, NumCandidates, F),
         RowsTell(U, F), NEW p \in Processes, NEW s \in 1 .. BatchSize
  PROVE  /\ RowOf(p, s) \in BatchRows /\ RowOf(p, s) \in 1 .. NumGraphs
         /\ rows[RowOf(p, s)].user = U[RowOf(p, s)]
         /\ OfGraph(1, p, s) = {rows[RowOf(p, s)].user}
         /\ OfGraph(3, p, s) = ToSet(rows[RowOf(p, s)].cands)
<1>. DEFINE r == RowOf(p, s)
           C == NumCandidates
           c == rows[r].cands
<1>1. C \in Nat \ {0}
  BY Sizes
<1>2. r \in BatchRows /\ OfGraph(3, p, s) = InRow(C, F, r)
  BY <1>1, RowOfGraph DEF BatchRows, RowOf
<1>3. OfGraph(1, p, s) = InRow(1, U, r)
  <2>1. 1 \in Nat \ {0}
    OBVIOUS
  <2>. QED  BY <2>1, RowOfGraph DEF RowOf
<1>4. r \in 1 .. NumGraphs
  BY <1>2, RowOfSome DEF OnDevices
<1>. HIDE DEF r, C
<1>5. r \in Int /\ r <= NumProcesses * BatchSize
  <2>. DEFINE z == NumProcesses * BatchSize
  <2>1. r \in 1 .. z
    BY <1>2 DEF BatchRows
  <2>2. z \in Int
    BY Sizes
  <2>. HIDE DEF z
  <2>3. r \in Int /\ r <= z
    BY <2>1, <2>2
  <2>. QED  BY <2>3 DEF z
<1>6. /\ rows[r].user = U[r]
      /\ DOMAIN c = 1 .. C
      /\ \A j \in 1 .. C : c[j] = F[At(r, C, j)]
  BY <1>4, <1>5 DEF RowsTell, C
<1>7. InRow(1, U, r) = {U[r]}
  <2>1. \A j \in 1 .. 1 : At(r, 1, j) = r
    <3>1. \A j \in 1 .. 1 : (r - 1) * 1 + j = r
      BY <1>5
    <3>. QED  BY <3>1 DEF At
  <2>2. 1 \in 1 .. 1
    OBVIOUS
  <2>3. \A x : x \in InRow(1, U, r) <=> x = U[r]
    BY <2>1, <2>2 DEF InRow
  <2>. QED  BY <2>3
<1>8. ToSet(c) = InRow(C, F, r)
  <2>. HIDE DEF c
  <2>1. \A x : x \in ToSet(c) <=> x \in InRow(C, F, r)
    BY <1>6 DEF ToSet, InRow
  <2>. QED  BY <2>1
<1>. QED
  BY <1>2, <1>3, <1>4, <1>6, <1>7, <1>8 DEF r

(* One of its candidates is the positive.                                  *)
LEMMA PositiveOfGraph ==
  ASSUME OnDevices, NEW p \in Processes, NEW s \in 1 .. BatchSize
  PROVE  \E x : {n \in OfGraph(3, p, s) : graph.nodes[n].label = 1} = {x}
<1>. DEFINE nodes == batch[p].nodes
<1>1. DOMAIN nodes = 1 .. MaxNodes /\ OnePositive(nodes, BatchSize)
  BY DEF OnDevices, Laid, Sized
<1>2. PICK c \in DOMAIN nodes : \A n \in DOMAIN nodes :
        (nodes[n].type = 3 /\ nodes[n].graph = s /\ nodes[n].label = 1) <=> n = c
  BY <1>1, Zenon DEF OnePositive
<1>3. \A q \in Processes : \A n \in 1 .. MaxNodes :
       /\ At(q, MaxNodes, n) \in DOMAIN graph.nodes
       /\ graph.nodes[At(q, MaxNodes, n)] = batch[q].nodes[n]
       /\ Home(At(q, MaxNodes, n)) = <<q - 1, batch[q].nodes[n].graph>>
  BY DEF OnDevices
<1>4. \A x \in DOMAIN graph.nodes : \E q \in Processes : \E n \in 1 .. MaxNodes :
       x = At(q, MaxNodes, n)
  BY DEF OnDevices
<1>5. \A q \in Processes : q - 1 = p - 1 => q = p
  BY Sizes DEF Processes
<1>. DEFINE y == At(p, MaxNodes, c)
           S == {n \in OfGraph(3, p, s) : graph.nodes[n].label = 1}
<1>6. y \in S
  <2>1. c \in 1 .. MaxNodes
    BY <1>1, <1>2
  <2>2. nodes[c].type = 3 /\ nodes[c].graph = s /\ nodes[c].label = 1
    BY <1>2
  <2>. QED  BY <1>3, <2>1, <2>2 DEF OfGraph, TypeAt
<1>7. ASSUME NEW x \in S  PROVE x = y
  <2>1. x \in DOMAIN graph.nodes /\ graph.nodes[x].type = 3 /\ Home(x) = <<p - 1, s>> /\ graph.nodes[x].label = 1
    BY DEF OfGraph, TypeAt
  <2>2. PICK q \in Processes : \E n \in 1 .. MaxNodes : x = At(q, MaxNodes, n)
    BY <1>4, <2>1
  <2>3. PICK n \in 1 .. MaxNodes : x = At(q, MaxNodes, n)
    BY <2>2
  <2>4. Home(x) = <<q - 1, batch[q].nodes[n].graph>> /\ graph.nodes[x] = batch[q].nodes[n]
    BY <1>3, <2>3
  <2>5. q = p /\ batch[q].nodes[n].graph = s
    BY <1>5, <2>1, <2>4
  <2>6. n = c
    BY <1>1, <1>2, <2>1, <2>4, <2>5
  <2>. QED  BY <2>3, <2>5, <2>6
<1>. HIDE DEF S, y
<1>8. S = {y}
  BY <1>6, <1>7
<1>. QED  BY <1>8 DEF S

-----------------------------------------------------------------------------
(* The rows are the graphs.                                                *)

(* What can be said of the rows of a scored batch.                         *)
Told(U, F) ==
  /\ OnDevices /\ RowsTell(U, F)
  /\ InBatchOrder(1, 1, U) /\ InBatchOrder(3, NumCandidates, F)

(* Whenever there are rows, they can be told so.                           *)
LEMMA ScoredIsTold ==
  ASSUME LaidInv, GraphInv, Scored
  PROVE  \E U, F : Told(U, F)
<1>1. graph # NoGraph /\ rows = ScoredRows
  BY DEF GraphInv
<1>2. OnDevices
  BY <1>1, DevicesSee
<1>3. \A p \in Processes :
        /\ \E f : Ranked(batch[p].nodes, 1, 1, BatchSize, f)
        /\ \E f : Ranked(batch[p].nodes, 3, NumCandidates, BatchSize, f)
  BY <1>2 DEF OnDevices, Laid
<1>4. PICK U : InBatchOrder(1, 1, U)
  <2>1. 1 \in Nat \ {0}
    OBVIOUS
  <2>. QED  BY <1>2, <1>3, <2>1, OrderedAcross
<1>5. PICK F : InBatchOrder(3, NumCandidates, F)
  <2>1. NumCandidates \in Nat \ {0}
    BY Sizes
  <2>. QED  BY <1>2, <1>3, <2>1, OrderedAcross
<1>6. RowsTell(U, F)
  BY <1>1, <1>2, <1>4, <1>5, RowsAre
<1>. QED  BY <1>2, <1>4, <1>5, <1>6 DEF Told

(* The users of the rows stand in the order of the batch.                  *)
LEMMA UsersInOrder ==
  ASSUME NEW U, NEW F, Told(U, F), NEW r \in BatchRows, r > 1
  PROVE  rows[r - 1].user < rows[r].user
<1>. DEFINE N == NumProcesses * BatchSize
<1>1. /\ N \in Nat /\ NumProcesses * (BatchSize * 1) = N
  BY Sizes
<1>2. Lists(U, TypeAt(graph.nodes, 1), N)
  BY <1>1 DEF Told, InBatchOrder
<1>3. r \in 1 .. N /\ NumGraphs = NumProcesses * MaxGraphs
  BY DEF BatchRows, Told, OnDevices
<1>4. 1 .. N \subseteq 1 .. NumGraphs
  BY <1>3, RowOfSome DEF BatchRows
<1>5. \A x \in 1 .. NumGraphs : x <= N => rows[x].user = U[x]
  BY DEF Told, RowsTell
<1>. HIDE DEF N
<1>6. r - 1 \in 1 .. N /\ r - 1 < r /\ r <= N /\ r - 1 <= N
  BY <1>1, <1>3
<1>. QED  BY <1>2, <1>3, <1>4, <1>5, <1>6 DEF Lists

(* Rows told so are graphs.                                                *)
LEMMA RowsAreTold ==
  ASSUME NEW U, NEW F, Told(U, F), DOMAIN heard = DOMAIN graph.nodes
  PROVE  RowsAreGraphs
<1>. SUFFICES ASSUME NEW r \in RealRows
     PROVE  LET row == rows[r]
                of(t) == {n \in DOMAIN heard : graph.nodes[n].type = t /\ Home(n) = Home(row.user)}
            IN  /\ of(1) = {row.user}
                /\ of(3) = ToSet(row.cands)
                /\ Cardinality({n \in of(3) : graph.nodes[n].label = 1}) = 1
                /\ r > 1 => rows[r - 1].user < row.user
  BY DEF RowsAreGraphs
<1>. DEFINE row == rows[r]
           of(t) == {n \in DOMAIN heard : graph.nodes[n].type = t /\ Home(n) = Home(row.user)}
<1>1. r \in BatchRows
  BY RowOfSome
<1>2. PICK p \in Processes, s \in 1 .. BatchSize : r = RowOf(p, s)
  BY <1>1, RowOfSome
<1>3. OfGraph(1, p, s) = {row.user} /\ OfGraph(3, p, s) = ToSet(row.cands)
  BY <1>2, RowHolds DEF Told
<1>4. Home(row.user) = <<p - 1, s>>
  BY <1>3 DEF OfGraph
<1>5. \A t : of(t) = OfGraph(t, p, s)
  BY <1>4 DEF OfGraph, TypeAt
<1>6. Cardinality({n \in of(3) : graph.nodes[n].label = 1}) = 1
  <2>1. \E x : {n \in OfGraph(3, p, s) : graph.nodes[n].label = 1} = {x}
    BY PositiveOfGraph DEF Told
  <2>2. \E x : {n \in of(3) : graph.nodes[n].label = 1} = {x}
    BY <1>5, <2>1
  <2>. QED  BY <2>2, FS_Singleton
<1>7. r > 1 => rows[r - 1].user < row.user
  BY <1>1, UsersInOrder
<1>. QED
  BY <1>3, <1>5, <1>6, <1>7

(* The invariants imply it.                                                *)
LEMMA RowsAreGraphsIn == LaidInv /\ GraphInv => RowsAreGraphs
<1>. SUFFICES ASSUME LaidInv, GraphInv, Scored  PROVE RowsAreGraphs
  BY DEF RowsAreGraphs
<1>1. PICK U, F : Told(U, F)
  BY ScoredIsTold
<1>2. DOMAIN heard = DOMAIN graph.nodes
  BY DEF GraphInv
<1>. QED  BY <1>1, <1>2, RowsAreTold

-----------------------------------------------------------------------------
(* Every user counts.                                                      *)

(* The first node of all is no candidate.                                  *)
LEMMA FirstIsUser ==
  ASSUME OnDevices
  PROVE  ~ IsCandidate(1)
<1>1. 1 \in Processes /\ 1 \in 1 .. MaxNodes /\ BatchSize # 0
  BY Sizes DEF Processes
<1>2. At(1, MaxNodes, 1) = 1
  <2>1. (1 - 1) * MaxNodes = 0
    <3>1. \A a \in Nat : (1 - 1) * a = 0
      BY SMT
    <3>. QED  BY <3>1, Sizes
  <2>. QED  BY <2>1 DEF At
<1>3. UserFirst(batch[1].nodes, BatchSize)
  BY <1>1 DEF OnDevices, Laid
<1>4. batch[1].nodes[1].type = 1
  BY <1>1, <1>3 DEF UserFirst
<1>5. graph.nodes[At(1, MaxNodes, 1)] = batch[1].nodes[1]
  BY <1>1 DEF OnDevices
<1>. QED
  BY <1>2, <1>4, <1>5 DEF IsCandidate

(* get_graph_padding_mask: the last process's dummy is behind every user.  *)
LEMMA UsersAreReal ==
  ASSUME OnDevices, NEW r \in BatchRows
  PROVE  IsRealGraph(r)
<1>. DEFINE P == NumProcesses
           B == BatchSize
           G == MaxGraphs
           z == At(P, G, B + 1)
<1>1. P \in Nat \ {0} /\ B \in Nat \ {0} /\ G \in Nat /\ B + 1 \in 1 .. G /\ P \in 1 .. P /\ P \in Processes
  BY Sizes DEF Processes
<1>2. z \in 1 .. P * G
  BY <1>1, AtWithin
<1>3. r <= P * B /\ P * B \in Nat /\ r \in Nat
  <2>. DEFINE y == P * B
  <2>1. y \in Nat /\ r \in 1 .. y
    BY <1>1, SMT DEF BatchRows
  <2>. HIDE DEF y
  <2>2. r <= y /\ y \in Nat /\ r \in Nat
    BY <2>1
  <2>. QED  BY <2>2 DEF y
<1>4. z > P * B
  <2>1. \A a, b, d \in Nat : a * (b + d) = a * b + a * d /\ (a + 1) * b = a * b + b /\ a * b \in Nat /\ a * d \in Nat
    BY SMT
  <2>. DEFINE a == P - 1
             d == G - B
  <2>2. a \in Nat /\ d \in Nat /\ P = a + 1 /\ G = B + d
    BY <1>1
  <2>. HIDE DEF a, d, P, B, G
  <2>3. a * G = a * B + a * d /\ P * B = a * B + B /\ a * B \in Nat /\ a * d \in Nat
    BY <1>1, <2>1, <2>2
  <2>4. z = a * G + (B + 1)
    <3>1. P - 1 = a
      BY <2>2
    <3>. QED  BY <3>1 DEF At
  <2>. DEFINE u == a * B
             v == a * d
             w == a * G
             y == P * B
  <2>5. w = u + v /\ y = u + B /\ u \in Nat /\ v \in Nat /\ B \in Nat /\ z = w + (B + 1)
    BY <1>1, <2>3, <2>4
  <2>6. z > y
    <3>. HIDE DEF u, v, w, y, z
    <3>. QED  BY <2>5
  <2>. QED  BY <2>6
<1>5. graph.nNode[z] # 0
  <2>1. graph.nNode[z] = batch[P].nNode[B + 1]
    BY <1>1 DEF OnDevices
  <2>2. batch[P].nNode[B + 1] # 0
    BY <1>1 DEF OnDevices, Sized
  <2>. QED  BY <2>1, <2>2
<1>6. NumGraphs = P * G
  BY DEF OnDevices
<1>7. z \in r + 1 .. NumGraphs
  <2>. DEFINE x == P * G
             y == P * B
  <2>1. z \in 1 .. x /\ x \in Nat /\ z > y /\ r <= y /\ y \in Nat /\ r \in Nat /\ NumGraphs = x
    BY <1>1, <1>2, <1>3, <1>4, <1>6, SMT
  <2>. HIDE DEF x, y, z
  <2>. QED  BY <2>1
<1>. QED
  BY <1>5, <1>7 DEF IsRealGraph

(* A masked-in slot holds a candidate, so it is in the row of a user.      *)
LEMMA OnlyUsersCount ==
  ASSUME NEW U, NEW F, Told(U, F), NEW r \in DOMAIN rows
  PROVE  /\ DOMAIN rows[r].cands = 1 .. NumCandidates
         /\ DOMAIN rows[r].mask = 1 .. NumCandidates
         /\ \A j \in DOMAIN rows[r].cands : rows[r].mask[j] => r \in BatchRows
<1>1. /\ r \in 1 .. NumGraphs
      /\ DOMAIN rows[r].cands = 1 .. NumCandidates
      /\ \A j \in 1 .. NumCandidates : ~ (r <= NumProcesses * BatchSize) => rows[r].cands[j] = 1
      /\ \E hist : rows[r].mask = FinalMask(r, rows[r].cands, hist)
  BY DEF Told, RowsTell
<1>2. PICK hist : rows[r].mask = FinalMask(r, rows[r].cands, hist)
  BY <1>1
<1>. DEFINE c == rows[r].cands
           m == rows[r].mask
<1>3. /\ DOMAIN m = DOMAIN c
      /\ \A j \in DOMAIN c : m[j] => IsCandidate(c[j])
  <2>1. m = [j \in DOMAIN c |->
     /\ IsRealGraph(r) /\ IsCandidate(c[j])
     /\ ~TargetCollision(r, c[j], c)
     /\ ~InHistory(r, c[j], hist)]
    BY <1>2 DEF FinalMask
  <2>. HIDE DEF m, c
  <2>2. DOMAIN m = DOMAIN c
    BY <2>1
  <2>3. ASSUME NEW j \in DOMAIN c, m[j]  PROVE IsCandidate(c[j])
    BY <2>1, <2>3, Zenon
  <2>. QED  BY <2>2, <2>3
<1>4. r \in Nat /\ r >= 1
  <2>1. NumGraphs \in Nat
    <3>1. \A a, b \in Nat : a * b \in Nat
      BY SMT
    <3>2. NumGraphs = NumProcesses * MaxGraphs
      BY DEF Told, OnDevices
    <3>. QED  BY <3>1, <3>2, Sizes
  <2>. QED  BY <1>1, <2>1
<1>5. ~ IsCandidate(1)
  BY FirstIsUser DEF Told
<1>6. ASSUME NEW j \in DOMAIN c, m[j]  PROVE r \in BatchRows
  <2>1. c[j] # 1
    BY <1>3, <1>5, <1>6
  <2>2. r <= NumProcesses * BatchSize
    BY <1>1, <2>1
  <2>3. NumProcesses * BatchSize \in Nat
    BY Sizes, SMT
  <2>. DEFINE y == NumProcesses * BatchSize
  <2>4. r \in 1 .. y
    <3>1. r <= y /\ y \in Nat
      BY <2>2, <2>3
    <3>. HIDE DEF y
    <3>. QED  BY <1>4, <3>1
  <2>. QED  BY <2>4 DEF BatchRows
<1>. QED
  BY <1>1, <1>3, <1>6

(* The positive of a row counts.                                           *)
LEMMA PositiveCounts ==
  ASSUME NEW U, NEW F, Told(U, F), NEW r \in BatchRows
  PROVE  r \in DOMAIN rows /\ HasPositive(rows[r])
<1>1. PICK p \in Processes, s \in 1 .. BatchSize : r = RowOf(p, s)
  BY RowOfSome
<1>2. /\ r \in 1 .. NumGraphs
      /\ OfGraph(3, p, s) = ToSet(rows[r].cands)
  BY <1>1, RowHolds DEF Told
<1>3. PICK x : {n \in OfGraph(3, p, s) : graph.nodes[n].label = 1} = {x}
  BY PositiveOfGraph DEF Told
<1>4. x \in OfGraph(3, p, s) /\ graph.nodes[x].label = 1
  BY <1>3
<1>5. PICK j \in DOMAIN rows[r].cands : rows[r].cands[j] = x
  BY <1>2, <1>4 DEF ToSet
<1>6. r \in DOMAIN rows /\ \E hist : rows[r].mask = FinalMask(r, rows[r].cands, hist)
  BY <1>2 DEF Told, RowsTell
<1>7. PICK hist : rows[r].mask = FinalMask(r, rows[r].cands, hist)
  BY <1>6
<1>8. IsRealGraph(r)
  BY UsersAreReal DEF Told
<1>9. IsCandidate(x)
  BY <1>4 DEF OfGraph, TypeAt, IsCandidate
<1>10. IsPositive(r, x)
  <2>1. graph.nodes[x].label > 0
    BY <1>4
  <2>. QED  BY <1>8, <1>9, <2>1 DEF IsPositive
<1>. DEFINE c == rows[r].cands
<1>11. ~ TargetCollision(r, c[j], c) /\ ~ InHistory(r, c[j], hist)
  BY <1>5, <1>10 DEF TargetCollision, InHistory
<1>12. FinalMask(r, c, hist)[j]
  <2>. HIDE DEF c
  <2>1. j \in DOMAIN c /\ IsCandidate(c[j])
    BY <1>5, <1>9 DEF c
  <2>. QED  BY <1>8, <1>11, <2>1, Zenon DEF FinalMask
<1>13. Label(c[j]) > 0
  BY <1>4, <1>5 DEF Label
<1>. QED
  BY <1>5, <1>6, <1>7, <1>12, <1>13 DEF HasPositive

(* Rows told so are safe to train on, and those of users count.            *)
LEMMA CountsTold ==
  ASSUME NEW U, NEW F, Told(U, F)
  PROVE  SoftmaxIsDefined /\ QueryRows = RealRows
<1>1. 1 \in 1 .. NumCandidates
  BY Sizes
<1>2. ASSUME NEW r \in DOMAIN rows, HasPositive(rows[r])  PROVE r \in RealRows
  <2>1. PICK j \in DOMAIN rows[r].cands : rows[r].mask[j]
    BY <1>2 DEF HasPositive
  <2>. QED  BY <2>1, OnlyUsersCount, RowOfSome
<1>3. \A r \in RealRows : r \in DOMAIN rows /\ HasPositive(rows[r])
  BY PositiveCounts, RowOfSome
<1>4. QueryRows = RealRows
  <2>1. \A r : r \in QueryRows <=> r \in RealRows
    BY <1>2, <1>3 DEF QueryRows
  <2>. QED  BY <2>1
<1>5. LossRows \subseteq RealRows
  BY <1>2 DEF LossRows, RowValid
<1>6. ASSUME NEW r \in DOMAIN rows
      PROVE  \E j \in DOMAIN rows[r].cands : SafeMask(rows[r])[j] /\ SafeLabel(rows[r], j) > 0
  <2>1. CASE RowValid(rows[r])
    <3>1. PICK j \in DOMAIN rows[r].cands : rows[r].mask[j] /\ Label(rows[r].cands[j]) > 0
      BY <2>1 DEF RowValid, HasPositive
    <3>2. SafeMask(rows[r])[j]
      BY <2>1, <3>1, Zenon DEF SafeMask
    <3>3. SafeLabel(rows[r], j) > 0
      <4>1. SafeLabel(rows[r], j) = Label(rows[r].cands[j])
        BY <2>1, Zenon DEF SafeLabel
      <4>. QED  BY <3>1, <4>1
    <3>. QED  BY <3>2, <3>3
  <2>2. CASE ~ RowValid(rows[r])
    <3>1. 1 \in DOMAIN rows[r].cands /\ 1 \in DOMAIN rows[r].mask
      BY <1>1, OnlyUsersCount
    <3>2. SafeMask(rows[r])[1]
      <4>1. SafeMask(rows[r]) = [j \in DOMAIN rows[r].mask |-> TRUE]
        BY <2>2 DEF SafeMask
      <4>. QED  BY <3>1, <4>1
    <3>3. SafeLabel(rows[r], 1) > 0
      BY <2>2 DEF SafeLabel
    <3>. QED  BY <3>1, <3>2, <3>3
  <2>. QED  BY <2>1, <2>2
<1>. QED
  BY <1>4, <1>5, <1>6 DEF SoftmaxIsDefined

(* The invariants imply it.                                                *)
LEMMA EveryUserCountsIn == LaidInv /\ GraphInv => EveryUserCounts
<1>. SUFFICES ASSUME LaidInv, GraphInv  PROVE EveryUserCounts
  OBVIOUS
<1>1. CASE Scored
  <2>1. PICK U, F : Told(U, F)
    BY <1>1, ScoredIsTold
  <2>. QED  BY <2>1, CountsTold DEF EveryUserCounts, EveryUserIsEvaluated
<1>2. CASE ~ Scored
  <2>1. rows = <<>> /\ DOMAIN rows = {}
    BY <1>2 DEF Scored
  <2>2. SoftmaxIsDefined
    BY <2>1 DEF SoftmaxIsDefined, LossRows
  <2>. QED  BY <1>2, <2>2 DEF EveryUserCounts, EveryUserIsEvaluated
<1>. QED  BY <1>1, <1>2

-----------------------------------------------------------------------------
(* Who hears whom, on one process.                                         *)

(* The type of a node, and the nodes of a type in its graph.               *)
TypeOf(n) == graph.nodes[n].type
Kin(n, t) == {m \in DOMAIN graph.nodes : Home(m) = Home(n) /\ TypeOf(m) = t}

(* The edges on the device are the stars of the graphs, and every          *)
(* candidate has its user.                                                 *)
StarsOnDevice ==
  /\ \A e \in ToSet(graph.edges) :
       /\ e[1] \in DOMAIN graph.nodes /\ Home(e[1]) = Home(e[2])
       /\ <<TypeOf(e[1]), TypeOf(e[2])>> \in {<<2, 1>>, <<1, 3>>, <<0, 0>>}
  /\ \A m, n \in DOMAIN graph.nodes :
       Home(m) = Home(n) /\ <<TypeOf(m), TypeOf(n)>> \in {<<2, 1>>, <<1, 3>>} =>
         \E e \in ToSet(graph.edges) : e[1] = m /\ e[2] = n
  /\ \A n \in DOMAIN graph.nodes : TypeOf(n) = 3 => Kin(n, 1) # {}

(* The places of the first process are those of its own.                   *)
LEMMA AtFirst ==
  ASSUME NEW size \in Nat, NEW n \in 1 .. size
  PROVE  At(1, size, n) = n
<1>1. \A a \in Nat : (1 - 1) * a = 0
  BY SMT
<1>2. (1 - 1) * size = 0
  BY <1>1
<1>3. At(1, size, n) = 0 + n
  BY <1>2 DEF At
<1>. QED  BY <1>3

(* With one process the devices hold its stars.                            *)
LEMMA OneProcess ==
  ASSUME NumProcesses = 1, BatchInv, LaidInv, GraphInv, graph # NoGraph
  PROVE  StarsOnDevice
<1>. DEFINE b == batch[1]
           D == DOMAIN graph.nodes
<1>1. OnDevices /\ 1 \in Processes /\ stage[1] = "padded" /\ graph = GlobalGraph
  BY DevicesSee, Sizes DEF Processes, GraphInv
<1>2. EdgesAtHome(b) /\ Laid(b, BatchSize) /\ Sized(b)
  BY <1>1 DEF BatchInv, OnDevices
<1>3. MaxNodes \in Nat /\ MaxEdges \in Nat \ {0} /\ MaxEdges \in Nat
  BY Sizes
<1>4. \A n \in 1 .. MaxNodes : n \in D /\ graph.nodes[n] = b.nodes[n] /\ Home(n) = <<0, b.nodes[n].graph>>
  <2>. TAKE n \in 1 .. MaxNodes
  <2>1. At(1, MaxNodes, n) = n
    BY <1>3, AtFirst
  <2>2. /\ At(1, MaxNodes, n) \in DOMAIN graph.nodes
        /\ graph.nodes[At(1, MaxNodes, n)] = batch[1].nodes[n]
        /\ Home(At(1, MaxNodes, n)) = <<1 - 1, batch[1].nodes[n].graph>>
    BY <1>1 DEF OnDevices
  <2>3. 1 - 1 = 0
    OBVIOUS
  <2>. QED  BY <2>1, <2>2, <2>3
<1>5. D = 1 .. MaxNodes
  <2>1. DOMAIN graph.nodes = 1 .. NumProcesses * MaxNodes
    BY <1>1 DEF OnDevices
  <2>2. \A a \in Nat : 1 * a = a
    BY SMT
  <2>3. NumProcesses * MaxNodes = MaxNodes
    BY <1>3, <2>2
  <2>. QED  BY <2>1, <2>3
<1>6. /\ DOMAIN graph.edges = 1 .. MaxEdges
      /\ \A i \in 1 .. MaxEdges : graph.edges[i] = b.edges[i]
  <2>. DEFINE edges == [p \in Processes |-> batch[p].edges]
  <2>1. graph.edges = Behind(edges, MaxEdges)
    BY <1>1 DEF GlobalGraph
  <2>2. edges[1] = b.edges
    BY <1>1
  <2>. HIDE DEF edges, b
  <2>3. /\ DOMAIN graph.edges = 1 .. NumProcesses * MaxEdges
        /\ \A i \in 1 .. MaxEdges : graph.edges[At(1, MaxEdges, i)] = edges[1][i]
    BY <1>1, <1>3, <2>1, BehindIs
  <2>4. \A a \in Nat : 1 * a = a
    BY SMT
  <2>5. NumProcesses * MaxEdges = MaxEdges
    BY <1>3, <2>4
  <2>6. \A i \in 1 .. MaxEdges : At(1, MaxEdges, i) = i
    BY <1>3, AtFirst
  <2>. QED  BY <2>2, <2>3, <2>5, <2>6
<1>7. DOMAIN b.nodes = 1 .. MaxNodes /\ DOMAIN b.edges = 1 .. MaxEdges
  BY <1>2 DEF Sized
<1>8. ASSUME NEW e \in ToSet(graph.edges)
      PROVE  /\ e[1] \in D /\ Home(e[1]) = Home(e[2])
             /\ <<TypeOf(e[1]), TypeOf(e[2])>> \in {<<2, 1>>, <<1, 3>>, <<0, 0>>}
  <2>1. PICK i \in 1 .. MaxEdges : e = b.edges[i]
    BY <1>6 DEF ToSet
  <2>2. AtHome(b.nodes, e)
    <3>1. 1 .. Len(b.edges) = DOMAIN b.edges
      BY <1>2 DEF EdgesAtHome
    <3>. QED  BY <1>2, <1>7, <2>1, <3>1 DEF EdgesAtHome
  <2>3. e[1] \in 1 .. MaxNodes /\ e[2] \in 1 .. MaxNodes
    BY <1>7, <2>2 DEF AtHome
  <2>. QED  BY <1>4, <2>2, <2>3 DEF AtHome, TypeOf
<1>9. ASSUME NEW m \in D, NEW n \in D, Home(m) = Home(n),
             <<TypeOf(m), TypeOf(n)>> \in {<<2, 1>>, <<1, 3>>}
      PROVE  \E e \in ToSet(graph.edges) : e[1] = m /\ e[2] = n
  <2>0. m \in 1 .. MaxNodes /\ n \in 1 .. MaxNodes
    BY <1>5
  <2>1. MustJoin(b.nodes, m, n)
    <3>1. <<0, b.nodes[m].graph>> = <<0, b.nodes[n].graph>>
      BY <1>4, <1>9, <2>0
    <3>. QED  BY <1>4, <1>9, <2>0, <3>1 DEF MustJoin, TypeOf
  <2>2. Starred(b.nodes, b.edges, BatchSize)
    BY <1>2 DEF Laid
  <2>3. PICK i \in DOMAIN b.edges : b.edges[i] = <<m, n>>
    BY <1>7, <2>0, <2>1, <2>2 DEF Starred
  <2>4. i \in DOMAIN graph.edges /\ graph.edges[i] = <<m, n>>
    BY <1>6, <1>7, <2>3
  <2>. QED  BY <2>4 DEF ToSet
<1>10. ASSUME NEW n \in D, TypeOf(n) = 3  PROVE Kin(n, 1) # {}
  <2>1. n \in 1 .. MaxNodes /\ b.nodes[n].type = 3
    BY <1>4, <1>5, <1>10 DEF TypeOf
  <2>2. b.nodes[n].graph \in 1 .. BatchSize
    BY <1>2, <1>7, <2>1 DEF Laid, Starred
  <2>3. PICK f : Ranked(b.nodes, 1, 1, BatchSize, f)
    BY <1>2 DEF Laid
  <2>. DEFINE s == b.nodes[n].graph
             u == f[At(s, 1, 1)]
  <2>4. b.nodes[u].graph = s /\ u \in TypeAt(b.nodes, 1)
    <3>0. BatchSize \in Nat /\ 1 \in 1 .. 1 /\ 1 \in Nat
      BY Sizes
    <3>. HIDE DEF s
    <3>1. s \in 1 .. BatchSize
      BY <2>2 DEF s
    <3>2. At(s, 1, 1) \in 1 .. BatchSize * 1
      BY <3>0, <3>1, AtWithin
    <3>. QED  BY <2>3, <3>0, <3>1, <3>2 DEF Ranked, Lists
  <2>5. u \in 1 .. MaxNodes /\ b.nodes[u].type = 1
    BY <1>7, <2>4 DEF TypeAt
  <2>6. u \in Kin(n, 1)
    BY <1>4, <2>1, <2>4, <2>5 DEF Kin, TypeOf
  <2>. QED  BY <2>6
<1>. QED
  BY <1>8, <1>9, <1>10 DEF StarsOnDevice

(* What a node has heard of after so many layers.                          *)
HeardAfter(n, depth) ==
  {n} \cup (IF TypeOf(n) = 1 /\ depth >= 1 THEN Kin(n, 2) ELSE {})
      \cup (IF TypeOf(n) = 3 /\ depth >= 1 THEN Kin(n, 1) ELSE {})
      \cup (IF TypeOf(n) = 3 /\ depth >= 2 THEN Kin(n, 2) ELSE {})

(* Each node has heard what the layers done let it hear.                   *)
HeardInv ==
  /\ layer \in Nat
  /\ graph # NoGraph => \A n \in DOMAIN graph.nodes : TypeOf(n) \in {1, 2, 3} => heard[n] = HeardAfter(n, layer)

(* What the senders of a node know.                                        *)
From(n) == {heard[e[1]] : e \in {f \in ToSet(graph.edges) : f[2] = n}}

(* Who sends to whom.                                                      *)
LEMMA SendersAre ==
  ASSUME StarsOnDevice, NEW n \in DOMAIN graph.nodes, TypeOf(n) \in {1, 2, 3}
  PROVE  UNION From(n) =
           IF TypeOf(n) = 1 THEN UNION {heard[m] : m \in Kin(n, 2)}
           ELSE IF TypeOf(n) = 3 THEN UNION {heard[m] : m \in Kin(n, 1)}
           ELSE {}
<1>1. ASSUME NEW e \in ToSet(graph.edges), e[2] = n
      PROVE  \/ TypeOf(n) = 1 /\ e[1] \in Kin(n, 2)
             \/ TypeOf(n) = 3 /\ e[1] \in Kin(n, 1)
  <2>1. /\ e[1] \in DOMAIN graph.nodes /\ Home(e[1]) = Home(n)
        /\ <<TypeOf(e[1]), TypeOf(n)>> \in {<<2, 1>>, <<1, 3>>, <<0, 0>>}
    BY <1>1 DEF StarsOnDevice
  <2>. QED  BY <2>1 DEF Kin
<1>2. ASSUME NEW t, <<t, TypeOf(n)>> \in {<<2, 1>>, <<1, 3>>}, NEW m \in Kin(n, t)
      PROVE  heard[m] \in From(n)
  <2>1. m \in DOMAIN graph.nodes /\ Home(m) = Home(n) /\ TypeOf(m) = t
    BY DEF Kin
  <2>2. PICK e \in ToSet(graph.edges) : e[1] = m /\ e[2] = n
    BY <1>2, <2>1 DEF StarsOnDevice
  <2>. QED  BY <2>2 DEF From
<1>3. CASE TypeOf(n) = 1
  <2>1. \A x : x \in From(n) <=> x \in {heard[m] : m \in Kin(n, 2)}
    <3>1. ASSUME NEW x \in From(n)  PROVE x \in {heard[m] : m \in Kin(n, 2)}
      <4>1. PICK e \in ToSet(graph.edges) : e[2] = n /\ x = heard[e[1]]
        BY DEF From
      <4>2. e[1] \in Kin(n, 2)
        BY <1>1, <1>3, <4>1
      <4>. QED  BY <4>1, <4>2
    <3>2. ASSUME NEW m \in Kin(n, 2)  PROVE heard[m] \in From(n)
      BY <1>2, <1>3
    <3>. QED  BY <3>1, <3>2
  <2>2. From(n) = {heard[m] : m \in Kin(n, 2)}
    BY <2>1
  <2>. QED  BY <1>3, <2>2
<1>4. CASE TypeOf(n) = 3
  <2>1. \A x : x \in From(n) <=> x \in {heard[m] : m \in Kin(n, 1)}
    <3>1. ASSUME NEW x \in From(n)  PROVE x \in {heard[m] : m \in Kin(n, 1)}
      <4>1. PICK e \in ToSet(graph.edges) : e[2] = n /\ x = heard[e[1]]
        BY DEF From
      <4>2. e[1] \in Kin(n, 1)
        BY <1>1, <1>4, <4>1
      <4>. QED  BY <4>1, <4>2
    <3>2. ASSUME NEW m \in Kin(n, 1)  PROVE heard[m] \in From(n)
      BY <1>2, <1>4
    <3>. QED  BY <3>1, <3>2
  <2>2. From(n) = {heard[m] : m \in Kin(n, 1)}
    BY <2>1
  <2>. QED  BY <1>4, <2>2
<1>5. CASE TypeOf(n) = 2
  <2>1. ASSUME NEW x \in From(n)  PROVE FALSE
    <3>1. PICK e \in ToSet(graph.edges) : e[2] = n /\ x = heard[e[1]]
      BY DEF From
    <3>. QED  BY <1>1, <1>5, <3>1
  <2>2. From(n) = {}
    BY <2>1
  <2>. QED  BY <1>5, <2>2
<1>. QED  BY <1>3, <1>4, <1>5

(* One layer more.                                                         *)
LEMMA LayerHears ==
  ASSUME StarsOnDevice, NEW d \in Nat,
         \A n \in DOMAIN graph.nodes : TypeOf(n) \in {1, 2, 3} => heard[n] = HeardAfter(n, d),
         NEW n \in DOMAIN graph.nodes, TypeOf(n) \in {1, 2, 3}
  PROVE  heard[n] \cup UNION From(n) = HeardAfter(n, d + 1)
<1>1. heard[n] = HeardAfter(n, d)
  OBVIOUS
<1>2. CASE TypeOf(n) = 1
  <2>1. \A m \in Kin(n, 2) : heard[m] = {m}
    <3>. TAKE m \in Kin(n, 2)
    <3>1. m \in DOMAIN graph.nodes /\ TypeOf(m) = 2
      BY DEF Kin
    <3>2. heard[m] = HeardAfter(m, d)
      BY <3>1
    <3>3. HeardAfter(m, d) = {m}
      BY <3>1 DEF HeardAfter
    <3>. QED  BY <3>2, <3>3
  <2>2. UNION {heard[m] : m \in Kin(n, 2)} = Kin(n, 2)
    BY <2>1
  <2>3. UNION From(n) = Kin(n, 2)
    BY <1>2, <2>2, SendersAre
  <2>4. d + 1 >= 1
    OBVIOUS
  <2>5. HeardAfter(n, d + 1) = {n} \cup Kin(n, 2)
    BY <1>2, <2>4 DEF HeardAfter
  <2>6. heard[n] = {n} \/ heard[n] = {n} \cup Kin(n, 2)
    BY <1>1, <1>2 DEF HeardAfter
  <2>. QED  BY <2>3, <2>5, <2>6
<1>3. CASE TypeOf(n) = 3
  <2>. DEFINE K == IF d >= 1 THEN Kin(n, 2) ELSE {}
  <2>1. ASSUME NEW m \in Kin(n, 1)  PROVE heard[m] = {m} \cup K
    <3>1. m \in DOMAIN graph.nodes /\ TypeOf(m) = 1 /\ Home(m) = Home(n)
      BY DEF Kin
    <3>2. heard[m] = HeardAfter(m, d)
      BY <3>1
    <3>3. Kin(m, 2) = Kin(n, 2)
      BY <3>1 DEF Kin
    <3>4. HeardAfter(m, d) = {m} \cup K
      BY <3>1, <3>3 DEF HeardAfter
    <3>. QED  BY <3>2, <3>4
  <2>2. Kin(n, 1) # {}
    BY <1>3 DEF StarsOnDevice
  <2>. HIDE DEF K
  <2>3. UNION {heard[m] : m \in Kin(n, 1)} = Kin(n, 1) \cup K
    <3>1. PICK u \in Kin(n, 1) : TRUE
      BY <2>2
    <3>2. ASSUME NEW x \in Kin(n, 1) \cup K  PROVE \E m \in Kin(n, 1) : x \in heard[m]
      BY <2>1, <3>1
    <3>3. ASSUME NEW m \in Kin(n, 1), NEW x \in heard[m]  PROVE x \in Kin(n, 1) \cup K
      BY <2>1
    <3>. QED  BY <3>2, <3>3
  <2>4. UNION From(n) = Kin(n, 1) \cup K
    <3>1. UNION From(n) = UNION {heard[m] : m \in Kin(n, 1)}
      BY <1>3, SendersAre
    <3>. QED  BY <2>3, <3>1, Zenon
  <2>5. HeardAfter(n, d + 1) = {n} \cup Kin(n, 1) \cup K
    <3>1. d + 1 >= 1 /\ (d + 1 >= 2 <=> d >= 1)
      OBVIOUS
    <3>. QED  BY <1>3, <3>1 DEF HeardAfter, K
  <2>6. {n} \subseteq heard[n] /\ heard[n] \subseteq {n} \cup Kin(n, 1) \cup K
    <3>1. d >= 2 => d >= 1
      OBVIOUS
    <3>. QED  BY <1>1, <1>3, <3>1 DEF HeardAfter, K
  <2>. QED  BY <2>4, <2>5, <2>6
<1>4. CASE TypeOf(n) = 2
  <2>1. UNION From(n) = {}
    BY <1>4, SendersAre
  <2>2. HeardAfter(n, d + 1) = HeardAfter(n, d)
    BY <1>4 DEF HeardAfter
  <2>. QED  BY <1>1, <2>1, <2>2
<1>. QED  BY <1>2, <1>3, <1>4

(* Nothing is heard at first.                                              *)
LEMMA InitHeard == Init => HeardInv
BY DEF Init, HeardInv

(* No step undoes it.                                                      *)
LEMMA NextHeard ==
  ASSUME NumProcesses = 1, BatchInv, LaidInv, GraphInv, HeardInv, [Next]_vars
  PROVE  HeardInv'
<1>1. CASE UNCHANGED <<graph, layer, heard>>
  BY <1>1 DEF HeardInv, HeardAfter, TypeOf, Kin, Home
<1>2. CASE Enqueue
  <2>1. layer' = 0 /\ graph' = GlobalGraph /\ heard' = [n \in DOMAIN GlobalGraph.nodes |-> {n}]
    BY <1>2 DEF Enqueue, GraphInv
  <2>2. ASSUME NEW n \in DOMAIN graph'.nodes  PROVE heard'[n] = HeardAfter(n, layer)'
    <3>1. heard'[n] = {n}
      BY <2>1
    <3>2. HeardAfter(n, layer)' = {n}
      BY <2>1 DEF HeardAfter
    <3>. QED  BY <3>1, <3>2
  <2>. QED  BY <2>1, <2>2 DEF HeardInv
<1>3. CASE Layer
  <2>1. /\ graph # NoGraph /\ layer \in Nat /\ layer' = layer + 1 /\ graph' = graph
        /\ heard' = [n \in DOMAIN heard |-> heard[n] \cup UNION From(n)]
    BY <1>3 DEF Layer, HeardInv, From
  <2>2. StarsOnDevice /\ DOMAIN heard = DOMAIN graph.nodes
    BY <2>1, OneProcess DEF GraphInv
  <2>3. ASSUME NEW n \in DOMAIN graph.nodes, TypeOf(n) \in {1, 2, 3}
        PROVE  heard'[n] = HeardAfter(n, layer)'
    <3>1. heard'[n] = heard[n] \cup UNION From(n)
      BY <2>1, <2>2
    <3>2. heard[n] \cup UNION From(n) = HeardAfter(n, layer + 1)
      BY <2>1, <2>2, <2>3, LayerHears DEF HeardInv
    <3>3. HeardAfter(n, layer)' = HeardAfter(n, layer + 1)
      BY <2>1 DEF HeardAfter, TypeOf, Kin, Home
    <3>. QED  BY <3>1, <3>2, <3>3
  <2>4. \A n : TypeOf(n)' = TypeOf(n)
    BY <2>1 DEF TypeOf
  <2>5. \A n \in DOMAIN graph'.nodes : TypeOf(n)' \in {1, 2, 3} => heard'[n] = HeardAfter(n, layer)'
    <3>1. graph'.nodes = graph.nodes
      BY <2>1
    <3>. QED  BY <2>3, <2>4, <3>1
  <2>6. layer' \in Nat
    BY <2>1
  <2>. QED  BY <2>5, <2>6 DEF HeardInv
<1>4. CASE NextBatch
  BY <1>4 DEF NextBatch, HeardInv
<1>5. ASSUME NEW p \in Processes, MapRecord(p) \/ PadBatch(p)  PROVE UNCHANGED <<graph, layer, heard>>
  BY <1>5 DEF MapRecord, PadBatch
<1>6. CASE ScoreAndShapeResults \/ UNCHANGED vars
  <2>1. UNCHANGED <<graph, layer, heard>>
    BY <1>6 DEF ScoreAndShapeResults, vars
  <2>. QED  BY <1>1, <2>1
<1>. QED  BY <1>1, <1>2, <1>3, <1>4, <1>5, <1>6 DEF Next

(* Two layers bring the history to the candidates.                         *)
LEMMA AllHeardIn ==
  ASSUME NumLayers >= 2, GraphInv, HeardInv
  PROVE  HearsItsHistory
<1>. SUFFICES ASSUME Scored, NEW n \in DOMAIN heard, IsCandidate(n)
     PROVE heard[n] = {n} \cup {m \in DOMAIN heard : Home(m) = Home(n) /\ graph.nodes[m].type \in {1, 2}}
  BY DEF HearsItsHistory
<1>1. graph # NoGraph /\ layer = NumLayers /\ DOMAIN heard = DOMAIN graph.nodes
  BY DEF GraphInv
<1>2. TypeOf(n) = 3
  BY DEF IsCandidate, TypeOf
<1>3. heard[n] = HeardAfter(n, layer)
  BY <1>1, <1>2 DEF HeardInv
<1>4. layer >= 2 /\ layer >= 1
  BY <1>1, SuperGraphAssumption
<1>5. HeardAfter(n, layer) = {n} \cup Kin(n, 1) \cup Kin(n, 2)
  BY <1>2, <1>4 DEF HeardAfter
<1>6. Kin(n, 1) \cup Kin(n, 2) = {m \in DOMAIN heard : Home(m) = Home(n) /\ graph.nodes[m].type \in {1, 2}}
  BY <1>1 DEF Kin, TypeOf
<1>. QED  BY <1>3, <1>5, <1>6

-----------------------------------------------------------------------------
(* Every batch on its way is the stars of its records in the order they    *)
(* came, the devices hold what the processes padded, and the rows are the  *)
(* scores of what the devices hold.                                        *)
THEOREM GraphsInvariant == Spec => [](BatchInv /\ LaidInv /\ GraphInv)
<1>1. Init => BatchInv /\ LaidInv /\ GraphInv
  BY InitBatchInv, InitLaid
<1>2. BatchInv /\ LaidInv /\ GraphInv /\ [Next]_vars => BatchInv' /\ LaidInv' /\ GraphInv'
  BY NextBatchInv, NextLaid, NextGraph
<1>. QED
  BY <1>1, <1>2, PTL DEF Spec

(* jnp.where by node type and the reshape to rows: for any processes,      *)
(* devices, sizes and records, the three compacted arrays agree: row r is  *)
(* the r-th user, its candidates and no one else's, one of them positive.  *)
THEOREM RowsAlwaysGraphs == Spec => []RowsAreGraphs
  BY GraphsInvariant, RowsAreGraphsIn, PTL

(* No row gives train_step a softmax without a candidate or a label, only  *)
(* users weigh in the loss, and no history around it masks a user's        *)
(* positive: eval_step counts every user of every process.                 *)
THEOREM EveryUserAlwaysCounts == Spec => []EveryUserCounts
  BY GraphsInvariant, EveryUserCountsIn, PTL

(* With one process and the two layers the configurations ask for at       *)
(* least, a candidate's score rests on itself, its user and the whole of   *)
(* its user's history, and on no other user.  (With two processes the      *)
(* edges of the second point into the first, and it does not: the run      *)
(* two_processes.)                                                         *)
THEOREM CandidatesHearTheirHistory ==
  ASSUME NumProcesses = 1, NumLayers >= 2
  PROVE  Spec => []HearsItsHistory
<1>1. GraphInv /\ HeardInv => HearsItsHistory
  BY AllHeardIn
<1>2. BatchInv /\ LaidInv /\ GraphInv /\ HeardInv /\ [Next]_vars => HeardInv'
  BY NextHeard
<1>. QED
  BY <1>1, <1>2, InitHeard, GraphsInvariant, PTL DEF Spec
=============================================================================
