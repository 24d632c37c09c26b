---- MODULE Orchestrator ----
(***************************************************************************)
(* The gRPC service of the inference server (orchestrator.rs): predict,    *)
(* predict_diagnostic, approx_nearest_neighbors and ranks_only, running    *)
(* concurrently with update_latest_model_versions and reload_embeddings.   *)
(*                                                                         *)
(* A request that does not pin a ranker version asks for the metadata of   *)
(* the stored latest version each time it needs them, and loads the        *)
(* searcher for each of its two halves, so what it works with can change   *)
(* between its steps.  A metadata lookup is one step here (MetadataCache    *)
(* has its parts); one that has to read the file of a version may fail.    *)
(*                                                                         *)
(* Abstracted: a candidate movie is the user it was found for, so that a   *)
(* candidate list is a sequence of users, and the top k of a chunk of it   *)
(* may come from any user in the chunk; scores, embeddings and histories   *)
(* are left out, and every user has enough unwatched or backfilled movies. *)
(* TensorFlow Serving (TFS) is external: it answers or returns an error.   *)
(***************************************************************************)
EXTENDS Naturals, Sequences

CONSTANTS
    Requests,    \* the requests
    Asks,        \* what one may ask: [kind, users, k, pin]; k, pin: 0 is None;
                 \* the k of ranks_only is the candidates it brings per user
    Updaters,    \* callers of update_latest_model_versions
    MaxQuery,    \* bound: query model versions 1..MaxQuery
    MaxRanker,   \* bound: ranker model versions 1..MaxRanker
    BatchSize,   \* batch_size in the ranker metadata of each version
    NumCandidates, \* num_candidates in the ranker metadata of each version
    MaxEmbeddings, \* bound: generations of the movie embeddings file
    CatalogSize  \* number of movies in each generation

Versions == 1..MaxRanker
Generations == 1..MaxEmbeddings
Kinds == {"predict", "diagnostic", "ann", "ranks_only"}

ASSUME OrchestratorAssumption ==
    /\ MaxQuery \in Nat \ {0} /\ MaxRanker \in Nat \ {0} /\ MaxEmbeddings \in Nat \ {0}
    /\ Asks \subseteq [kind : Kinds, users : Nat \ {0},
                        k : Nat, pin : {0} \cup Versions]
    /\ \A a \in Asks : a.kind = "ranks_only" => a.k # 0
    /\ BatchSize \in [Versions -> Nat \ {0}]
    /\ NumCandidates \in [Versions -> Nat \ {0}]
    /\ CatalogSize \in [Generations -> Nat \ {0}]

VARIABLES
    newest,      \* the newest [query, ranker] versions TFS serves
    stored,      \* query_model_latest_version, ranker_model_latest_version
    updater,     \* each caller's update_latest_model_versions, the last pair told
    embeddings,  \* the generation of the movie embeddings file
    indexFile,   \* the generation persisted_index_path was built from; 0: none
    searcher,    \* the published [catalog, index] generations
    reload,      \* the call of reload_embeddings: its new searcher, if any
    cached,      \* ranker_model_metadata_dict: the versions whose metadata are loaded
    ask,         \* what each request asks
    req          \* the progress of each request

vars == <<newest, stored, updater, embeddings, indexFile, searcher,
          reload, cached, ask, req>>
serverVars == <<newest, stored, updater, embeddings, indexFile,
                searcher, reload, ask>>

Pairs == [query : 1..MaxQuery, ranker : Versions]
Searchers == [catalog : Generations, index : Generations]

\* Searcher::new reads the catalog, and restores the index when its file exists.
Opened(file, generation) ==
    [catalog |-> generation, index |-> IF file = 0 THEN generation ELSE file]

Init ==
    /\ newest \in Pairs /\ stored = newest
    /\ updater = [u \in Updaters |-> [pc |-> "idle", pair |-> newest]]
    /\ embeddings \in Generations
    /\ \E file \in 0..embeddings :
          /\ searcher = Opened(file, embeddings)
          /\ indexFile = searcher.index
    /\ reload = {}
    /\ cached = {1}
    /\ ask \in [Requests -> Asks]
    /\ req = [r \in Requests |->
                [pc |-> "new", lo |-> 0, hi |-> 0, batch |-> 0, k |-> 0,
                 cands |-> <<>>, index |-> 1, catalog |-> 1, scored |-> 0, answer |-> <<>>,
                 seen |-> {}, lost |-> 0, why |-> ""]]

-----------------------------------------------------------------------------
(* Requests. *)

\* get_or_fetch_ranker_metadata: the pinned version, or the stored latest.
RankerVersion(r) == IF ask[r].pin # 0 THEN ask[r].pin ELSE stored.ranker

\* A version that is not cached is read from its file and kept, ...
Fetched(r) == cached' = cached \cup {RankerVersion(r)}

\* ... or its file cannot be read, and the request fails.
MetadataFails(r) ==
    /\ RankerVersion(r) \notin cached
    /\ req' = [req EXCEPT ![r].pc = "failed", ![r].why = "metadata",
                          ![r].lost = RankerVersion(r)]
    /\ UNCHANGED cached

Least(m, n) == IF m < n THEN m ELSE n

\* The candidate lists of users lo + 1 .. hi, k for each, one after the other.
CandidatesOf(lo, hi, k) ==
    [p \in 1..((hi - lo) * k) |-> lo + 1 + ((p - 1) \div k)]

\* The users the candidates of each full chunk of size c were found for.
FullChunks(cands, c) ==
    [b \in 1..(Len(cands) \div c) |->
        {cands[p] : p \in ((b - 1) * c + 1)..(b * c)}]

End(r, outcome, why) ==
    req' = [req EXCEPT ![r].pc = outcome, ![r].why = why]

\* Mutant: the request is never cut.
PlanWhole(r) ==
    /\ req[r].pc = "new" /\ ask[r].kind \in {"predict", "diagnostic"}
    /\ LET v == RankerVersion(r)
       IN \/ MetadataFails(r)
          \/ /\ Fetched(r)
             /\ req' = [req EXCEPT
                  ![r].pc = "ann", ![r].batch = BatchSize[v], ![r].seen = @ \cup {v},
                  ![r].k = ask[r].k, ![r].hi = ask[r].users]
    /\ UNCHANGED serverVars

\* predict, predict_diagnostic: whole when the request fills a batch exactly,
\* else in chunks of batch_size, which drop k.
Plan(r) ==
    /\ req[r].pc = "new" /\ ask[r].kind \in {"predict", "diagnostic"}
    /\ LET v == RankerVersion(r)
           whole == ask[r].users = BatchSize[v]
       IN \/ MetadataFails(r)
          \/ /\ Fetched(r)
             /\ req' = [req EXCEPT
                  ![r].pc = "ann", ![r].batch = BatchSize[v], ![r].seen = @ \cup {v},
                  ![r].k = IF whole THEN ask[r].k ELSE 0,
                  ![r].hi = Least(ask[r].users, BatchSize[v])]
    /\ UNCHANGED serverVars

PlanAnn(r) ==
    /\ req[r].pc = "new" /\ ask[r].kind = "ann"
    /\ req' = [req EXCEPT ![r].pc = "ann", ![r].k = ask[r].k,
                          ![r].hi = ask[r].users]
    /\ UNCHANGED <<serverVars, cached>>

\* ranks_only: the request brings its candidates; its users may be unknown.
PlanRanksOnly(r) ==
    /\ req[r].pc = "new" /\ ask[r].kind = "ranks_only"
    /\ \/ req' = [req EXCEPT
             ![r].pc = "embed", ![r].hi = ask[r].users,
             ![r].cands = CandidatesOf(0, ask[r].users, ask[r].k)]
       \/ End(r, "failed", "users")
    /\ UNCHANGED <<serverVars, cached>>

\* _approx_nearest_neighbors loads the searcher, then awaits the embeddings.
AnnLoad(r) ==
    /\ req[r].pc = "ann"
    /\ req' = [req EXCEPT ![r].pc = "embed", ![r].index = searcher.index]
    /\ UNCHANGED <<serverVars, cached>>

Embedded(r) ==
    /\ req[r].pc = "embed"
    /\ \/ req' = [req EXCEPT ![r].pc =
                    IF ask[r].kind = "ranks_only" THEN "load" ELSE "search"]
       \/ End(r, "failed", "embedding")
    /\ UNCHANGED <<serverVars, cached>>

\* _approx_nearest_neighbors_impl: k candidates for each user.
Search(r) ==
    /\ req[r].pc = "search"
    /\ LET v == RankerVersion(r)
           k == IF req[r].k # 0 THEN req[r].k ELSE NumCandidates[v]
           found == CandidatesOf(req[r].lo, req[r].hi, k)
       IN \/ MetadataFails(r)
          \/ /\ Fetched(r)
             /\ \/ /\ ask[r].kind = "ann"
                   /\ req' = [req EXCEPT ![r].pc = "done", ![r].seen = @ \cup {v},
                                         ![r].answer = FullChunks(found, k)]
                \/ /\ ask[r].kind # "ann"
                   /\ req' = [req EXCEPT ![r].pc = "load", ![r].seen = @ \cup {v},
                                         ![r].cands = found]
                \/ End(r, "failed", "search")
    /\ UNCHANGED serverVars

\* The chunk is refused when it does not fit the batch of the version.
CheckBatch(r, next) ==
    LET v == RankerVersion(r)
        fits == req[r].hi - req[r].lo <= BatchSize[v]
    IN req' = [req EXCEPT
         ![r].seen = @ \cup {v}, ![r].scored = NumCandidates[v],
         ![r].pc = IF fits THEN next ELSE "failed",
         ![r].why = IF fits THEN "" ELSE "batch"]

\* _make_ranker_diagnostic_request and _make_ranker_request look the metadata
\* up before they load the searcher; the former checks the batch now.
RankLookup(r) ==
    /\ req[r].pc = "load"
    /\ \/ MetadataFails(r)
       \/ /\ Fetched(r)
          /\ IF ask[r].kind = "diagnostic"
             THEN CheckBatch(r, "open")
             ELSE req' = [req EXCEPT ![r].pc = "open", ![r].seen = @ \cup {RankerVersion(r)}]
    /\ UNCHANGED serverVars

\* The searcher again.
RankLoad(r) ==
    /\ req[r].pc = "open"
    /\ req' = [req EXCEPT ![r].pc = "graph", ![r].catalog = searcher.catalog]
    /\ UNCHANGED <<serverVars, cached>>

\* The graph slices the embedding of every candidate out of the catalog that
\* was loaded: a candidate past its end panics.  The candidates of ranks_only
\* are the caller's, taken to be movies of the catalog.
Covered(r) ==
    \/ ask[r].kind = "ranks_only"
    \/ CatalogSize[req[r].index] <= CatalogSize[req[r].catalog]

\* Up to the call of TFS; _make_ranker_request_impl looks the metadata up again
\* and checks the batch now.
BuildGraph(r) ==
    /\ req[r].pc = "graph"
    /\ LET next == IF Covered(r) THEN "rank" ELSE "panicked"
       IN \/ /\ ask[r].kind = "diagnostic"
             /\ req' = [req EXCEPT ![r].pc = next]
             /\ UNCHANGED cached
          \/ /\ ask[r].kind # "diagnostic"
             /\ \/ MetadataFails(r)
                \/ Fetched(r) /\ CheckBatch(r, next)
    /\ UNCHANGED serverVars

\* Mutant: an error of TFS is answered by another try.
RankedRetries(r) ==
    /\ req[r].pc = "rank"
    /\ \/ req' = [req EXCEPT ![r].pc = "topk"]
       \/ req' = [req EXCEPT ![r].pc = "load"]
    /\ UNCHANGED <<serverVars, cached>>

Ranked(r) ==
    /\ req[r].pc = "rank"
    /\ \/ /\ ask[r].kind = "ranks_only"
          /\ req' = [req EXCEPT ![r].pc = "done",
                       ![r].answer = FullChunks(req[r].cands, ask[r].k)]
       \/ /\ ask[r].kind # "ranks_only"
          /\ req' = [req EXCEPT ![r].pc = "topk"]
       \/ End(r, "failed", "ranking")
    /\ UNCHANGED <<serverVars, cached>>

\* Mutant: a last chunk that is not full is left out.
NextChunkFullOnly(r, v, top) ==
    LET last == req[r].hi + req[r].batch > ask[r].users
    IN req' = [req EXCEPT
         ![r].answer = @ \o top, ![r].seen = @ \cup {v},
         ![r].pc = IF last THEN "done" ELSE "ann",
         ![r].lo = IF last THEN @ ELSE req[r].hi,
         ![r].hi = Least(@ + req[r].batch, ask[r].users)]

\* The loop over the chunks of predict and predict_diagnostic goes on.
NextChunk(r, v, top) ==
    LET last == req[r].hi = ask[r].users
    IN req' = [req EXCEPT
         ![r].answer = @ \o top, ![r].seen = @ \cup {v},
         ![r].pc = IF last THEN "done" ELSE "ann",
         ![r].lo = IF last THEN @ ELSE req[r].hi,
         ![r].hi = Least(@ + req[r].batch, ask[r].users)]

\* get_top_k_desc_scores cuts the candidates into chunks of num_candidates and
\* drops what is left over.
TopK(r) ==
    /\ req[r].pc = "topk" /\ ask[r].kind = "predict"
    /\ LET v == RankerVersion(r)
       IN \/ MetadataFails(r)
          \/ Fetched(r) /\ NextChunk(r, v, FullChunks(req[r].cands, NumCandidates[v]))
    /\ UNCHANGED serverVars

\* get_top_k_desc_diagnostic takes the chunk of each user; it panics when the
\* candidates, or the scores kept for the version the graph was built with, end
\* before it.  A release build has no debug_assert.
TopKDiagnostic(r) ==
    /\ req[r].pc = "topk" /\ ask[r].kind = "diagnostic"
    /\ LET n == req[r].hi - req[r].lo
           v == RankerVersion(r)
           chunks == FullChunks(req[r].cands, NumCandidates[v])
       IN \/ MetadataFails(r)
          \/ /\ Fetched(r)
             /\ IF n <= Len(chunks) /\ NumCandidates[v] <= req[r].scored
                THEN NextChunk(r, v, SubSeq(chunks, 1, n))
                ELSE req' = [req EXCEPT ![r].pc = "panicked", ![r].seen = @ \cup {v}]
    /\ UNCHANGED serverVars

Serve(r) ==
    \/ Plan(r) \/ PlanAnn(r) \/ PlanRanksOnly(r)
    \/ AnnLoad(r) \/ Embedded(r) \/ Search(r)
    \/ RankLookup(r) \/ RankLoad(r) \/ BuildGraph(r) \/ Ranked(r)
    \/ TopK(r) \/ TopKDiagnostic(r)

-----------------------------------------------------------------------------
(* update_latest_model_versions and reload_embeddings. *)

\* TFS loads a newer version of one of the models.
Publish ==
    /\ \/ newest.query < MaxQuery
          /\ newest' = [newest EXCEPT !.query = @ + 1]
       \/ newest.ranker < MaxRanker
          /\ newest' = [newest EXCEPT !.ranker = @ + 1]
    /\ UNCHANGED <<stored, updater, embeddings, indexFile, searcher,
                   reload, cached, ask, req>>

\* try_join!: both answers are in when the call goes on.
FetchVersions(u) ==
    /\ updater[u].pc = "idle"
    /\ updater' = [updater EXCEPT ![u] = [pc |-> "storeQuery", pair |-> newest]]
    /\ UNCHANGED <<newest, stored, embeddings, indexFile, searcher, reload, cached, ask, req>>

StoreQuery(u) ==
    /\ updater[u].pc = "storeQuery"
    /\ stored' = [stored EXCEPT !.query = updater[u].pair.query]
    /\ updater' = [updater EXCEPT ![u].pc = "storeRanker"]
    /\ UNCHANGED <<newest, embeddings, indexFile, searcher, reload, cached, ask, req>>

StoreRanker(u) ==
    /\ updater[u].pc = "storeRanker"
    /\ stored' = [stored EXCEPT !.ranker = updater[u].pair.ranker]
    /\ updater' = [updater EXCEPT ![u].pc = "idle"]
    /\ UNCHANGED <<newest, embeddings, indexFile, searcher, reload, cached, ask, req>>

\* Training exports a new movie embeddings file.
ExportEmbeddings ==
    /\ embeddings < MaxEmbeddings
    /\ embeddings' = embeddings + 1
    /\ UNCHANGED <<newest, stored, updater, indexFile, searcher,
                   reload, cached, ask, req>>

\* The blocking task of reload_embeddings.
ReloadOpen ==
    /\ reload = {}
    /\ reload' = {Opened(indexFile, embeddings)}
    /\ UNCHANGED <<newest, stored, updater, embeddings, indexFile,
                   searcher, cached, ask, req>>

ReloadSwap ==
    /\ \E s \in reload : searcher' = s
    /\ reload' = {}
    /\ UNCHANGED <<newest, stored, updater, embeddings, indexFile, cached, ask, req>>

Update(u) == FetchVersions(u) \/ StoreQuery(u) \/ StoreRanker(u)

Next ==
    \/ \E r \in Requests : Serve(r)
    \/ \E u \in Updaters : Update(u)
    \/ Publish \/ ExportEmbeddings \/ ReloadOpen \/ ReloadSwap

\* A request that is being served goes on, TFS included; nobody has to update.
Fairness == \A r \in Requests : WF_vars(Serve(r))

Spec == Init /\ [][Next]_vars /\ Fairness

-----------------------------------------------------------------------------
\* The request met one number of candidates, and asked for no other.
OneShape(r) ==
    /\ \A v, w \in req[r].seen : NumCandidates[v] = NumCandidates[w]
    /\ ask[r].k # 0 /\ ask[r].kind \in {"predict", "diagnostic"}
         => \A v \in req[r].seen :
              BatchSize[v] = ask[r].users => NumCandidates[v] = ask[r].k

\* A finished request has exactly one list of movies for each of its users, in
\* the order asked, each list made from the candidates of that user alone:
\* chunking by batch_size and cutting by num_candidates undo each other over
\* versions that change the batch size under the request.
AnswerPerUser ==
    \A r \in Requests : req[r].pc = "done" /\ OneShape(r) =>
        req[r].answer = [i \in 1..ask[r].users |-> {i}]

\* predict splits what does not fit: a request of any size is turned away for
\* its batch only when the batch size shrank while it was being served.
ChunksFit ==
    \A r \in Requests :
        req[r].why = "batch" /\ ask[r].kind # "ranks_only" =>
            \E v \in req[r].seen : BatchSize[v] < req[r].batch

\* Movies are added to the catalog, never taken out: what the persisted index
\* needs of the embeddings that are loaded beside it.
CatalogNeverShrinks ==
    \A g, h \in Generations : g <= h => CatalogSize[g] <= CatalogSize[h]

\* A handler panics only when the number of candidates changed under it (or
\* was asked to differ), whatever is reloaded meanwhile.
NoPanic ==
    \A r \in Requests : req[r].pc = "panicked" =>
        ask[r].kind = "diagnostic" /\ ~ OneShape(r)

\* Metadata that were read stay: what a request was told of once it is told of
\* again, so that it fails for metadata only at a version it has not met - a
\* pinned one before it did anything, another one at a version stored meanwhile.
MetadataKept ==
    \A r \in Requests :
        req[r].why = "metadata" =>
            /\ req[r].lost \notin req[r].seen
            /\ ask[r].pin # 0 => req[r].seen = {}

\* What a failure that is no error of TFS, of the search or of the request
\* itself comes from, whatever is published and reloaded meanwhile: a batch size
\* that shrank, a number of candidates that changed, or a version whose metadata
\* file could not be read the first time it was needed.  (Not that a request
\* keeps one searcher while embeddings are reloaded, as orchestrator.rs 313-314
\* has it: each half of it loads the current one, and NoPanic holds over that.)
FailuresExplained == ChunksFit /\ NoPanic /\ MetadataKept

\* Every request ends, by an answer, an error or a panic.
RequestsEnd ==
    \A r \in Requests : <>(req[r].pc \in {"done", "failed", "panicked"})

=============================================================================
