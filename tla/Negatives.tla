----------------------------- MODULE Negatives ------------------------------
(***************************************************************************)
(* One training record on its way through the transforms that choose what  *)
(* it is trained with: the user's history before it                        *)
(* (RatingsHistoryTransform.py, UserHistory.py, util.build_history_lookup) *)
(* and the negatives it competes with (HardNegativeSamplingTransform.py,   *)
(* util_numba.py, RecommendedMovies.py).  Rows of a batch are computed     *)
(* independently, each from its own random seed, so one row is all.        *)
(*                                                                         *)
(* Simplifications.  Ratings are left out of the history, movies and their *)
(* times kept.  What a shuffle makes irrelevant, the order of the easy     *)
(* negatives and of the negatives of one kind, is not told apart: what is  *)
(* drawn from is a set.                                                    *)
(***************************************************************************)
EXTENDS Integers, Sequences, FiniteSets, SequencesExt, FiniteSetsExt

CONSTANTS
  Catalog,        \* all_movie_ids
  Recommended,    \* the user's row of the recommendations, best first
  NumCandidates,  \* config['num_candidates']
  MaxHistory,     \* config['max_history']
  DataSets        \* [known, liked, disliked, movie, time] a record may meet

Pad == -1   \* pad_value
Never == 99 \* ts_pad_value: a time after all others

(* The files split by rating what MovieLens has of the user, one rating for*)
(* a movie: a movie is in one place, and the record's own at its time.     *)
IsDataSet(d) ==
  /\ d.known \in BOOLEAN /\ d.movie \in Catalog /\ d.time \in 0 .. Never - 1
  /\ \A file \in {d.liked, d.disliked, d.liked \o d.disliked} :
       /\ file \in Seq([movie : Catalog, time : 0 .. Never - 1])
       /\ \A i, j \in DOMAIN file : file[i].movie = file[j].movie => i = j
       /\ \A i \in DOMAIN file : file[i].movie = d.movie => file[i].time = d.time

(* A movie is recommended once to a user.                                  *)
ASSUME NegativesAssumption ==
  /\ Catalog \subseteq Nat \ {0} /\ IsFiniteSet(Catalog)
  /\ Recommended \in Seq(Catalog) /\ IsInjective(Recommended)
  /\ NumCandidates \in Nat \ {0} /\ MaxHistory \in Nat
  /\ \A d \in DataSets : IsDataSet(d)

NumNegatives == NumCandidates - 1
Least(a, b) == IF a < b THEN a ELSE b

VARIABLES
  data,       \* the files of ratings and the record
  strategy,   \* "mixed_hard" or "worst_recommended"
  stage,      \* what is done next
  history,    \* history_movie_ids
  watched,    \* movie_histories: the user's whole past
  disliked,   \* movie_histories_disliked
  easy,       \* negatives of type 4
  pool,       \* the negatives chosen so far
  candidates, labels

vars == <<data, strategy, stage, history, watched, disliked, easy, pool, candidates, labels>>

Stages == {"history", "lookup", "easy", "pool_1", "pool_2", "pool_3", "pool_4",
           "assemble", "shuffle", "done"}

-----------------------------------------------------------------------------
(* Rows are padded at the end; a loop over one stops at the first Pad.     *)
Upto(row) == {row[i] : i \in {j \in DOMAIN row : \A h \in 1 .. j : row[h] # Pad}}

(* row_wise_intersect and row_wise_sortedset_subtract.                     *)
Intersect(values, row) == values \cap Upto(row)
Subtract(values, row) == values \ Upto(row)

-----------------------------------------------------------------------------
(* UserHistory.                                                            *)

(* Mutant: files follow one another, each sorted or not.                   *)
InFileOrder(ratings) == ratings

(* build_history_lookup: the ratings of all files, stably sorted by time.  *)
ByTime(ratings) ==
  LET before(i, j) == \/ ratings[i].time < ratings[j].time
                      \/ ratings[i].time = ratings[j].time /\ i < j
      rank(j) == Cardinality({i \in DOMAIN ratings : before(i, j)}) + 1
  IN  [r \in DOMAIN ratings |-> ratings[CHOOSE j \in DOMAIN ratings : rank(j) = r]]

(* The user's line of the dense arrays, a user nobody knows having the     *)
(* empty line 0; as wide as the longest history, at least max_history.     *)
UserRow(ratings) == IF data.known THEN ByTime(ratings) ELSE <<>>
Width(ratings) == IF Len(ratings) > MaxHistory THEN Len(ratings) ELSE MaxHistory

Valid(r, time) == r.time < time /\ r.time < Never

(* get_history_with_timestamps_before_timestamp, by its running counts:    *)
(* occ numbers the valid entries, the last maxHist of them are recent, and *)
(* each goes to the column its number from the end says.                   *)
Before(row, time, maxHist) ==
  LET valid(i) == Valid(row[i], time)
      occ(i) == Cardinality({j \in 1 .. i : valid(j)})
      total == Cardinality({j \in DOMAIN row : valid(j)})
      recent(i) == valid(i) /\ occ(i) > total - maxHist
      recentOcc(i) == Cardinality({j \in 1 .. i : recent(j)})
      count == Least(total, maxHist)
      column(i) == count - recentOcc(i)
  IN  [c \in 1 .. maxHist |->
        IF c > count THEN Pad
        ELSE row[CHOOSE i \in DOMAIN row : recent(i) /\ column(i) = c - 1].movie]

AllRatings == data.liked \o data.disliked

(* The positive comes first, so that the padding stays at the end.         *)
WatchedAndPositive == <<data.movie>> \o watched

-----------------------------------------------------------------------------
(* RecommendedMovies.                                                      *)

(* A recommendation carries the time the user rated it, or Never (external *)
(* data); it is unseen when that is after the record.                      *)
SeenAt(m) ==
  LET at == {r.time : r \in {q \in ToSet(AllRatings) : q.movie = m}}
  IN  IF m = data.movie THEN data.time
      ELSE IF at = {} THEN Never ELSE CHOOSE t \in at : TRUE
Unseen(m) == SeenAt(m) > data.time

(* Mutant: what was seen is masked where it stands.                        *)
UnseenInPlace(movies, k) ==
  {movies[i] : i \in {j \in 1 .. k : \A h \in 1 .. j : Unseen(movies[h])}}

(* get_unseen_movies: the unseen ones moved to the front, the first k.     *)
FirstUnseen(movies, k) ==
  {movies[i] : i \in {j \in DOMAIN movies :
     Unseen(movies[j]) /\ Cardinality({h \in 1 .. j : Unseen(movies[h])}) <= k}}

(* get_lowest_scoring_unseen_movies: the same from the worst end.          *)
WorstUnseen(k) == FirstUnseen(Reverse(Recommended), k)

LatestK(k) == Least(k, Len(Recommended))

-----------------------------------------------------------------------------
(* HardNegativeSamplingTransform.                                          *)

(* round(n_negs * percent / 100), a half going to the even neighbour.      *)
Rounded(percent) ==
  LET q == (NumNegatives * percent) \div 100
      r == (NumNegatives * percent) % 100
  IN  IF r > 50 \/ (r = 50 /\ q % 2 = 1) THEN q + 1 ELSE q

(* The sources of the pool and how many are taken from each.               *)
Source == IF strategy = "worst_recommended"
  THEN <<Subtract(WorstUnseen(LatestK(2 * NumNegatives)), WatchedAndPositive), {}, {}>>
  ELSE <<Intersect(Upto(Recommended), disliked),
         Subtract(FirstUnseen(Recommended,
                    LatestK(IF NumNegatives > 10 THEN 2 * NumNegatives ELSE 20)),
                  WatchedAndPositive),
         Subtract(Upto(disliked), Recommended)>>

Target == IF strategy = "worst_recommended"
  THEN <<NumNegatives, 0, 0>>
  ELSE <<Rounded(15), Rounded(55), Rounded(15)>>

-----------------------------------------------------------------------------
Init ==
  /\ data \in DataSets
  /\ strategy \in {"mixed_hard", "worst_recommended"}
  /\ stage = "history"
  /\ history = <<>> /\ watched = <<>> /\ disliked = <<>> /\ easy = {} /\ pool = <<>> /\ candidates = <<>> /\ labels = <<>>

(* RatingsHistoryLookupTransform.map.                                      *)
MapHistory ==
  /\ stage = "history"
  /\ history' = Before(UserRow(AllRatings), data.time, MaxHistory)
  /\ stage' = "lookup"
  /\ UNCHANGED <<data, strategy, watched, disliked, easy, pool, candidates, labels>>

(* sample_candidates begins: the whole past, and what of it was disliked.  *)
LookupPast ==
  /\ stage = "lookup"
  /\ watched' = Before(UserRow(AllRatings), data.time, Width(AllRatings))
  /\ disliked' = Before(UserRow(data.disliked), data.time, Width(data.disliked))
  /\ stage' = "easy"
  /\ UNCHANGED <<data, strategy, history, easy, pool, candidates, labels>>

(* Mutant: a movie that was drawn before is drawn, and counted, no more.   *)
DrawAgain ==
  /\ stage = "easy" /\ Cardinality(easy) < NumNegatives
  /\ \E m \in Catalog \ Upto(WatchedAndPositive) :
       /\ m \in easy
       /\ easy' = easy \cup {m}
  /\ UNCHANGED <<data, strategy, stage, history, watched, disliked, pool, candidates, labels>>

(* generate_type_4_negatives: a draw that is kept.  One that is rejected   *)
(* changes nothing.                                                        *)
DrawEasy ==
  /\ stage = "easy" /\ Cardinality(easy) < NumNegatives
  /\ \E m \in Catalog \ Upto(WatchedAndPositive) :
       /\ m \notin easy
       /\ easy' = easy \cup {m}
  /\ UNCHANGED <<data, strategy, stage, history, watched, disliked, pool, candidates, labels>>

EasyDrawn ==
  /\ stage = "easy" /\ Cardinality(easy) = NumNegatives
  /\ stage' = "pool_1"
  /\ UNCHANGED <<data, strategy, history, watched, disliked, easy, pool, candidates, labels>>

(* The values that are not in the pool yet.                                *)
Fresh(values) == values \ ToSet(pool)

(* _extract_shuffle_and_append: any maxTake of the fresh values, or as     *)
(* many as there are or fit.                                               *)
AppendShuffled(values, maxTake) ==
  \E fresh \in {Fresh(values)} :
    \E take \in kSubset(Least(Least(maxTake, NumNegatives - Len(pool)),
                              Cardinality(fresh)), fresh) :
      pool' = pool \o SetToSeq(take)

(* build_negative_pool, one source after the other; the easy negatives     *)
(* fill what remains.                                                      *)
FillFrom(i) ==
  /\ stage = <<"pool_1", "pool_2", "pool_3">>[i]
  /\ AppendShuffled(Source[i], Target[i])
  /\ stage' = <<"pool_2", "pool_3", "pool_4">>[i]
  /\ UNCHANGED <<data, strategy, history, watched, disliked, easy, candidates, labels>>

FillUp ==
  /\ stage = "pool_4"
  /\ AppendShuffled(easy, NumNegatives - Len(pool))
  /\ stage' = "assemble"
  /\ UNCHANGED <<data, strategy, history, watched, disliked, easy, candidates, labels>>

(* The positive and the negatives in one row; a place that is still padded *)
(* gets any movie of the catalog.                                          *)
Assemble ==
  /\ stage = "assemble"
  /\ \E refill \in [1 .. NumNegatives - Len(pool) -> Catalog] :
       candidates' = <<data.movie>> \o pool \o refill
  /\ labels' = [i \in 1 .. NumCandidates |-> IF i = 1 THEN 1 ELSE 0]
  /\ stage' = "shuffle"
  /\ UNCHANGED <<data, strategy, history, watched, disliked, easy, pool>>

MoveFirst(s, place) == InsertAt(Tail(s), place, Head(s))

(* Mutant: each row is shuffled for itself.                                *)
ShuffleApart ==
  /\ stage = "shuffle"
  /\ \E i, j \in 1 .. NumCandidates :
       /\ candidates' = MoveFirst(candidates, i)
       /\ labels' = MoveFirst(labels, j)
  /\ stage' = "done"
  /\ UNCHANGED <<data, strategy, history, watched, disliked, easy, pool>>

(* simultaneous_shuffle: both rows by the same swaps.                      *)
Shuffle ==
  /\ stage = "shuffle"
  /\ \E i \in 1 .. NumCandidates :
       /\ candidates' = MoveFirst(candidates, i)
       /\ labels' = MoveFirst(labels, i)
  /\ stage' = "done"
  /\ UNCHANGED <<data, strategy, history, watched, disliked, easy, pool>>

Next ==
  \/ MapHistory \/ LookupPast \/ DrawEasy \/ EasyDrawn
  \/ \E i \in 1 .. 3 : FillFrom(i)
  \/ FillUp \/ Assemble \/ Shuffle

Spec == Init /\ [][Next]_vars

(* A random generator that is asked for ever comes up with every movie: as *)
(* long as one is acceptable, one is accepted.                             *)
FairSpec == Spec /\ WF_vars(Next)

-----------------------------------------------------------------------------
Sampled == stage = "done"
Negative(i) == labels[i] = 0
Rated(ratings) == {[movie |-> r.movie, time |-> r.time] : r \in ToSet(ratings)}
RatedBefore(ratings) ==
  IF data.known THEN {r.movie : r \in {q \in Rated(ratings) : q.time < data.time}} ELSE {}
DislikedBefore == RatedBefore(data.disliked)
LikedBefore == RatedBefore(data.liked)

(* The history a record is trained with is its user's past and nothing     *)
(* else: only movies rated strictly before it, and of those the latest,    *)
(* the latest first, as many as fit, padding behind them                   *)
(* (UserHistory.py 117-146).                                               *)
HistoryIsRecentPast ==
  stage = "lookup" =>
    LET past == {r \in Rated(AllRatings) : data.known /\ r.time < data.time}
        kept == {r \in past : \E i \in DOMAIN history : history[i] = r.movie}
        time(m) == (CHOOSE r \in past : r.movie = m).time
        n == Cardinality(kept)
    IN  /\ Len(history) = MaxHistory
        /\ n = Least(Cardinality(past), MaxHistory)
        /\ \A i \in n + 1 .. MaxHistory : history[i] = Pad
        /\ \A i \in 1 .. n : \A j \in 1 .. i : time(history[i]) <= time(history[j])
        /\ \A r \in past \ kept, q \in kept : r.time <= q.time

(* The row has every candidate once, the record's own movie included: none *)
(* of the four sources brings what is there already, although they overlap. *)
CandidatesDistinct == Sampled => IsInjective(candidates) /\ Len(candidates) = NumCandidates

(* Exactly the record's movie is labelled relevant.                        *)
LabelFollowsPositive ==
  Sampled => \A i \in 1 .. NumCandidates : labels[i] = 1 <=> candidates[i] = data.movie

(* No movie the user had watched and liked is trained as irrelevant.       *)
(* Disliked ones are, as many as their two quotas say: those recommended   *)
(* and those not (HardNegativeSamplingTransform.py 142-161).               *)
WatchedNegativesAreDisliked ==
  Sampled =>
    LET negatives == {candidates[i] : i \in {j \in 1 .. NumCandidates : Negative(j)}}
        quota == IF strategy = "worst_recommended" THEN 0
                 ELSE Least(Target[1], Cardinality(DislikedBefore \cap ToSet(Recommended)))
                      + Least(Target[3], Cardinality(DislikedBefore \ ToSet(Recommended)))
    IN  /\ negatives \cap LikedBefore = {}
        /\ Cardinality(negatives \cap DislikedBefore) = quota

(* What the user had not seen of the recommendations is used before an     *)
(* easy negative is: as much of it as its quota allows                     *)
(* (HardNegativeSamplingTransform.py 149-154, RecommendedMovies.py 83-87). *)
UnseenBeforeEasy ==
  Sampled =>
    LET unseen == {m \in ToSet(Recommended) :
                     m # data.movie /\ m \notin LikedBefore \cup DislikedBefore
                     /\ ~\E r \in Rated(AllRatings) :
                          r.movie = m /\ r.time <= data.time}
        quota == IF strategy = "worst_recommended" THEN Target[1] ELSE Target[2]
        used == ToSet(candidates) \cap unseen
    IN  Cardinality(used) >= quota \/ used = unseen

(* The negatives are as hard as the strategy says, and no harder than the  *)
(* user's own taste allows.                                                *)
HardNegativesFirst == WatchedNegativesAreDisliked /\ UnseenBeforeEasy

(* The refill with random movies of the catalog, which knows neither the   *)
(* history nor the other candidates, is never reached: the pool is full    *)
(* (HardNegativeSamplingTransform.py 178-182).                             *)
PoolIsFull == stage = "assemble" => Len(pool) = NumNegatives

(* The row a record is trained with: complete, without repetition and      *)
(* rightly labelled.                                                       *)
RowIsSound == CandidatesDistinct /\ LabelFollowsPositive /\ PoolIsFull

(* A record whose user has not watched nearly the whole catalog gets its   *)
(* negatives.  (For one that has, the rejection loop never ends, also when *)
(* hard negatives would have sufficed: util_numba.py 246.)                 *)
SamplingEnds ==
  Cardinality(Catalog \ (RatedBefore(AllRatings) \cup {data.movie})) >= NumNegatives
    ~> Sampled
=============================================================================
