---------------------------- MODULE MCNegatives -----------------------------
(* Negatives for one user: eight movies, four of them recommended, and     *)
(* ratings before, at and after the record's time, out of order, at equal  *)
(* times and in both files; for some users too few movies are left.        *)
EXTENDS Negatives

Rate(m, t) == [movie |-> m, time |-> t]

MCCatalog == 1 .. 8
MCRecommended == <<1, 2, 3, 4>>

LikedFiles == {<<>>, <<Rate(5, 1)>>, <<Rate(1, 2), Rate(5, 1)>>,
               <<Rate(6, 2), Rate(5, 2), Rate(8, 3)>>, <<Rate(2, 4), Rate(5, 1), Rate(1, 1)>>}
DislikedFiles == {<<>>, <<Rate(3, 2)>>, <<Rate(4, 2), Rate(7, 1)>>,
                  <<Rate(7, 2), Rate(3, 1), Rate(4, 4)>>}

Movies(file) == {r.movie : r \in ToSet(file)}

MCDataSets ==
  {d \in [known : BOOLEAN, liked : LikedFiles, disliked : DislikedFiles,
          movie : {1, 8}, time : {3}] :
     \A r \in ToSet(d.liked) : r.movie = d.movie <=> r.time = d.time}
=============================================================================
