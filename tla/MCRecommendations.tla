-------------------------- MODULE MCRecommendations --------------------------
(***************************************************************************)
(* Recommendations with two handlers, over a store that starts empty or    *)
(* with three points, and fees of ratios 2, 8 and 16.                      *)
(***************************************************************************)
EXTENDS Recommendations

Updates == {<<"normal", 0>>, <<"rising", 12>>}
Databases == {<<>>, <<20, 10, 20>>}
Handlers == Permutations(Requests)

(* Bound: an advisory is alone. It shares nothing with recommendations but the
   store and the insights, which it only reads. *)
Apart ==
    \A r, s \in Requests :
        r # s /\ req[r].at \in {"recent", "compared", "advised"} => req[s] = Idle

(* 10000 ln q / ln 20. *)
LnTable ==
    <<0, 2314, 3667, 4628, 5372, 5981, 6496, 6941, 7335, 7686, 8004, 8295, 8562, 8809, 9040, 9255>>
=============================================================================
