---------------------------- MODULE MCEvolution ----------------------------
(* A small instance of Evolution: the initial model, a better one, the best, and
   one that is worse; observations few enough to fill the window. *)
EXTENDS Evolution

CONSTANTS m0, m1, m2, worse, a, b, c

MCModels == {m0, m1, m2, worse}
MCQuality == [m \in MCModels |->
                 CASE m = worse -> -1 [] m = m0 -> 0 [] m = m1 -> 1 [] m = m2 -> 2]
MCRow == {a, b, c}
MCRequests == {<<b, c>>}
MCInitialFit == <<a>>
=============================================================================
