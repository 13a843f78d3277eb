------------------------- MODULE MCSkillAbstraction -------------------------
(***************************************************************************)
(* Four cases for SkillAbstraction: two that share both their words, one   *)
(* that overlaps them by half and one apart; fingerprints of two words.    *)
(* A query may name a word of the memory or paraphrase all of it.  Action  *)
(* M is illegal on two of the cases.                                       *)
(***************************************************************************)
EXTENDS SkillAbstraction

CONSTANTS a, b, c, d, q, x1, x2, x3, x4, L, M

FourCases == {x1, x2, x3, x4}
Words == (x1 :> <<a, b>>) @@ (x2 :> <<a, b, a>>) @@ (x3 :> <<c, b>>) @@ (x4 :> <<c, d>>)
Queries == (x1 :> {a, q}) @@ (x2 :> {q}) @@ (x3 :> {b}) @@ (x4 :> {c, d})
Repairs ==
  (x1 :> {<<L, 1>>}) @@ (x2 :> {<<L, 1>>, <<L, 2>>, <<M, 1>>})
    @@ (x3 :> {<<L, 1>>, <<M, 1>>}) @@ (x4 :> {<<L, 1>>})
Actions == <<L, M>>
OneHalf == <<1, 2>>
=============================================================================
