---------------------------- MODULE Fingerprints ----------------------------
(***************************************************************************)
(* Votes, fingerprints and their similarity, as failure_memory.py computes *)
(* them.  A text is the sequence of its content words, a fingerprint the   *)
(* set of its most frequent ones.                                          *)
(***************************************************************************)
EXTENDS Rankings, FiniteSetsExt, SequencesExt

Occurrences(s, x) == Cardinality({n \in DOMAIN s : s[n] = x})
FirstPlace(s, x) == Min({n \in DOMAIN s : s[n] = x})

\* Counter.most_common: the more frequent first, the earlier seen among equals.
Outvotes(s, x, y) ==
  \/ Occurrences(s, x) > Occurrences(s, y)
  \/ Occurrences(s, x) = Occurrences(s, y) /\ FirstPlace(s, x) < FirstPlace(s, y)

MostCommon(s) == CHOOSE x \in ToSet(s) : \A y \in ToSet(s) \ {x} : Outvotes(s, x, y)

MostFrequent(words, k) ==
  {w \in ToSet(words) :
     Cardinality({v \in ToSet(words) : Outvotes(words, v, w)}) < k}

\* The overlap of two fingerprints over the larger one, as a fraction.
Similarity(f, g) ==
  <<Cardinality(f \cap g), Max({Cardinality(f), Cardinality(g)})>>

Exceeds(x, y) == x[1] * y[2] > y[1] * x[2]

Related(f, g) == f \cap g # {}

\* Of the keys that share a word with f, the places of the k most similar, the
\* earlier of equals first.
MostSimilar(keys, f, k) ==
  LET Sim(i) == Similarity(keys[i], f)
      related == {i \in DOMAIN keys : Related(keys[i], f)}
      closer == {p \in related \X related :
                   \/ Exceeds(Sim(p[1]), Sim(p[2]))
                   \/ ~Exceeds(Sim(p[2]), Sim(p[1])) /\ p[1] < p[2]}
  IN  SubSeq(Ranked(related, closer), 1, Min({k, Cardinality(related)}))

FirstDistinct(s, k) ==
  LET firsts == {i \in DOMAIN s : \A j \in 1..(i - 1) : s[j] # s[i]}
  IN  SubSeq(AtPlaces(s, firsts), 1, Min({k, Cardinality(firsts)}))
=============================================================================
