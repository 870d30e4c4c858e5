----------------------------- MODULE Retrieval -----------------------------
(***************************************************************************)
(* How the chunks are chosen that a question is answered from              *)
(* (utils/hybrid_search.go): two rankings of chunks, by meaning and by     *)
(* words, are fused into one by the places a chunk has in them; a search   *)
(* of the whole library then adds what readers think of a document, and    *)
(* spreads the answer over documents.                                      *)
(*                                                                         *)
(* Scores are numbers of parts of Whole, which every divisor that occurs   *)
(* divides, so that none is rounded.  sort.Slice and the order of a Go map *)
(* leave chunks with equal scores in any order.                            *)
(***************************************************************************)
EXTENDS Naturals, Sequences, FiniteSets

CONSTANTS
    Chunks, Documents,
    DocOf,          \* the document of a chunk
    Smoothing,      \* k of ReciprocalRankFusion (60)
    Whole,          \* the parts of one
    TopK,           \* chunks wanted (5, 8 or 12)
    PerDocument,    \* maxPerDoc (3)
    Boosts          \* the parts of Whole that upvotes and queries may add

Depth == 2 * TopK           \* chunks asked of each ranking

(* That two shares make more than one, whatever the places, holds because  *)
(* both rankings are asked for few enough chunks.                          *)
RetrievalAssumption ==
    /\ IsFiniteSet(Chunks) /\ DocOf \in [Chunks -> Documents]
    /\ Smoothing \in Nat /\ TopK \in Nat \ {0} /\ PerDocument \in Nat \ {0}
    /\ Boosts \subseteq Nat
    /\ Depth <= Smoothing + 1
    /\ Whole \in Nat \ {0}
    /\ \A p \in 1..Depth : (Smoothing + p) * (Whole \div (Smoothing + p)) = Whole

VARIABLES
    scope,          \* HybridSearch of a document or collection, or GlobalHybridSearch
    step,
    vector, fts,    \* the two rankings
    score,
    boost,          \* of each document
    fused,          \* history: what ReciprocalRankFusion gave
    results

vars == <<scope, step, vector, fts, score, boost, fused, results>>

Elements(s) == {s[i] : i \in DOMAIN s}
Distinct(s) == \A i, j \in DOMAIN s : s[i] = s[j] => i = j
Rankings == UNION {{s \in [1..n -> Chunks] : Distinct(s)} :
                     n \in 0..(IF Depth < Cardinality(Chunks) THEN Depth ELSE Cardinality(Chunks))}

Init ==
    /\ scope \in {"document", "library"}
    /\ step = "vector" /\ vector = << >> /\ fts = << >>
    /\ score = [c \in Chunks |-> 0]
    /\ boost \in [Documents -> IF scope = "library" THEN Boosts ELSE {0}]
    /\ fused = << >> /\ results = << >>

Goes(from, to) == step = from /\ step' = to

(* The best chunks by meaning; a query that fails gives none.              *)
VectorSearch ==
    /\ Goes("vector", "fts")
    /\ vector' \in Rankings
    /\ UNCHANGED <<scope, fts, score, boost, fused, results>>

(* The best chunks by words; so too.                                       *)
FullTextSearch ==
    /\ Goes("fts", "fuse")
    /\ fts' \in Rankings
    /\ UNCHANGED <<scope, vector, score, boost, fused, results>>

Place(ranking, c) == CHOOSE i \in DOMAIN ranking : ranking[i] = c

(* Mutant of Share: a chunk's place alone.                                 *)
ShareUnsmoothed(ranking, c) ==
    IF c \in Elements(ranking) THEN Whole \div Place(ranking, c) ELSE 0

(* 1 / (k + place).                                                        *)
Share(ranking, c) ==
    IF c \in Elements(ranking) THEN Whole \div (Smoothing + Place(ranking, c)) ELSE 0

(* The orders of a set of chunks in which no score is below a later one.   *)
Sorted(found, scores) ==
    {s \in [1..Cardinality(found) -> found] :
        Distinct(s) /\ \A i \in DOMAIN s : i > 1 => scores[s[i - 1]] >= scores[s[i]]}

Cut(s, n) == SubSeq(s, 1, IF Len(s) < n THEN Len(s) ELSE n)

ReciprocalRankFusion ==
    /\ Goes("fuse", IF scope = "library" THEN "boost" ELSE "answered")
    /\ score' = [c \in Chunks |-> Share(vector, c) + Share(fts, c)]
    /\ \E s \in Sorted(Elements(vector) \cup Elements(fts), score') :
         fused' = Cut(s, IF scope = "library" THEN Depth ELSE TopK)
    /\ results' = fused'
    /\ UNCHANGED <<scope, vector, fts, boost>>

ApplyGlobalSocialBoost ==
    /\ Goes("boost", "spread")
    /\ score' = [c \in Chunks |-> IF c \in Elements(fused) THEN score[c] + boost[DocOf[c]]
                                  ELSE score[c]]
    /\ results' \in Sorted(Elements(fused), score')
    /\ UNCHANGED <<scope, vector, fts, boost, fused>>

(* How many of the document of s[i] are among those before it.             *)
Before(s, i) == Cardinality({j \in 1..(i - 1) : DocOf[s[j]] = DocOf[s[i]]})

(* diversifyChunksByDocument takes the first PerDocument chunks of each    *)
(* document, and then those it passed over until there are enough.         *)
Places(s, taken) ==
    LET upTo[i \in 0..Len(s)] ==
            IF i = 0 THEN << >>
            ELSE IF taken <=> Before(s, i) < PerDocument THEN Append(upTo[i - 1], i)
            ELSE upTo[i - 1]
    IN  upTo[Len(s)]

(* Mutant of Selected: nothing fills up what is passed over.               *)
DropSkipped(s) == Places(s, TRUE)

Selected(s) == Places(s, TRUE) \o Places(s, FALSE)

DiversifyChunksByDocument ==
    /\ Goes("spread", "answered")
    /\ LET order == Selected(results)
       IN  results' = Cut([i \in DOMAIN order |-> results[order[i]]], TopK)
    /\ UNCHANGED <<scope, vector, fts, score, boost, fused>>

Next == VectorSearch \/ FullTextSearch \/ ReciprocalRankFusion
        \/ ApplyGlobalSocialBoost \/ DiversifyChunksByDocument

Spec == Init /\ [][Next]_vars

-----------------------------------------------------------------------------

(* What Rankings has, but told without making the set.                     *)
IsRanking(s) == s \in Seq(Chunks) /\ Distinct(s) /\ Len(s) <= Depth

TypeOK ==
    /\ step \in {"vector", "fts", "fuse", "boost", "spread", "answered"}
    /\ IsRanking(vector) /\ IsRanking(fts) /\ IsRanking(fused) /\ IsRanking(results)
    /\ score \in [Chunks -> Nat]

IsBefore(s, c, d) ==
    /\ c \in Elements(s)
    /\ d \notin Elements(s) \/ Place(s, c) < Place(s, d)

(* The fusion keeps what the rankings agree on: a chunk that is before     *)
(* another in one ranking and not after it in the other is before it, and  *)
(* a chunk that both found is before one that a single ranking found,      *)
(* whatever their places.                                                  *)
FusionAgrees ==
    step # "fuse" /\ fused # << >> =>
        \A c, d \in Elements(vector) \cup Elements(fts) :
            \/ /\ IsBefore(vector, c, d) /\ ~IsBefore(fts, d, c)
            \/ /\ IsBefore(fts, c, d) /\ ~IsBefore(vector, d, c)
            \/ /\ c \in Elements(vector) \cap Elements(fts)
               /\ d \notin Elements(vector) \cap Elements(fts)
            => ~IsBefore(fused, d, c)

(* Answers from the library are spread: a document has more than its share *)
(* only if of every other one all that was found is there, or its share;   *)
(* and as many chunks are given as were found and asked for.               *)
OfDocument(s, d) == {c \in Elements(s) : DocOf[c] = d}
AnswerIsSpread ==
    step = "answered" /\ scope = "library" =>
        /\ Len(results) = IF Len(fused) < TopK THEN Len(fused) ELSE TopK
        /\ \A d, e \in Documents :
             Cardinality(OfDocument(results, d)) > PerDocument =>
                 \/ OfDocument(fused, e) \subseteq Elements(results)
                 \/ Cardinality(OfDocument(results, e)) >= PerDocument

=============================================================================
