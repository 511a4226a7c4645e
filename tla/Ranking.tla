------------------------------ MODULE Ranking -------------------------------
(***************************************************************************)
(* How a search puts two rankings into one (search/hybrid.py): reciprocal  *)
(* ranks, weighted and added, and a bonus for a title that has the words,  *)
(* read page by page.                                                      *)
(*                                                                         *)
(* Abstractions.  Scores are whole numbers: the fractions times 20 Unit.   *)
(* A title has the words, is the words, or neither.                        *)
(***************************************************************************)
EXTENDS Naturals, Sequences, FiniteSets, FiniteSetsExt

CONSTANTS
    Uid,            \* hits, numbers: ties are broken by uid
    ArmOf,          \* the rankings the two searches may return
    PageSize

VARIABLES
    arms,       \* the two rankings; the vector one may be empty
    title,      \* what each row's title is to the words
    passes,     \* the rows that are there and pass the filters
    pages       \* the pages read so far, in a row

rankingVars == <<arms, title, passes, pages>>

RRF_K == 60
\* A multiple of the denominators of the first three ranks; weights are twentieths.
Unit == (RRF_K + 1) * (RRF_K + 2) * (RRF_K + 3)
W_LEXICAL == 20
W_VECTOR == 16
EXACT_BONUS == 7 * Unit

Init ==
    /\ arms \in [lexical : ArmOf, vector : ArmOf \cup {<<>>}]
    /\ title \in [Uid -> {"other", "has", "is"}]
    /\ passes \in {Uid} \cup {Uid \ {u} : u \in Uid}
    /\ pages = <<>>

In(arm) == {arm[i] : i \in 1..Len(arm)}
Place(arm, u) == CHOOSE i \in 1..Len(arm) : arm[i] = u

\* _rrf: what an arm does not have it gives nothing to.
Share(arm, weight, u) == IF u \in In(arm) THEN (weight * Unit) \div (RRF_K + Place(arm, u)) ELSE 0

\* mutant of Bonus: of the size of the arms' shares
BonusOfRank(u) == CASE title[u] = "is" -> Unit \div 5 [] title[u] = "has" -> Unit \div 10 [] OTHER -> 0
Bonus(u) == CASE title[u] = "is" -> 2 * EXACT_BONUS [] title[u] = "has" -> EXACT_BONUS [] OTHER -> 0

Score(u) == Share(arms.lexical, W_LEXICAL, u) + Share(arms.vector, W_VECTOR, u) + Bonus(u)

Hits == (In(arms.lexical) \cup In(arms.vector)) \cap passes
Before(u, v) == Score(u) > Score(v) \/ (Score(u) = Score(v) /\ u < v)

\* The whole ranking, best first.
Ranked == CHOOSE s \in [1..Cardinality(Hits) -> Hits] :
    \A i, j \in DOMAIN s : i < j => Before(s[i], s[j])

Next ==
    /\ Len(pages) < Cardinality(Hits)
    /\ pages' = pages \o SubSeq(Ranked, Len(pages) + 1, Min({Len(pages) + PageSize, Cardinality(Hits)}))
    /\ UNCHANGED <<arms, title, passes>>

-----------------------------------------------------------------------------

Rank(u) == CHOOSE i \in 1..Len(pages) : pages[i] = u
Seen == In(pages)
Kind(u) == CASE title[u] = "is" -> 2 [] title[u] = "has" -> 1 [] OTHER -> 0
\* v is nowhere ahead of u.
Dominates(u, v) ==
    \A arm \in {arms.lexical, arms.vector} :
        v \in In(arm) => u \in In(arm) /\ Place(arm, u) < Place(arm, v)

\* Page after page has every hit that passes once; titles with the words come before all
\* others, exact ones first, and among equals no arm's order is turned round where the
\* other agrees (hybrid.py search, _rrf, EXACT_BONUS).
RankingSound ==
    /\ Len(pages) = Cardinality(Seen)
    /\ \A u, v \in Seen :
        /\ Kind(u) > Kind(v) => Rank(u) < Rank(v)
        /\ Kind(u) = Kind(v) /\ u # v /\ Dominates(u, v) => Rank(u) < Rank(v)
=============================================================================
