---------------------------- MODULE HybridRanking ----------------------------
(***************************************************************************)
(* The computation of retrieve between the reads and the answer: hits of   *)
(* the index are matched with chunk rows and documents, scored by dense    *)
(* and lexical scores, fused, sorted and cut.  One behaviour per input.    *)
(*                                                                         *)
(* Scores are small integers and the min-max and max normalisations are    *)
(* cross-multiplied, so that fused scores compare as in the code.  BM25 is *)
(* a lexical score per chunk, 0 without a common term; of its formula only *)
(* the division by the average length is modelled, which fails on texts    *)
(* without a token (_TOKEN_RE knows ASCII letters, digits and _ only).     *)
(***************************************************************************)
EXTENDS Integers, Sequences, FiniteSets, Selection

CONSTANTS Chunks,        \* chunk ids
          Foreign,       \* a vector id that holds no chunk id ("unknown:3")
          MaxScore,      \* bound: scores are 0..MaxScore
          DenseWeight, LexicalWeight,   \* settings, as integers
          MaxK           \* bound: top_k

ASSUME ChunksAssumption == IsFiniteSet(Chunks) /\ Foreign \notin Chunks
ASSUME WeightsAssumption ==
  /\ DenseWeight \in Nat /\ LexicalWeight \in Nat
  /\ MaxScore \in Nat /\ MaxK \in Nat \ {0}

VARIABLES found,     \* what the index returned: ids with scores, best first
          stored,    \* chunks with a committed row
          mine,      \* chunks whose document is the user's
          lexical,   \* BM25 score of each chunk's text
          wordless,  \* chunks whose text has no token
          terms,     \* has the query a token
          topK,      \* requested number of hits
          status,    \* asked, answered, or failed with a ZeroDivisionError
          answer     \* the ranked hits

inputs == <<found, stored, mine, lexical, wordless, terms, topK>>
rankingVars == <<inputs, status, answer>>

Score == 0..MaxScore
Least(a, b) == IF a <= b THEN a ELSE b

-----------------------------------------------------------------------------
(* The steps of retrieve, each on the sequence of the step before *)

\* Ids that parse; zipped against the unfiltered hits for their scores.
ChunkIds(hits) ==
  LET parsed == Selected(hits, {k \in DOMAIN hits : hits[k].id # Foreign})
  IN  [k \in 1..Len(parsed) |-> parsed[k].id]

Scored(hits) ==
  [k \in 1..Len(ChunkIds(hits)) |-> [chunk |-> ChunkIds(hits)[k], dense |-> hits[k].score]]

\* Mutant: every stored chunk of the hits is kept.
OrderedUnscoped(hits, rows, own) ==
  Selected(Scored(hits), {k \in DOMAIN Scored(hits) : Scored(hits)[k].chunk \in rows})

\* Hits with a chunk row in a document of the user, in the order of the index.
Ordered(hits, rows, own) ==
  Selected(Scored(hits), {k \in DOMAIN Scored(hits) : Scored(hits)[k].chunk \in rows \cap own})

Lowest(seq)  == CHOOSE n \in {seq[k] : k \in DOMAIN seq} : \A k \in DOMAIN seq : n <= seq[k]
Highest(seq) == CHOOSE n \in {seq[k] : k \in DOMAIN seq} : \A k \in DOMAIN seq : n >= seq[k]

\* weight * normalised dense + weight * normalised lexical, times both ranges.
\* Equal dense scores all become 0, and so do lexical scores that are all 0.
Fused(dense, words, k) ==
  LET low  == Lowest(dense)
      span == Highest(dense) - low
      top  == Highest(words)
  IN  DenseWeight * (IF span = 0 THEN 0 ELSE dense[k] - low) * (IF top = 0 THEN 1 ELSE top)
        + LexicalWeight * words[k] * (IF span = 0 THEN 1 ELSE span)

Fusion(hits, words) ==
  LET dense == [k \in DOMAIN hits |-> hits[k].dense]
  IN  [k \in DOMAIN hits |-> Fused(dense, words, k)]

\* Mutant: sorted in ascending order.
RankedAscending(hits, words) ==
  LET order == Descending([k \in DOMAIN hits |-> 0 - Fusion(hits, words)[k]])
  IN  [k \in DOMAIN hits |-> hits[order[k]]]

\* A stable descending sort on the fused score.
Ranked(hits, words) ==
  LET order == Descending(Fusion(hits, words))
  IN  [k \in DOMAIN hits |-> hits[order[k]]]

\* BM25.score divides by the average length of the texts: 0 if none of them
\* has a token.  Without hits or query terms it is not reached.
Undefined(hits) == terms /\ hits # <<>> /\ \A k \in DOMAIN hits : hits[k].chunk \in wordless

Words(hits) == [k \in DOMAIN hits |-> lexical[hits[k].chunk]]

\* Mutant: the last position is left out.
AnswerShort(hits, rows, own) ==
  LET kept   == Ordered(hits, rows, own)
      ranked == Ranked(kept, Words(kept))
  IN  SubSeq(ranked, 1, Least(topK - 1, Len(ranked)))

\* The first topK of the ranking.
Answer(hits, rows, own) ==
  LET kept   == Ordered(hits, rows, own)
      ranked == Ranked(kept, Words(kept))
  IN  SubSeq(ranked, 1, Least(topK, Len(ranked)))

-----------------------------------------------------------------------------

\* Results of the index: distinct chunks, scores not increasing.
Results ==
  {hits \in UNION {[1..n -> [id : Chunks \cup {Foreign}, score : Score]] :
                     n \in 0..Cardinality(Chunks)} :
     \A j, k \in DOMAIN hits : j < k =>
       /\ hits[j].score >= hits[k].score
       /\ hits[j].id = hits[k].id => hits[j].id = Foreign}

RankingInit ==
  /\ found \in Results
  /\ stored \in SUBSET Chunks
  /\ mine \in SUBSET Chunks
  /\ lexical \in [Chunks -> Score]
  /\ wordless \in SUBSET {c \in Chunks : lexical[c] = 0}
  /\ terms \in BOOLEAN
  /\ terms \/ \A c \in Chunks : lexical[c] = 0
  /\ topK \in 1..MaxK
  /\ status = "asked"
  /\ answer = <<>>

Retrieve ==
  /\ status = "asked"
  /\ \/ /\ Undefined(Ordered(found, stored, mine))
        /\ status' = "failed"
        /\ UNCHANGED answer
     \/ /\ ~Undefined(Ordered(found, stored, mine))
        /\ status' = "answered"
        /\ answer' = Answer(found, stored, mine)
  /\ UNCHANGED inputs

RankingNext == Retrieve

RankingSpec == RankingInit /\ [][RankingNext]_rankingVars

-----------------------------------------------------------------------------

Done == status = "answered"
Chosen == {answer[k].chunk : k \in DOMAIN answer}
Eligible == {found[k].id : k \in DOMAIN found} \cap stored \cap mine
Parsed == \A k \in DOMAIN found : found[k].id # Foreign
DenseOf(c) == found[CHOOSE k \in DOMAIN found : found[k].id = c].score

\* The answer has as many hits as were asked for or could be, each of them
\* once, eligible and with the score of its own vector.  (With ids that do not
\* parse among the hits, scores are zipped to the wrong chunks.)
AnswerIsComplete ==
  Done =>
    /\ Chosen \subseteq Eligible
    /\ Cardinality(Chosen) = Len(answer)
    /\ Len(answer) = Least(topK, Cardinality(Eligible))
    /\ Parsed => \A k \in DOMAIN answer : answer[k].dense = DenseOf(answer[k].chunk)

\* A chunk that is better in one score and not worse in the other is ranked
\* before, and is not left out in favour of the worse one.
BetterComesFirst ==
  Done /\ Parsed => \A c, e \in Eligible :
    /\ DenseOf(c) >= DenseOf(e) /\ lexical[c] >= lexical[e]
    /\ DenseWeight * (DenseOf(c) - DenseOf(e)) + LexicalWeight * (lexical[c] - lexical[e]) > 0
    /\ e \in Chosen
    => \E j, k \in DOMAIN answer : j < k /\ answer[j].chunk = c /\ answer[k].chunk = e

\* Other users' documents among the candidates do not change the ranking: the
\* scores are normalised after they are taken out.
OthersDoNotMatter ==
  Done /\ Parsed =>
    answer = Answer(Selected(found, {k \in DOMAIN found : found[k].id \in mine}), stored, mine)
=============================================================================
