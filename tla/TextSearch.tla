----------------------------- MODULE TextSearch -----------------------------
(***************************************************************************)
(* The search for words: how a text becomes terms (idx/fts/tokenizer.rs),  *)
(* how a query becomes a match expression (memory/mod.rs) and that one     *)
(* terms again, and the scoring of the documents (idx/fts/persistent.rs).  *)
(*                                                                         *)
(* A text is a sequence of characters.  The index of an agent holds a      *)
(* posting (a count) for each <<term, document>>, and the counts of each   *)
(* document.  Scores are in hundred-thousandths, and where the code takes  *)
(* the logarithm of x there is x - 1, which grows with it and has its sign.*)
(***************************************************************************)
EXTENDS Integers, SequencesExt

CONSTANT MAX_TERMS  \* 32: the words of a query that are searched for

Separators == {" ", "-", "quote"}
Alnum(c)   == c \notin Separators

LowerChar(c) ==
    LET low == [A |-> "a", B |-> "b", E |-> "e", E_acute |-> "e_acute", Sigma |-> "sigma"]
    IN IF c \in DOMAIN low THEN low[c] ELSE c

\* fold_char: a table of letters with a diacritic.
FoldChar(c) == IF c = "e_acute" THEN "e" ELSE c

fold(word) == [i \in DOMAIN word |-> FoldChar(word[i])]

\* str::to_lowercase: a capital sigma that ends a word becomes the final sigma.
to_lowercase(word) ==
    [i \in DOMAIN word |-> IF word[i] = "Sigma" /\ i = Len(word) /\ i > 1
                           THEN "final_sigma" ELSE LowerChar(word[i])]

\* The pieces between the separators, without the empty ones.
split(text) ==
    LET Next(s, c) ==
          IF Alnum(c) THEN [s EXCEPT !.piece = Append(@, c)]
          ELSE IF s.piece = <<>> THEN s
          ELSE [pieces |-> Append(s.pieces, s.piece), piece |-> <<>>]
    IN FoldLeft(Next, [pieces |-> <<>>, piece |-> <<>>], Append(text, " ")).pieces

LowerEach(piece) == [i \in DOMAIN piece |-> LowerChar(piece[i])]

\* tokenize lowers character by character.
tokenize(text) == LET ps == split(text) IN [i \in DOMAIN ps |-> fold(LowerEach(ps[i]))]

\* FtsDocTerms: how often each term occurs.
from_content(text) ==
    LET ts == tokenize(text)
    IN [t \in Range(ts) |-> Cardinality({i \in DOMAIN ts : ts[i] = t})]

\* fts_match_expr: the lowered words, each between quotes; None if there is none.
fts_match_expr(query) ==
    LET ps == split(query)
        n  == IF Len(ps) <= MAX_TERMS THEN Len(ps) ELSE MAX_TERMS
    IN IF n = 0 THEN <<>>
       ELSE << [i \in 1..n |-> <<"quote">> \o to_lowercase(ps[i]) \o <<"quote">>] >>

Inner(segment) == SubSeq(segment, 2, Len(segment) - 1)
Quoted(segment) ==
    /\ Len(segment) > 2 /\ segment[1] = "quote" /\ Last(segment) = "quote"
    /\ ~Contains(Inner(segment), "quote")

\* (Faulty: the terms of the query are not folded.)
ParseUnfolded(expr) ==
    IF expr = <<>> \/ \E i \in DOMAIN expr : ~Quoted(expr[i]) THEN <<>>
    ELSE << [i \in DOMAIN expr |-> Inner(expr[i])] >>

\* parse_match_expr, over the segments that " OR " separates; None: UnsupportedMatchExpr.
parse_match_expr(expr) ==
    IF expr = <<>> \/ \E i \in DOMAIN expr : ~Quoted(expr[i]) THEN <<>>
    ELSE << [i \in DOMAIN expr |-> fold(Inner(expr[i]))] >>

-----------------------------------------------------------------------------
(* The index of an agent over its documents, and its statistics.           *)

SumOf(f) == FoldFunction(+, 0, f)
doc_length(terms) == SumOf(terms)

\* A document without terms is not indexed.  stray: postings whose document is not there.
IndexOfTerms(terms, stray) ==
    LET held == {d \in DOMAIN terms : terms[d] # <<>>}
    IN [docterms |-> [d \in held |-> terms[d]],
        postings |-> UNION {{<<t, d, terms[d][t]>> : t \in DOMAIN terms[d]} : d \in held} \cup stray,
        stats    |-> [docs |-> Cardinality(held), terms |-> SumOf([d \in held |-> doc_length(terms[d])])]]

IndexOf(docs, stray) == IndexOfTerms([d \in DOMAIN docs |-> from_content(docs[d])], stray)

\* ln(1 + (n - df + 0.5) / (df + 0.5)), and tf (K1 + 1) / (tf + K1 (1 - B + B len / avgdl))
\* with K1 = 1.2 and B = 0.75.
Weight(n, df) == (100 * (2 * (n - df) + 1)) \div (2 * df + 1)
Saturation(tf, len, stats) ==
    (22000 * tf * stats.terms) \div (10 * tf * stats.terms + 3 * stats.terms + 9 * len * stats.docs)

\* The gain of each document that holds the term; a stray posting counts in df only.
TermScores(index, term) ==
    LET hits == {p \in index.postings : p[1] = term}
        weight == Weight(index.stats.docs, Cardinality(hits))
    IN [d \in {p[2] : p \in hits} \cap DOMAIN index.docterms |->
          weight * Saturation((CHOOSE p \in hits : p[2] = d)[3], doc_length(index.docterms[d]), index.stats)]

\* The members of S, the best scored first, equals by their order.
BestFirst(S, score) ==
    [i \in 1..Cardinality(S) |->
        CHOOSE x \in S : Cardinality({y \in S : score[y] > score[x] \/ (score[y] = score[x] /\ y < x)}) = i - 1]

Take(s, k) == IF k < Len(s) THEN SubSeq(s, 1, k) ELSE s

AddScores(scores, new) ==
    [d \in DOMAIN scores \cup DOMAIN new |->
        (IF d \in DOMAIN scores THEN scores[d] ELSE 0) + (IF d \in DOMAIN new THEN new[d] ELSE 0)]

\* search_bm25: a term that is repeated counts as often.
Scores(index, terms) == FoldLeft(LAMBDA s, t : AddScores(s, TermScores(index, t)), <<>>, terms)

search_bm25(index, expr, k) ==
    LET terms == parse_match_expr(expr)
    IN IF k = 0 \/ index.stats.docs = 0 THEN <<>>
       ELSE LET scores == Scores(index, terms[1]) IN Take(BestFirst(DOMAIN scores, scores), k)
=============================================================================
