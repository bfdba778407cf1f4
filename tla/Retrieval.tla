------------------------------- MODULE Retrieval -------------------------------
(****************************************************************************)
(* The agent's search tool over the chunks of a document: the query is      *)
(* expanded with words of what a first search finds (semantic/              *)
(* query_expander.py), the index is searched for more candidates than are   *)
(* asked for (search/meilisearch_client.py), and those are reranked         *)
(* (search/reranker.py).  Each of the three may fail and the search goes on *)
(* without it.                                                              *)
(*                                                                          *)
(* A word is where it stands: a set of characters of the document.  The     *)
(* recency filter is left out.                                              *)
(****************************************************************************)
EXTENDS Chunking, FiniteSets

CONSTANTS
    Searched,               \* bound: the documents that are searched
    Words,                  \* words people ask for
    Occurrences(_, _),      \* of a word in a document
    Queries,                \* sequences of words
    Types, FileTypeOf(_),   \* file types, that of a document
    AskedTopK,              \* what the model passes for top_k, may have None
    DefaultTopK, ToolMaxK,  \* config.top_k, and the 20 of the tool
    Multiplier, IndexMaxHits, \* rerank_candidate_multiplier, and the 1000
    ExpansionSize           \* results the expander takes words from

VARIABLES
    index,   \* the words of each chunk, None before the document is indexed
    found    \* the search: what was asked, what it saw, what it returned

svars == <<vars, index, found>>

ASSUME RetrievalAssumption ==
    /\ Queries \subseteq Seq(Words) \ {<<>>}
    /\ AskedTopK \subseteq Int \cup {None}
    /\ {DefaultTopK, ToolMaxK, Multiplier, IndexMaxHits, ExpansionSize} \subseteq Nat \ {0}
    /\ ToolMaxK <= IndexMaxHits

-----------------------------------------------------------------------------
IndexChunks ==
    index' = IF chunks' = None THEN None
             ELSE [i \in DOMAIN chunks' |->
                      {w \in Words : Occurrences(document, w) \cap Range(chunks'[i]) # {}}]

\* Meilisearch drops words from the end of a query that finds too little: a
\* document is as good as the words it has from the front of the query.
LeadingWords(query, i) ==
    Max({n \in 0..Len(query) : \A w \in 1..n : query[w] \in index[i]})

\* QueryBuilder.build: all clauses hold.
Passes(fileType) == fileType \in {None, FileTypeOf(document)}

\* The numbers of S from the highest key to the lowest, and as they are where
\* the keys are the same.
Above(key, i, j) == key[i] > key[j] \/ (key[i] = key[j] /\ i < j)
Ranked(S, key) ==
    [n \in 1..Cardinality(S) |-> CHOOSE i \in S : Cardinality({j \in S : Above(key, j, i)}) = n - 1]

\* In the index's order: by LeadingWords, then as they are stored.
Matching(query, fileType) == {i \in DOMAIN index : LeadingWords(query, i) > 0 /\ Passes(fileType)}
Matches(query, fileType) ==
    Ranked(Matching(query, fileType), [i \in DOMAIN index |-> LeadingWords(query, i)])

FirstOf(s, n) == SubSeq(s, 1, Min({n, Len(s)}))

\* Mutant: the words are put in front.
Expand_InFront(query, more) == more \o query

\* The words of the first results that the query does not have, behind it.
Expand(query, more) == query \o more
ExpansionOf(query) ==
    LET seen == FirstOf(Matches(query, None), ExpansionSize)
    IN  {<<w>> : w \in {w \in Words \ Range(query) : \E i \in Range(seen) : w \in index[i]}}

ClampTopK(k) == Min({Max({1, IF k = None THEN DefaultTopK ELSE k}), ToolMaxK})

\* Mutant: the multiplier is the number of candidates.
Limit_NoTopK(k, reranking) == IF reranking THEN Min({Multiplier, IndexMaxHits}) ELSE k

Limit(k, reranking) == IF reranking THEN Min({k * Multiplier, IndexMaxHits}) ELSE k

\* The best k of more than k candidates; the sort is stable.
Rerank(candidates, k, score) ==
    LET order == Ranked(DOMAIN candidates, score)
    IN  [n \in 1..k |-> candidates[order[n]]]

-----------------------------------------------------------------------------
SInit == Init /\ index = None /\ found = None

Found(query, k, used, candidates, score, hits) ==
    found' = [query |-> query, k |-> k, used |-> used, candidates |-> candidates,
              score |-> score, hits |-> hits]

\* search_local_index.
SearchLocalIndex(query, topK, fileType, expanding, reranking) ==
    /\ index # None /\ found = None /\ document \in Searched
    /\ LET k == ClampTopK(topK)
       IN  \E used \in {query} \cup (IF expanding THEN {Expand(query, more) : more \in ExpansionOf(query)} ELSE {}) :
             \E candidates \in {FirstOf(Matches(used, fileType), Limit(k, reranking))} :
                 \/ Found(query, k, used, <<>>, <<>>, <<>>) \* the index does not answer
                 \/ /\ ~reranking
                    /\ Found(query, k, used, candidates, <<>>, candidates)
                 \/ /\ reranking \* few candidates, no reranker, or it raises
                    /\ Found(query, k, used, candidates, <<>>, FirstOf(candidates, k))
                 \/ /\ reranking /\ Len(candidates) > k
                    /\ \E score \in [DOMAIN candidates -> 0..1] :
                          Found(query, k, used, candidates, score, Rerank(candidates, k, score))
    /\ UNCHANGED <<vars, index>>

SNext ==
    \/ Next /\ IndexChunks /\ UNCHANGED found
    \/ \E query \in Queries, topK \in AskedTopK, fileType \in Types \cup {None},
          expanding \in BOOLEAN, reranking \in BOOLEAN :
          SearchLocalIndex(query, topK, fileType, expanding, reranking)

SSpec == SInit /\ [][SNext]_svars

-----------------------------------------------------------------------------
Answered == found # None /\ found.candidates # <<>>

\* A search that the index answered shows as many results as were asked for, or
\* all there are, whatever is expanded, limited, reranked or fails on the way
\* (search_tool.py:79-114, meilisearch_client.py:304-364, reranker.py:126-171).
NothingWithheld ==
    Answered =>
        Len(found.hits) = Min({found.k, Cardinality({i \in DOMAIN index : LeadingWords(found.query, i) > 0})})

\* The results are the best of the chunks: by the reranker's score of the
\* candidates, and, where it was not asked or failed, a chunk that has every
\* word of the query is not left out for one that has not, whatever words the
\* expansion added (query_expander.py:189-199, reranker.py:151-158).
BestShown ==
    Answered =>
        LET shown == Range(found.hits)
            all(i) == LeadingWords(found.query, i) = Len(found.query)
        IN  IF found.score # <<>>
              THEN \A p, q \in DOMAIN found.candidates :
                     found.candidates[p] \in shown /\ found.candidates[q] \notin shown
                       => found.score[q] <= found.score[p]
              ELSE (\E j \in shown : ~all(j)) => \A i \in DOMAIN index \ shown : ~all(i)
===============================================================================
