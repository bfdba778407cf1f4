------------------------------ MODULE MCRetrieval ------------------------------
(***************************************************************************)
(* Documents of one to three blocks, and tables; a word stands in many     *)
(* chunks, one in some, one at the end.                                    *)
(***************************************************************************)
EXTENDS Retrieval

CONSTANTS common, some, rare, txt, csv

ProseBlock(len, breaks) == [len |-> len, table |-> FALSE, breaks |-> breaks]
TableBlock(len) == [len |-> len, table |-> TRUE, breaks |-> {}]
Kinds == {ProseBlock(3, {}), ProseBlock(9, {}), ProseBlock(30, {<<9, 1>>, <<13, 3>>, <<24, 2>>, <<28, 2>>}), TableBlock(6), TableBlock(20)}
Mixed ==
    {[kind |-> "mixed", blocks |-> b] : b \in (UNION {[1..n -> Kinds] : n \in 1..2})
        \cup {<<ProseBlock(30, {<<6, 1>>, <<22, 4>>}), TableBlock(6), ProseBlock(9, {})>>,
              <<ProseBlock(9, {}), ProseBlock(30, {}), ProseBlock(9, {})>>, <<ProseBlock(9, {}), ProseBlock(3, {}), ProseBlock(9, {})>>}}
Tables ==
    {[kind |-> "table", pre |-> pre, separators |-> s, rows |-> rows, post |-> post] :
        pre \in 0..1, s \in 0..1, rows \in {0, 1, 4, 5, 20}, post \in 0..1}
MCDocuments ==
    {d \in Mixed : \E b \in DOMAIN d.blocks : ~d.blocks[b].table}
    \cup {d \in Tables : (1 + d.separators + d.rows) * 100
                            >= 95 * (d.pre + 1 + d.separators + d.rows + d.post)}

MCSearched ==
    {[kind |-> "table", pre |-> 1, separators |-> 1, rows |-> 20, post |-> 0]}
    \cup {d \in Mixed : d.kind = "mixed" /\ d.blocks \in
            {<<ProseBlock(30, {<<6, 1>>, <<22, 4>>}), TableBlock(6), ProseBlock(9, {})>>, <<ProseBlock(9, {}), ProseBlock(9, {})>>,
             <<ProseBlock(9, {}), TableBlock(20)>>}}

MCOccurrences(d, word) ==
    LET source == Source(d)
    IN  CASE word = common -> {source[i] : i \in {i \in DOMAIN source : i % 4 = 1}} \ {NL}
          [] word = some   -> {source[i] : i \in {i \in DOMAIN source : i % 16 = 2}} \ {NL}
          [] OTHER         -> {Last(source)}
MCQueries == {<<common>>, <<rare>>, <<common, some>>}
MCFileTypeOf(d) == IF IsTable(d) THEN csv ELSE txt
MCAskedTopK == {None, 0, 2, 25}
===============================================================================
