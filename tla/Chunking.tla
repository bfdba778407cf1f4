-------------------------------- MODULE Chunking --------------------------------
(*****************************************************************************)
(* How a parsed document is cut into the texts that are indexed              *)
(* (ingestion/chunker.py): tables by rows, everything else by blocks, and    *)
(* prose blocks that are too long by a sliding window.                       *)
(*                                                                           *)
(* A text is a sequence of characters; NL is a character between two blocks. *)
(* Inside a block only the places where it may be cut and their priority     *)
(* matter.  In a table document a character stands for a line.               *)
(*****************************************************************************)
EXTENDS Integers, Sequences, SequencesExt, FiniteSetsExt

CONSTANTS
    Documents,     \* what is cut: any file but those of type md, which stay whole
    ChunkMinChars, ChunkTargetChars, ChunkMaxChars, \* get_effective_constants()
    OverlapChars,  \* values of CHUNK_OVERLAP_CHARS
    TableRowsPerChunk,
    None

VARIABLES
    document, overlap,    \* what is cut, and the setting
    target, max, attempt, \* of the loop over MemoryErrors
    chunks                \* texts of the nodes, or None before

vars == <<document, overlap, target, max, attempt, chunks>>

MaxAttempts == 4
NL == <<0, 0>>

\* A mixed document is a sequence of blocks: their length, whether at least 90%
\* of their lines are table lines, and the break points with their priority.
Block == [len : Nat \ {0}, table : BOOLEAN, breaks : SUBSET (Nat \X (1..4))]
Document ==
    [kind : {"mixed"}, blocks : Seq(Block)]
    \cup [kind : {"table"}, pre : Nat, separators : 0..1, rows : Nat, post : Nat]

TextOf(b, len) == [i \in 1..len |-> <<b, i>>]
IsTable(d) == d.kind = "table"

Blank == <<NL, NL>>
Join(s, t) == IF s = <<>> THEN t ELSE IF t = <<>> THEN s ELSE s \o Blank \o t

Strip(s) ==
    LET kept == {i \in DOMAIN s : s[i] # NL}
    IN  IF kept = {} THEN <<>> ELSE SubSeq(s, Min(kept), Max(kept))

\* The lines of a table document: at least 95% of them start with a bar.
LinesBefore(d) == [i \in 1..d.pre |-> <<1, i>>]
Header(d) == [i \in 1..(1 + d.separators) |-> <<2, i>>]
Rows(d) == [i \in 1..d.rows |-> <<3, i>>]
LinesAfter(d) == [i \in 1..d.post |-> <<4, i>>]
Prose(d) ==
    LET upTo[b \in 0..Len(d.blocks)] ==
            IF b = 0 THEN <<>> ELSE Join(upTo[b - 1], TextOf(b, d.blocks[b].len))
    IN  upTo[Len(d.blocks)]
Source(d) ==
    IF IsTable(d) THEN LinesBefore(d) \o Header(d) \o Rows(d) \o LinesAfter(d) ELSE Prose(d)

\* The sizes survive as many halvings as there are attempts after the first.
ASSUME ChunkingAssumption ==
    /\ Documents \subseteq Document
    /\ \A d \in Documents :
          IF IsTable(d) THEN (1 + d.separators + d.rows) * 100 >= 95 * Len(Source(d))
          ELSE \E b \in DOMAIN d.blocks : ~d.blocks[b].table
    /\ OverlapChars \subseteq Nat \ {0}
    /\ {ChunkMinChars, ChunkTargetChars, ChunkMaxChars} \subseteq Nat
    /\ 8 <= ChunkTargetChars /\ ChunkTargetChars <= ChunkMaxChars
    /\ TableRowsPerChunk \in Nat \ {0}

-----------------------------------------------------------------------------
\* text[-overlap_chars:], which is the whole text when overlap_chars is 0.
GetOverlap(s) ==
    IF Len(s) > overlap /\ overlap > 0 THEN SubSeq(s, Len(s) - overlap + 1, Len(s)) ELSE s

\* _chunk_table: the rows in groups, each under the header.
ChunkTable(d) ==
    LET groups == IF d.rows = 0 THEN 1 ELSE (d.rows + TableRowsPerChunk - 1) \div TableRowsPerChunk
    IN  [g \in 1..groups |->
            (IF g = 1 THEN LinesBefore(d) ELSE <<>>)
            \o Header(d)
            \o SubSeq(Rows(d), (g - 1) * TableRowsPerChunk + 1, Min({g * TableRowsPerChunk, d.rows}))
            \o (IF g = groups THEN LinesAfter(d) ELSE <<>>)]

\* Where a window that starts after position start ends: the first break of the
\* highest priority from target on, else the last one before, else the maximum.
Cut(start, breaks) ==
    LET within == {b \in breaks : start < b[1] /\ b[1] <= start + max}
        late == {b \in within : b[1] >= start + target}
        top == {b \in late : \A c \in late : c[2] <= b[2]}
    IN  CASE late # {}   -> Min({b[1] : b \in top})
          [] within # {} /\ late = {} -> Max({b[1] : b \in within})
          [] OTHER       -> start + max

\* Where the window after position start ends, and the next one starts.
WindowEnd(start, text, breaks) ==
    IF start + target >= Len(text) THEN Len(text) ELSE Min({Cut(start, breaks), Len(text)})

\* _chunk_sliding: each chunk starts with the end of the one before.
Slide(text, breaks) ==
    LET end[k \in 0..Len(text)] == IF k = 0 THEN 0 ELSE WindowEnd(end[k - 1], text, breaks)
        last == Min({k \in 1..Len(text) : end[k] = Len(text)})
        raw(k) == SubSeq(text, end[k - 1] + 1, end[k])
    IN  [k \in 1..last |-> (IF k = 1 THEN <<>> ELSE GetOverlap(raw(k - 1))) \o raw(k)]

\* _flush: the parts with what is given, behind the overlap.
Flush(s, extra, isTable) ==
    LET content == Join(s.parts, extra)
        full == Strip(Join(s.prefix, content))
    IN  [result |-> IF full = <<>> THEN s.result ELSE Append(s.result, full),
         parts |-> <<>>,
         prefix |-> IF isTable THEN <<>> ELSE GetOverlap(content)]

\* Mutant: blocks are collected without looking at the maximum.
Exceeds_Never(s, text) == FALSE

Exceeds(s, text) == s.parts # <<>> /\ Len(Join(s.parts, text)) > max

\* A long block: all windows but the last are chunks, behind the overlap of the
\* one before; the last is carried on.
SlideInto(s, windows) ==
    LET before(i) == IF i = 1 THEN s.prefix ELSE GetOverlap(windows[i - 1])
    IN  [result |-> s.result \o [i \in 1..(Len(windows) - 1) |-> Strip(Join(before(i), windows[i]))],
         parts |-> Last(windows),
         prefix |-> <<>>]

\* Mutant: a table block is cut like any other.
AddBlock_TableAsProse(s, block, text) ==
    LET t == IF Exceeds(s, text) THEN Flush(s, <<>>, FALSE) ELSE s
    IN  IF Len(text) > max THEN SlideInto(t, Slide(text, block.breaks))
        ELSE [t EXCEPT !.parts = Join(@, text)]

AddBlock(s, block, text) ==
    LET t == IF Exceeds(s, text) THEN Flush(s, <<>>, FALSE) ELSE s
    IN  IF block.table THEN Flush(t, text, TRUE)
        ELSE IF Len(text) > max THEN SlideInto(t, Slide(text, block.breaks))
        ELSE [t EXCEPT !.parts = Join(@, text)]

\* The loop over the blocks.
Collected(d) ==
    LET after[b \in 0..Len(d.blocks)] ==
            IF b = 0 THEN [result |-> <<>>, parts |-> <<>>, prefix |-> <<>>]
            ELSE AddBlock(after[b - 1], d.blocks[b], TextOf(b, d.blocks[b].len))
    IN  after[Len(d.blocks)]

\* Mutant: what is still collected at the end is forgotten.
ChunkMixedContent_NoLastFlush(d) == Collected(d).result

\* _chunk_mixed_content
ChunkMixedContent(d) ==
    LET last == Collected(d)
    IN  (IF last.parts = <<>> THEN last ELSE Flush(last, <<>>, FALSE)).result

-----------------------------------------------------------------------------
Init ==
    /\ document \in Documents
    /\ overlap \in OverlapChars
    /\ target = ChunkTargetChars /\ max = ChunkMaxChars
    /\ attempt = 0
    /\ chunks = None

Whole(d) == <<Source(d)>>
TooShort(d) == ~IsTable(d) /\ Len(Source(d)) < ChunkMinChars

\* chunk_document, one turn of its loop.
ChunkDocument ==
    /\ chunks = None /\ attempt < MaxAttempts
    /\ LET raw == IF IsTable(document) THEN ChunkTable(document) ELSE ChunkMixedContent(document)
       IN  chunks' = IF TooShort(document) \/ Len(raw) <= 1 THEN Whole(document) ELSE raw
    /\ UNCHANGED <<document, overlap, target, max, attempt>>

\* A MemoryError halves the sizes; after the last the document is kept whole.
MemoryError ==
    /\ chunks = None /\ attempt < MaxAttempts /\ ~TooShort(document)
    /\ attempt' = attempt + 1
    /\ target' = target \div 2 /\ max' = max \div 2
    /\ UNCHANGED <<document, overlap, chunks>>

GiveUp ==
    /\ chunks = None /\ attempt = MaxAttempts
    /\ chunks' = Whole(document)
    /\ UNCHANGED <<document, overlap, target, max, attempt>>

Next == ChunkDocument \/ MemoryError \/ GiveUp

Spec == Init /\ [][Next]_vars

-----------------------------------------------------------------------------
Done == chunks # None
CharsOf(s) == Range(s) \ {NL}

\* What the chunks bring is the document, no more and no less, and in its order:
\* a character comes first after everything that is before it in the document,
\* whatever was flushed, carried on or slid over, and after any number of
\* MemoryErrors (chunker.py:77-168, 197-259, 287-376, 428-498).
NothingLost ==
    Done =>
        LET source == Source(document)
            brought(k, p) == (UNION {Range(chunks[j]) : j \in 1..(k - 1)}) \cup {chunks[k][q] : q \in 1..(p - 1)}
        IN  /\ UNION {CharsOf(chunks[k]) : k \in DOMAIN chunks} = CharsOf(source)
            /\ \A k \in DOMAIN chunks : \A p \in DOMAIN chunks[k] : \A y \in DOMAIN source :
                  source[y] # NL /\ chunks[k][p] = source[y]
                    => \A x \in 1..(y - 1) : source[x] = NL \/ source[x] \in brought(k, p)

\* The text s stands in a chunk, in one piece, from behind a position on.
Holds(chunk, from, s) ==
    from + Len(s) <= Len(chunk) /\ \A x \in DOMAIN s : chunk[from + x] = s[x]

\* Each part of a table document has the header in it; a table block of another
\* document is in one chunk, in one piece (chunker.py:249-257, 332-339).
TablesStayWhole ==
    Done =>
        IF IsTable(document)
          THEN \A i \in DOMAIN chunks :
                 Holds(chunks[i], IF i = 1 THEN document.pre ELSE 0, Header(document))
          ELSE \A b \in {b \in DOMAIN document.blocks : document.blocks[b].table} :
                 \E i \in DOMAIN chunks :
                    /\ \E from \in 0..Len(chunks[i]) : Holds(chunks[i], from, TextOf(b, document.blocks[b].len))
                    /\ \A j \in DOMAIN chunks \ {i} : \A c \in Range(chunks[j]) : c[1] # b

\* A chunk of prose is at most the maximum, and the overlap before it counted
\* twice with its blank line (chunker.py:331-372, 452-496).
ChunkBounded ==
    Done /\ ~IsTable(document) /\ Len(chunks) > 1 =>
        \A i \in DOMAIN chunks :
            \/ Len(chunks[i]) <= max + 2 * overlap + 2
            \/ \E c \in CharsOf(chunks[i]) : document.blocks[c[1]].table
===============================================================================
