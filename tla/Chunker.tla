------------------------------ MODULE Chunker ------------------------------
(***************************************************************************)
(* How the text of a document becomes chunks: buildChunks of               *)
(* utils/chunker.go, which reads the blocks of a document one by one, and  *)
(* SplitIntoChunks of utils/ai.go, which cuts a text without structure     *)
(* into windows of words.                                                  *)
(*                                                                         *)
(* A block is known by its number.  Blocks without text are passed over.   *)
(* What a language model added headings to (chunkWithGroqFallback) has     *)
(* headings and paragraphs only, and no pages; it is what the model made   *)
(* of the first 15000 bytes of the document, and NothingIsLost speaks of   *)
(* that text, not of the document it came from.                            *)
(***************************************************************************)
EXTENDS Naturals, Sequences, SequencesExt

CONSTANTS
    TargetTokens,       \* 500 in the code
    WindowSize, WindowOverlap,      \* 500 and 50 words
    Sizes,              \* tokens a block may have
    MaxBlocks, MaxWords             \* bounds on the model

ChunkerAssumption ==
    /\ TargetTokens \in Nat \ {0} /\ Sizes \subseteq Nat
    /\ WindowSize \in Nat /\ WindowOverlap \in Nat /\ WindowOverlap < WindowSize
    /\ MaxBlocks \in Nat /\ MaxWords \in Nat \ {0}

Headings == {"heading1", "heading2", "heading3"}
Ways == {"extracted", "enhanced", "split"}
Types(way) == Headings \cup {"paragraph"} \cup IF way = "extracted" THEN {"table", "list_item"} ELSE {}

VARIABLES
    way,
    blocks,         \* history: the blocks read
    current,        \* numbers of the blocks in the chunk being written
    crumbs,         \* h1, h2, h3: the number of each one's block, or 0
    page, overlap,  \* currentPage; the chunk whose last sentences are repeated, or 0
    chunks,
    words, at,      \* of a split: how many there are, and where the next window begins
    ended

building == <<blocks, current, crumbs, page, overlap>>
splitting == <<words, at>>
vars == <<way, building, chunks, splitting, ended>>

Init ==
    /\ way \in Ways
    /\ blocks = << >> /\ current = << >> /\ crumbs = <<0, 0, 0>>
    /\ page = 0 /\ overlap = 0 /\ chunks = << >>
    /\ words \in IF way = "split" THEN 1..MaxWords ELSE {0}
    /\ at = 0 /\ ended = FALSE

TokensOf(text) ==
    LET upTo[k \in 0..Len(text)] ==
            IF k = 0 THEN 0 ELSE upTo[k - 1] + blocks[text[k]].tokens
    IN  upTo[Len(text)]
Tokens == TokensOf(current)

-----------------------------------------------------------------------------
(* buildChunks.  Each action reads one block.                              *)

Next1 == Len(blocks) + 1
PageOf(i) == IF way = "enhanced" THEN 0 ELSE i      \* each block has a page of its own

Reads(type, n) ==
    /\ way # "split" /\ ~ended /\ type \in Types(way)
    /\ Len(blocks) < MaxBlocks
    /\ blocks' = Append(blocks, [type |-> type, tokens |-> n])
    /\ UNCHANGED <<way, splitting, ended>>

(* Mutant of Flushed: what is short is dropped.                            *)
FlushedUnlessShort(pageStart) ==
    IF Tokens <= 1 THEN chunks
    ELSE Append(chunks, [text |-> current, crumbs |-> crumbs, overlap |-> overlap,
                         page |-> pageStart])

(* flush, with the page it has come to.                                    *)
Flushed(pageStart) ==
    IF current = << >> THEN chunks
    ELSE Append(chunks, [text |-> current, crumbs |-> crumbs, overlap |-> overlap,
                         page |-> pageStart])

Extends == current' = Append(current, Next1) /\ UNCHANGED <<overlap, chunks>>
Begins(pageStart) ==
    /\ chunks' = Flushed(pageStart)
    /\ current' = <<Next1>> /\ page' = PageOf(Next1)

Heading1(n) ==
    /\ Reads("heading1", n)
    /\ Begins(page) /\ overlap' = 0
    /\ crumbs' = <<Next1, 0, 0>>

(* Mutant of Heading2: the heading below it stays, and what is repeated.   *)
Heading2KeepsBelow(n) ==
    /\ Reads("heading2", n)
    /\ \/ Tokens >= TargetTokens \div 2 /\ Begins(page) /\ UNCHANGED overlap
       \/ Tokens < TargetTokens \div 2 /\ Extends /\ UNCHANGED page
    /\ crumbs' = <<crumbs[1], Next1, crumbs[3]>>

Heading2(n) ==
    /\ Reads("heading2", n)
    /\ \/ Tokens >= TargetTokens \div 2 /\ Begins(page) /\ overlap' = 0
       \/ Tokens < TargetTokens \div 2 /\ Extends /\ UNCHANGED page
    /\ crumbs' = <<crumbs[1], Next1, 0>>

Heading3(n) ==
    /\ Reads("heading3", n)
    /\ \/ Tokens >= TargetTokens /\ Begins(page) /\ overlap' = 0
       \/ Tokens < TargetTokens /\ Extends /\ UNCHANGED page
    /\ crumbs' = <<crumbs[1], crumbs[2], Next1>>

PageOnceKnown == IF page = 0 THEN PageOf(Next1) ELSE page

(* A table or code is never cut off from what it stands in.                *)
Table(n) ==
    /\ Reads("table", n)
    /\ Extends /\ page' = PageOnceKnown
    /\ UNCHANGED crumbs

(* Mutant of ListItem: the item itself is not counted.                     *)
ListItemUncounted(n) ==
    /\ Reads("list_item", n)
    /\ \/ Tokens > TargetTokens /\ Begins(page) /\ overlap' = 0
       \/ Tokens <= TargetTokens /\ Extends /\ UNCHANGED page
    /\ UNCHANGED crumbs

ListItem(n) ==
    /\ Reads("list_item", n)
    /\ \/ Tokens + n > TargetTokens /\ Begins(page) /\ overlap' = 0
       \/ Tokens + n <= TargetTokens /\ Extends /\ UNCHANGED page
    /\ UNCHANGED crumbs

(* A paragraph that begins a chunk repeats the last sentences of the one   *)
(* before, if that has more than two and does not end with a mark.         *)
Repeats == overlap' \in {0, Len(chunks')}

Paragraph(n) ==
    /\ Reads("paragraph", n)
    /\ \/ Tokens + n > TargetTokens /\ Begins(PageOnceKnown) /\ Repeats
       \/ Tokens + n <= TargetTokens /\ Extends /\ page' = PageOnceKnown
    /\ UNCHANGED crumbs

Ends ==
    /\ way # "split" /\ ~ended /\ ended' = TRUE
    /\ chunks' = Flushed(page) /\ current' = << >> /\ overlap' = 0
    /\ UNCHANGED <<way, blocks, crumbs, page, splitting>>

-----------------------------------------------------------------------------
(* SplitIntoChunks.  The text of a chunk is its words.                     *)

WindowEnd == IF at + WindowSize > words THEN words ELSE at + WindowSize
NextWindow == at + WindowSize - WindowOverlap

SplitWindow ==
    /\ way = "split" /\ ~ended /\ at < words
    /\ chunks' = Append(chunks, [text |-> [i \in 1..(WindowEnd - at) |-> at + i],
                                 crumbs |-> <<0, 0, 0>>, overlap |-> 0, page |-> 0])
    /\ \/ WindowEnd = words /\ ended' = TRUE /\ UNCHANGED at
       \/ WindowEnd < words /\ at' = NextWindow /\ UNCHANGED ended
    /\ UNCHANGED <<way, building, words>>

Next ==
    \/ \E n \in Sizes : \/ Heading1(n) \/ Heading2(n) \/ Heading3(n)
                        \/ Table(n) \/ ListItem(n) \/ Paragraph(n)
    \/ Ends \/ SplitWindow

Spec == Init /\ [][Next]_vars

-----------------------------------------------------------------------------

Numbers == Seq(1..(MaxBlocks + MaxWords))
TypeOK ==
    /\ way \in Ways /\ ended \in BOOLEAN
    /\ Len(blocks) <= MaxBlocks
    /\ \A i \in DOMAIN blocks : blocks[i] \in [type : Types(way), tokens : Sizes]
    /\ current \in Numbers /\ crumbs \in Seq(0..MaxBlocks) /\ Len(crumbs) = 3
    /\ page \in 0..MaxBlocks /\ overlap \in 0..Len(chunks)
    /\ \A k \in DOMAIN chunks : chunks[k].text \in Numbers
    /\ words \in 0..MaxWords /\ at \in 0..MaxWords

(* Every block is in one chunk, in the order of the document, and of a     *)
(* split text each window but the last repeats the words it shall into the *)
(* next, which brings new ones (buildChunks, SplitIntoChunks).             *)
NothingIsLost ==
    /\ way # "split" =>
         FlattenSeq([k \in DOMAIN chunks |-> chunks[k].text]) \o current
             = [i \in DOMAIN blocks |-> i]
    /\ way = "split" =>
         /\ \A k \in DOMAIN chunks \ {1} :
              /\ Head(chunks[k].text) = Last(chunks[k - 1].text) - WindowOverlap + 1
              /\ Last(chunks[k].text) > Last(chunks[k - 1].text)
         /\ ended => Head(chunks[1].text) = 1 /\ Last(Last(chunks).text) = words

(* A chunk without a table or code passes the target by its last block     *)
(* only, and then that is a heading or all there is: what is embedded      *)
(* stays near the size it shall have (buildChunks).                        *)
Oversized(text) == TokensOf(text) > TargetTokens
ChunksAreBounded ==
    way # "split" =>
        \A k \in DOMAIN chunks :
            LET text == chunks[k].text
            IN  (\A i \in DOMAIN text : blocks[text[i]].type # "table") /\ Oversized(text) =>
                    /\ ~Oversized(Front(text))
                    /\ Len(text) = 1 \/ blocks[Last(text)].type \in Headings

(* The breadcrumb of a chunk names the headings its last block is under:   *)
(* of each level the last one since a heading above it (updateBreadcrumb). *)
LastOf(type, from, to) ==
    LET found == {i \in from..to : blocks[i].type = type}
    IN  IF found = {} THEN 0 ELSE CHOOSE i \in found : \A j \in found : j <= i
BreadcrumbNamesTheSection ==
    way # "split" =>
        \A k \in DOMAIN chunks :
            LET end == Last(chunks[k].text)
                h1 == LastOf("heading1", 1, end)
                h2 == LastOf("heading2", h1 + 1, end)
                h3 == LastOf("heading3", (IF h2 = 0 THEN h1 ELSE h2) + 1, end)
            IN  chunks[k].crumbs = <<h1, h2, h3>>

(* What a chunk repeats are the last sentences of the chunk before it, in  *)
(* the same chapter, and it is said to begin on the page it begins on, but *)
(* for the first (flush, currentOverlap, currentPage).                     *)
OverlapIsFromBefore ==
    way # "split" =>
        \A k \in DOMAIN chunks :
            /\ chunks[k].overlap # 0 =>
                 /\ chunks[k].overlap = k - 1
                 /\ chunks[k].crumbs[1] = chunks[k - 1].crumbs[1]
            /\ k > 1 => chunks[k].page = PageOf(Head(chunks[k].text))

=============================================================================
