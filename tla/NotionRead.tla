----------------------------- MODULE NotionRead -----------------------------
(***************************************************************************)
(* One page's body read from Notion: the block tree fetched listing by     *)
(* listing and page by page through the retrying client (client.py,        *)
(* read.py), rendered to text with the ids of its child pages              *)
(* (notion_blocks_to_markdown, collect_child_page_ids).  Blocks are        *)
(* numbered in document order; a text is the block it belongs to.          *)
(***************************************************************************)
EXTENDS Naturals, Sequences, SequencesExt

CONSTANTS Trees,      \* the pages that may be read: [kids, type, refuse]
          NumBlocks,
          PageSize,   \* results in one answer (100 of Notion's)
          MaxDepth,   \* _MAX_BLOCK_DEPTH (6)
          Attempts,   \* sends of one request (5)
          Patience    \* busy answers in a row the server may give one request

Blocks == 1..NumBlocks
Page   == 0
Ids    == Blocks \cup {Page}

\* "bare" is a layout block without text of its own (column_list, synced_block).
Types    == {"text", "bare", "table", "table_row", "child_page", "child_database"}
\* What Notion answers about a block's children: "old1" and "old2" are a 400 to the
\* pinned API version on the first and the second page of results.
Refusals == {"none", "old1", "old2", "bad", "gone"}

NotionReadConstants ==
    /\ \A t \in Trees : /\ t.type \in [Blocks -> Types] /\ t.refuse \in [Ids -> Refusals]
                        /\ \A i \in Ids : \A k \in DOMAIN t.kids[i] :
                             t.kids[i][k] \in Blocks /\ t.kids[i][k] > i
    /\ PageSize > 0 /\ Attempts > 0 /\ Patience \in 0..Attempts

VARIABLES tree,      \* what Notion holds
          stack,     \* the calls of _fetch_block_tree, innermost first
          req,       \* the request under way: its failures so far
          children,  \* block["children"] as attached
          res        \* "reading", "body" or "failed"

vars == <<tree, stack, req, children, res>>

Frame(id, version) == [id |-> id, version |-> version, got |-> <<>>, pos |-> 0]
NoFailure == [tries |-> 0, dropped |-> FALSE]

Init == /\ tree \in Trees
        /\ stack = <<Frame(Page, "pinned")>>
        /\ req = NoFailure
        /\ children = [i \in Ids |-> <<>>]
        /\ res = "reading"

Top     == stack[1]
Asking  == res = "reading" /\ Top.pos = 0      \* a listing still has pages to come
Walking == res = "reading" /\ Top.pos > 0      \* the loop over the listed blocks

-----------------------------------------------------------------------------
(* NotionClient.request and paginate                                       *)

Refused == LET r == tree.refuse[Top.id]
               second == Len(Top.got) >= PageSize
           IN  CASE r = "gone" -> 404
                 [] r = "bad"  -> 400
                 [] r = "old1" /\ Top.version = "pinned" -> 400
                 [] r = "old2" /\ Top.version = "pinned" /\ second -> 400
                 [] OTHER -> 200

Rest(n) == Len(tree.kids[Top.id]) - n
Slice == SubSeq(tree.kids[Top.id], Len(Top.got) + 1,
                Len(Top.got) + Min({PageSize, Rest(Len(Top.got))}))
More == Rest(Len(Top.got)) > PageSize     \* has_more, with a next_cursor

Answer ==          \* a page of results; the last one ends the listing
    /\ Asking /\ Refused = 200
    /\ stack' = [stack EXCEPT ![1].got = @ \o Slice, ![1].pos = IF More THEN 0 ELSE 1]
    /\ req' = NoFailure
    /\ UNCHANGED <<tree, children, res>>

\* An exception leaves get_block_children.  The loop one call up takes an
\* HTTPStatusError and leaves the block without children; nothing takes a
\* TransportError, and nothing an error of the page's own listing.
SwallowAll(kind) == Len(stack) > 1        \* mutant: any exception is taken
Swallowed(kind) == kind = "status" /\ Len(stack) > 1
Raise(kind) ==
    /\ IF Swallowed(kind)
       THEN /\ stack' = [Tail(stack) EXCEPT ![1].pos = @ + 1] /\ res' = res
       ELSE /\ stack' = <<>> /\ res' = "failed"
    /\ req' = NoFailure

Fallback == Frame(Top.id, "newer")

BadRequest ==      \* 400, 404: once more with the newer version, or raised
    /\ Asking /\ Refused # 200
    /\ IF Refused = 400 /\ Top.version = "pinned"
       THEN stack' = [stack EXCEPT ![1] = Fallback] /\ req' = NoFailure /\ res' = res
       ELSE Raise("status")
    /\ UNCHANGED <<tree, children>>

StartOver(tries) == (tries + 1) % Attempts   \* mutant: after the last, the first
Counted(tries) == tries + 1

Failed(dropped) ==
    /\ Asking
    /\ IF Counted(req.tries) < Attempts
       THEN /\ req' = [tries |-> Counted(req.tries), dropped |-> req.dropped \/ dropped]
            /\ UNCHANGED <<stack, res>>
       ELSE Raise(IF req.dropped \/ dropped THEN "transport" ELSE "status")
    /\ UNCHANGED <<tree, children>>

Busy == (req.dropped \/ req.tries < Patience) /\ Failed(FALSE)   \* 429 or 5xx
Drop == Failed(TRUE)                                            \* TransportError

-----------------------------------------------------------------------------
(* _fetch_block_tree                                                       *)

Depth == Len(stack) - 1
NoRecurse == {"child_page", "child_database"}
Recurses(b) == tree.kids[b] # <<>> /\ tree.type[b] \notin NoRecurse /\ Depth < MaxDepth

Descend ==
    /\ Walking /\ Top.pos <= Len(Top.got) /\ Recurses(Top.got[Top.pos])
    /\ stack' = <<Frame(Top.got[Top.pos], "pinned")>> \o stack
    /\ UNCHANGED <<tree, req, children, res>>

Pass ==            \* a block without children to read
    /\ Walking /\ Top.pos <= Len(Top.got) /\ ~Recurses(Top.got[Top.pos])
    /\ stack' = [stack EXCEPT ![1].pos = @ + 1]
    /\ UNCHANGED <<tree, req, children, res>>

Return ==
    /\ Walking /\ Top.pos > Len(Top.got)
    /\ children' = [children EXCEPT ![Top.id] = Top.got]
    /\ IF Len(stack) = 1
       THEN stack' = <<>> /\ res' = "body"
       ELSE stack' = [Tail(stack) EXCEPT ![1].pos = @ + 1] /\ res' = res
    /\ UNCHANGED <<tree, req>>

-----------------------------------------------------------------------------
(* notion_blocks_to_markdown and collect_child_page_ids                    *)

WithText(b) == tree.type[b] = "text"     \* mutant: no text, no children
WithChildren(b) == tree.type[b] \notin {"child_page", "table"}

RECURSIVE Chunks(_, _)
Chunks(blocks, depth) ==      \* the texts in order, each with its indentation
    FlattenSeq([k \in DOMAIN blocks |->
        LET b == blocks[k]
            own == CASE tree.type[b] \in {"bare", "table_row"} -> <<>>
                     [] tree.type[b] = "table" ->    \* one chunk: a line a row
                          [r \in DOMAIN children[b] |-> [id |-> children[b][r], depth |-> depth]]
                     [] OTHER -> <<[id |-> b, depth |-> depth]>>
        IN  own \o IF WithChildren(b) THEN Chunks(children[b], depth + 1) ELSE <<>>])
Body == Chunks(children[Page], 0)

RECURSIVE Found(_)
Found(blocks) == UNION {IF tree.type[b] = "child_page" THEN {b} ELSE Found(children[b]) :
                           b \in {blocks[k] : k \in DOMAIN blocks}}
ChildIds == Found(children[Page])

-----------------------------------------------------------------------------
(* What a read promises                                                    *)

TypeOK == /\ tree \in Trees /\ res \in {"reading", "body", "failed"}
          /\ (res = "reading") = (stack # <<>>) /\ Len(stack) <= MaxDepth + 1
          /\ \A k \in DOMAIN stack : /\ stack[k].id \in Ids /\ stack[k].version \in {"pinned", "newer"}
                                     /\ stack[k].got \in Seq(Blocks) /\ stack[k].pos \in Nat
          /\ req.tries \in 0..(Attempts - 1) /\ req.dropped \in BOOLEAN
          /\ \A i \in Ids : children[i] \in Seq(Blocks)

Parent(b) == CHOOSE i \in Ids : \E k \in DOMAIN tree.kids[i] : tree.kids[i][k] = b
Ancestors(b) ==               \* the blocks b lies in
    LET up[n \in 0..NumBlocks] == IF n = 0 THEN {b}
                                  ELSE up[n - 1] \cup {Parent(x) : x \in up[n - 1] \ {Page}}
    IN  up[NumBlocks] \ {b, Page}
Readable(i) == tree.refuse[i] \notin {"bad", "gone"}
Lies(b)    == Cardinality(Ancestors(b))
Visible(b) == /\ Lies(b) <= MaxDepth
              /\ \A a \in Ancestors(b) : Readable(a) /\ tree.type[a] \notin NoRecurse
Texts == {b \in Blocks : Visible(b) /\ tree.type[b] \notin {"bare", "table"}}
Indent(b) == IF tree.type[b] = "table_row" THEN Lies(b) - 1 ELSE Lies(b)

\* A read that gives a body gives all of it: every text Notion lets be read, once,
\* in document order and at its depth, across pages of results, API versions,
\* retries and blocks whose children cannot be listed.
Whole == res = "body" =>
    Body = [k \in 1..Cardinality(Texts) |->
              LET b == SetToSortSeq(Texts, <)[k] IN [id |-> b, depth |-> Indent(b)]]

\* The child pages found are those that lie anywhere in the body, "including ones
\* nested inside layout/container blocks", and nothing below a child page.
ChildrenFound == res = "body" =>
    ChildIds = {b \in Blocks : Visible(b) /\ tree.type[b] = "child_page"}

\* "report has_children but 400/404 on /children. Skip those": only children
\* that Notion refuses are left out of a body.
OnlyRefusedSkipped == res = "body" =>
    \A b \in Blocks : Visible(b) /\ tree.type[b] = "text" => \E k \in DOMAIN Body : Body[k].id = b

\* Every read ends, in a body or an error, however often the server is busy or
\* the connection drops (paginate trusts has_more and next_cursor to agree).
ReadEnds == <>(res # "reading")

-----------------------------------------------------------------------------
Next == Answer \/ BadRequest \/ Busy \/ Drop \/ Descend \/ Pass \/ Return

Spec == Init /\ [][Next]_vars /\ WF_vars(Next)
=============================================================================
