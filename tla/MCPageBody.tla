----------------------------- MODULE MCPageBody -----------------------------
(***************************************************************************)
(* A page's body on its way, one machine at a time: read from Notion       *)
(* (NotionRead), converted inline and block by block (RichText, BlockText),*)
(* written to its Doc and read back (DocText).  A behaviour runs one of    *)
(* the four, the others stay in an initial state: their state spaces add   *)
(* up and do not multiply.                                                 *)
(***************************************************************************)
EXTENDS Naturals, Sequences, SequencesExt, TLC

CONSTANTS Parts,      \* the machines that may run: "read", "inline", "blocks", "doc"
          Trees, NumBlocks, PageSize, MaxDepth, Attempts, Patience,
          Pieces, Spans, MaxLen, MaxSpans,
          Lines, PageBlocks, MaxLines, MaxBlocks,
          Writers, Bodies, Typed, Wide, Allowed, MaxWrites, MaxEdits,
          ann, bob

VARIABLES part, tree, stack, req, children, res,
          doc, w, shown, calm, writes, edits,
          md, spans, blocks, pc, trips

reading    == <<tree, stack, req, children, res>>
document   == <<doc, w, shown, calm, writes, edits>>
converting == <<md, spans, blocks, pc, trips>>
vars       == <<part, reading, document, converting>>

Read   == INSTANCE NotionRead
Doc    == INSTANCE DocText
Inline == INSTANCE RichText
Block  == INSTANCE BlockText WITH Blocks <- PageBlocks

ASSUME ConstantsAssumption == Read!NotionReadConstants /\ Doc!DocTextConstants

Init == /\ part \in Parts
        /\ Read!Init /\ (part # "read" => tree = CHOOSE t \in Trees : TRUE)
        /\ Doc!Init /\ Inline!Init /\ Block!Init

Reads    == part = "read" /\ Read!Next /\ UNCHANGED <<part, document, converting>>
Converts == \/ part = "inline" /\ Inline!Next /\ UNCHANGED <<part, reading, document, blocks>>
            \/ part = "blocks" /\ Block!Next /\ UNCHANGED <<part, reading, document, spans>>
Writes   == part = "doc" /\ Doc!Next /\ UNCHANGED <<part, reading, converting>>

Next == Reads \/ Converts \/ Writes
Spec == Init /\ [][Next]_vars /\ WF_vars(Reads)

-----------------------------------------------------------------------------
(* What is promised of a body (each is stated in the machine's module)     *)

\* A read that gives a body gives all of it, in order and depth (_fetch_block_tree).
Whole == Read!Whole

\* The child pages found are those that lie anywhere in the body
\* (collect_child_page_ids), so no page of the workspace is lost to a layout block.
ChildrenFound == Read!ChildrenFound

\* Every read ends, in a body or an error (paginate, request, get_block_children).
ReadEnds == part = "read" => Read!ReadEnds

\* A write that finds the Doc as it read it leaves exactly its body (write_markdown).
WriteReplaces == Doc!WriteReplaces

\* The Markdown that one conversion rendered comes back from the next, marks inside
\* a line and the lines themselves, if no character of the markup is left against a
\* marker, no text has two lines and no code a fence (core/markdown.py: "round-trip
\* stability").
RoundTripStable == Inline!RoundTripStable /\ Block!BodyStable

\* What a user wrote in Notion comes back as it was, if it does not look like
\* markup: every character with its annotations and link, every supported block as
\* the block it was.
WrittenSurvives == Inline!SpansSurvive /\ Block!BlocksSurvive

-----------------------------------------------------------------------------
(* The same promises where the code does not keep them (see the README)    *)

EntireBody         == Doc!EntireBody
OnlyRefusedSkipped == Read!OnlyRefusedSkipped
AlwaysStable       == Inline!AlwaysStable /\ Block!AlwaysStable

-----------------------------------------------------------------------------
(* Names of the machines' constants for the inputs below; these instances   *)
(* take none of the inputs themselves.                                     *)
Nodes   == INSTANCE NotionRead WITH Trees <- {}
Inlines == INSTANCE RichText WITH Pieces <- {}, Spans <- {}
Lined   == INSTANCE BlockText WITH Lines <- {}, Blocks <- {}

(* Block trees: three blocks over two pages of results, the second holding *)
(* two more, one of which holds a sixth.                                   *)

Shape == [i \in Nodes!Ids |-> CASE i = 0 -> <<1, 2, 6>> [] i = 2 -> <<3, 5>> [] i = 3 -> <<4>>
                               [] OTHER -> <<>>]
TableShape == [i \in Nodes!Ids |-> CASE i = 0 -> <<1, 2, 5, 6>> [] i = 2 -> <<3, 4>> [] OTHER -> <<>>]
Tree(outer, inner, leaf, r0, r2, r3) ==
    [kids |-> IF outer = "table" THEN TableShape ELSE Shape,
     type |-> [b \in Nodes!Blocks |-> CASE b = 2 -> outer
                                       [] b \in {3, 4} /\ outer = "table" -> "table_row"
                                       [] b = 3 -> inner [] b = 4 -> leaf [] OTHER -> "text"],
     refuse |-> [i \in Nodes!Ids |-> CASE i = 0 -> r0 [] i = 2 -> r2 [] i = 3 -> r3 [] OTHER -> "none"]]

TreesMC == {Tree(outer, inner, leaf, r0, r2, r3) :
              outer \in {"text", "bare", "table", "child_page"},
              inner \in {"text", "bare", "child_page"}, leaf \in {"text", "child_page"},
              r0 \in {"none", "old2", "gone"}, r2 \in {"none", "old1", "bad"}, r3 \in {"none", "gone"}}

TreesPlain == {Tree("text", "text", "text", "none", "none", "none")}

(* Inline: the markers and the halves of a link are typed whole; spans of  *)
(* one letter with any annotations and link, and plain ones of markup.     *)
Typing  == {<<"a">>, <<"_">>, <<"*">>, <<"*", "*">>, <<"~", "~">>, <<"tick">>,
            <<"[">>, <<"]", "(">>, <<")">>}
AnySpan == [text : {<<"a">>}, ann : SUBSET Inlines!Annotations, link : {Inlines!NoLink, <<"u">>}]
             \cup {Inlines!Span(text, {}, Inlines!NoLink) : text \in {<<"_">>, <<"_", "a", "_">>, <<"*">>}}
             \cup {Inlines!Span(<<"*">>, {"bold"}, Inlines!NoLink)}

(* Blocks: lines that look like blocks, and blocks with one of the lines,  *)
(* with no text, with two lines or with code that shows a fence.           *)
AnyLine == {<<>>, <<"x">>, <<"pad", "x">>, <<"x", "pad">>, <<Lined!Fence>>, <<Lined!Fence, "x">>,
            <<"pad", Lined!Fence>>, <<Lined!Rule>>, <<">">>, <<">", "x">>, <<"- ">>, <<"# ", "- ", "x">>,
            <<"> ", "pad", "x">>}
               \cup {Lined!Prefix[t] \o <<"x">> : t \in DOMAIN Lined!Prefix}
Flat   == {Lined!Block(t, <<<<"x">>>>) : t \in DOMAIN Lined!Prefix \cup {"paragraph"}}
Odd    == {Lined!Block(t, text) : t \in {"paragraph", "bullet"},
             text \in {<<<<>>>>, <<<<"# ", "x">>>>, <<<<"[ ] ", "x">>>>, <<<<"x">>, <<"x">>>>}}
             \cup {Lined!Block("code", <<<<Lined!Fence>>>>)}
Plain  == Flat \cup Odd \cup {Lined!Block("divider", <<>>)}
             \cup {Lined!Block("code", t) : t \in {<<<<>>>>, <<<<"- ", "x">>, <<>>, <<"pad", Lined!Rule>>>>}}
Nested == Plain \cup {[Lined!Block("bullet", <<<<"x">>>>) EXCEPT !.children = <<b>>] : b \in Flat}

(* The Doc: bodies of up to two lines, as strip("\n") leaves them, over a  *)
(* blank line, a text, a heading and an emoji (below any heading: see the  *)
(* README); what a user may leave at the end.                              *)
Line(level, text) == [level |-> level, text |-> text]
Title    == Line(1, <<"a", "b">>)
LinesMC  == {Line(0, <<>>), Line(0, <<"a">>), Title, Line(0, <<"emoji">>)}
BodiesMC == {<<l>> : l \in LinesMC} \cup {<<Line(0, <<"a">>), Title>>}
              \cup {<<Title, l>> : l \in LinesMC \ {Line(0, <<>>)}}
TypedMC == {Line(0, <<>>), Line(0, <<"a">>)}
BodiesWide  == {<<l, Title>> : l \in LinesMC}
=============================================================================
