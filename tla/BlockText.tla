----------------------------- MODULE BlockText -----------------------------
(***************************************************************************)
(* Page bodies as Markdown (core/markdown.py): Notion's blocks to Markdown *)
(* and back, line by line.  A line is a sequence of pieces: the prefix of  *)
(* a block, which ends in a space, "pad" (two spaces of indentation), the  *)
(* fence of a code block, or a word.  Levels, ticks, languages and inline  *)
(* marks are left out (module RichText has the marks).                     *)
(***************************************************************************)
EXTENDS Naturals, Sequences, SequencesExt

CONSTANTS Lines,       \* the lines that are typed into Markdown
          Blocks,      \* the blocks a user of Notion may write
          MaxLines, MaxBlocks   \* bounds

Fence == "fence"
Rule  == "---"
Prefix == [heading |-> <<"# ">>, bullet |-> <<"- ">>, todo |-> <<"- ", "[ ] ">>,
           number |-> <<"1. ">>, quote |-> <<"> ">>]
Bare  == ("# " :> "#") @@ ("- " :> "-") @@ ("[ ] " :> "[ ]") @@ ("1. " :> "1.") @@ ("> " :> ">")

VARIABLES md,       \* the Markdown: a sequence of lines
          blocks,   \* [type, text, children]; the text of a block may have several lines
          pc, trips

vars == <<md, blocks, pc, trips>>

Block(type, text) == [type |-> type, text |-> text, children |-> <<>>]

-----------------------------------------------------------------------------
(* notion_blocks_to_markdown                                               *)

Rendered(b) ==
    CASE b.type = "code"      -> <<<<Fence>>>> \o b.text \o <<<<Fence>>>>
      [] b.type = "divider"   -> <<<<Rule>>>>
      [] b.type = "paragraph" -> b.text
      [] OTHER -> <<Prefix[b.type] \o Head(b.text)>> \o Tail(b.text)

Indented(text, depth) ==
    [k \in 1..Len(text) |-> IF text[k] = <<>> THEN <<>>
                            ELSE [j \in 1..depth |-> "pad"] \o text[k]]

Spaced(chunk) == <<<<>>>> \o chunk
RECURSIVE Chomped(_)
Chomped(text) ==        \* strip("\n")
    IF text # <<>> /\ Head(text) = <<>> THEN Chomped(Tail(text))
    ELSE IF text # <<>> /\ Last(text) = <<>> THEN Chomped(Front(text)) ELSE text
Joined(chunks) ==
    LET kept == SelectSeq(chunks, LAMBDA c : c \notin {<<>>, <<<<>>>>})
    IN  IF kept = <<>> THEN <<>>
        ELSE Chomped(FoldLeft(LAMBDA text, c : text \o Spaced(c), Head(kept), Tail(kept)))

RECURSIVE ToMarkdown(_, _)
ToMarkdown(bs, depth) ==
    Joined(FlattenSeq([k \in 1..Len(bs) |->
              <<Indented(Rendered(bs[k]), depth), ToMarkdown(bs[k].children, depth + 1)>>]))

-----------------------------------------------------------------------------
(* markdown_to_notion_blocks                                               *)

RECURSIVE Stripped(_)
Stripped(line) ==        \* rstrip()
    IF line = <<>> THEN <<>>
    ELSE IF Last(line) = "pad" THEN Stripped(Front(line))
    ELSE IF Last(line) \in DOMAIN Bare THEN Append(Front(line), Bare[Last(line)]) ELSE line

RECURSIVE Unpadded(_)
Unpadded(line) == IF line # <<>> /\ Head(line) = "pad" THEN Unpadded(Tail(line)) ELSE line

Begins(line, prefix) == IsPrefix(prefix, line)
Past(line, prefix)   == SubSeq(line, Len(prefix) + 1, Len(line))
BulletFirst == <<"heading", "bullet", "todo", "number">>    \* mutant
Tried       == <<"heading", "todo", "bullet", "number">>

OneLine(line) ==        \* the block of a line that opens no code; a quote loses one space only
    LET fits == SelectSeq(Tried, LAMBDA t : Begins(line, Prefix[t]))
    IN  CASE line = <<Rule>> -> Block("divider", <<>>)
          [] Begins(line, <<">">>) -> Block("quote", <<Past(line, <<">">>)>>)
          [] Begins(line, Prefix["quote"]) -> Block("quote", <<Past(line, Prefix["quote"])>>)
          [] fits # <<>> -> Block(fits[1], <<Unpadded(Past(line, Prefix[fits[1]]))>>)
          [] OTHER -> Block("paragraph", <<line>>)

IsFence(line) == Begins(line, <<Fence>>)
FenceAt(lines) == {k \in 2..Len(lines) : IsFence(lines[k])}

Beyond(end)  == end + 1

RECURSIVE ToBlocks(_)
ToBlocks(lines) ==
    IF lines = <<>> THEN <<>>
    ELSE LET line == Stripped(Head(lines))
         IN  IF line = <<>> THEN ToBlocks(Tail(lines))
             ELSE IF IsFence(line)
             THEN LET end  == IF FenceAt(lines) = {} THEN Len(lines) + 1
                              ELSE CHOOSE k \in FenceAt(lines) : \A j \in FenceAt(lines) : k <= j
                      body == SubSeq(lines, 2, end - 1)
                  IN  <<Block("code", IF body = <<>> THEN <<<<>>>> ELSE body)>>
                      \o ToBlocks(SubSeq(lines, Beyond(end), Len(lines)))
             ELSE <<OneLine(line)>> \o ToBlocks(Tail(lines))

-----------------------------------------------------------------------------
(* Back and forth                                                          *)

Init == md = <<>> /\ blocks = <<>> /\ pc = "typing" /\ trips = 0

Type == /\ pc = "typing" /\ blocks = <<>> /\ Len(md) < MaxLines
        /\ \E line \in Lines : md' = Append(md, line)
        /\ UNCHANGED <<blocks, pc, trips>>

WriteBlock == /\ pc = "typing" /\ md = <<>> /\ Len(blocks) < MaxBlocks
              /\ \E b \in Blocks : blocks' = Append(blocks, b)
              /\ UNCHANGED <<md, pc, trips>>

ToNotion == /\ pc = "md" \/ (pc = "typing" /\ md # <<>>)
            /\ trips < 2
            /\ blocks' = ToBlocks(md) /\ pc' = "blocks"
            /\ UNCHANGED <<md, trips>>

ToMd == /\ pc = "blocks" \/ (pc = "typing" /\ blocks # <<>>)
        /\ md' = ToMarkdown(blocks, 0) /\ pc' = "md" /\ trips' = trips + 1
        /\ UNCHANGED blocks

Next == Type \/ WriteBlock \/ ToNotion \/ ToMd
Spec == Init /\ [][Next]_vars

-----------------------------------------------------------------------------
(* What is promised                                                        *)

\* body_projection: the lines without their trailing spaces, one blank line at
\* most between two others.
RECURSIVE Single(_)
Single(text) == IF Len(text) < 2 THEN text
                ELSE IF text[1] = <<>> /\ text[2] = <<>> THEN Single(Tail(text))
                ELSE <<Head(text)>> \o Single(Tail(text))
Projection(text) == Chomped(Single([k \in 1..Len(text) |-> Stripped(text[k])]))

Again(text) == ToMarkdown(ToBlocks(text), 0)

\* A text of one line, or code that shows no fence; so are the blocks within it.
Lined(b) == IF b.type = "code" THEN \A k \in 1..Len(b.text) : ~IsFence(b.text[k]) ELSE Len(b.text) <= 1
Settled(bs) == \A k \in 1..Len(bs) : /\ Lined(bs[k])
                                      /\ \A j \in 1..Len(bs[k].children) : Lined(bs[k].children[j])

\* "Converting the same content back and forth must land on the identical
\* canonical Markdown": the body hashes of one conversion and the next agree, if
\* no text has a line break in it and no code a fence.
BodyStable == [][pc' = "md" /\ blocks # <<>> /\ Settled(blocks) => Projection(Again(md')) = Projection(md')]_vars

\* The same of every page, as the module's docstring has it: "a hard requirement".
\* The code does not keep it: a line break in a text comes back as two blocks, and
\* a fence in code as its end.
AlwaysStable == [][pc' = "md" /\ blocks # <<>> => Projection(Again(md')) = Projection(md')]_vars

\* A line that is not empty and begins like no block, nor with a space.
Markers  == {"pad", Rule, Fence} \cup DOMAIN Bare \cup {Bare[p] : p \in DOMAIN Bare}
Kept(b)  == /\ b.children = <<>> /\ Lined(b)
            /\ b.type \notin {"code", "divider"} => b.text[1] # <<>> /\ Head(b.text[1]) \notin Markers

\* The supported blocks a user of Notion wrote come back as the blocks they were, in
\* their order, if their texts begin like no block: what one renders is not taken for
\* another, nor for part of its neighbour.  (What is nested comes back as text:
\* "one-way"; a paragraph "# x" as a heading.)
BlocksSurvive == [][pc = "md" /\ trips >= 1 /\ (\A k \in 1..Len(blocks) : Kept(blocks[k]))
                       => blocks' = blocks]_vars
=============================================================================
