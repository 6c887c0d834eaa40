-------------------------- MODULE DeltaPollProofs ---------------------------
(***************************************************************************)
(* Why no edit slips below the watermark of the poll, for every tree of    *)
(* pages, every number of edits, faults and webhook threads: what a search *)
(* does not list was edited too late for it, and is then younger than all  *)
(* it lists.                                                               *)
(***************************************************************************)
EXTENDS DeltaPoll, WellFoundedInduction, TLAPS

\* No edit, listing or watermark is younger than the clock, no listing younger
\* than its page.
ClockOK == /\ \A p \in Pages : let[p].time <= clock /\ found[p].time <= let[p].time
           /\ watermark <= clock /\ clock <= edits

\* Edits are counted: a page had no more of them than there were.
Counted == \A p \in Pages : let[p].nr <= edits

IdleOK  == pc = "idle" => todo = {}
HooksOK == \A p \in Pages : hooks[p] # {} => p \in Hooked

\* An edit that neither the present watermark nor the next one reaches.
Ahead(p) == let[p].time > watermark /\ \A q \in Pages : let[p].time > found[q].time

\* While it runs, a search has listed a page as it is, or still has it below its
\* cursor, or the page was edited above the cursor and is younger than all listed.
ListedOK == \A p \in Pages : found[p] # None => cursor <= found[p].time /\ found[p].time > watermark
Accounted(p) == \/ let[p].time <= watermark
                \/ found[p] = let[p]
                \/ p \in Below
                \/ Ahead(p) /\ let[p].time > cursor
SearchOK == pc = "search" => /\ ListedOK
                             /\ \A p \in Pages : p \in todo <=> found[p] # None
                             /\ \A p \in Exists : Accounted(p)

\* While the listed pages are mirrored, those that are done show their last edit
\* or are known to be missed, unless it came after the search.
ItemsOK == pc = "items" =>
    /\ \A p \in todo : found[p] = let[p] \/ Ahead(p)
    /\ \A p \in Exists \ (Hooked \cup todo) : Fresh(p) \/ Ahead(p) \/ p \in missed

CrawlOK == pc = "crawl" => \A p \in todo : found[p] = let[p] \/ let[p].time > watermark

Jobs == SearchOK /\ ItemsOK /\ CrawlOK
IInv == TypeOK /\ ClockOK /\ Counted /\ IdleOK /\ HooksOK /\ Jobs /\ NothingSlips

-----------------------------------------------------------------------------
\* At the start no page exists.
LEMMA InitIInv == Init => IInv
<1> SUFFICES ASSUME Init PROVE IInv
  OBVIOUS
<1>1. TypeOK
  BY BoundAssumption DEF Init, TypeOK, Times, Edits, None
<1>2. ClockOK /\ Counted /\ IdleOK /\ HooksOK
  BY DEF Init, ClockOK, Counted, IdleOK, HooksOK, None
<1>3. Jobs /\ NothingSlips
  BY DEF Init, Jobs, SearchOK, ItemsOK, CrawlOK, NothingSlips, Exists
<1> QED
  BY <1>1, <1>2, <1>3 DEF IInv

\* A bounded, nonempty set of natural numbers has a greatest member: the one whose
\* distance from the bound is least.  A CHOOSE says something only of what exists.
LEMMA MaximumExists ==
    ASSUME NEW N \in Nat, NEW T \in SUBSET (0..N), T # {}
    PROVE  \E m \in T : \A y \in T : y <= m
<1> DEFINE Less     == {q \in Nat \X Nat : q[1] < q[2]}
           Distance == {x \in 0..N : N - x \in T}
<1>1. ASSUME NEW y \in T PROVE N - y \in Distance /\ N - (N - y) = y
  BY y \in 0..N
<1>2. Distance \subseteq Nat /\ Distance # {}
  <2>1. PICK t \in T : TRUE
    OBVIOUS
  <2> QED
    BY <1>1, <2>1
<1>3. IsWellFoundedOn(Less, Nat)
  BY NatLessThanWellFounded DEF OpToRel
<1>4. PICK x \in Distance : \A y \in Distance : <<y, x>> \notin Less
  <2> HIDE DEF Distance, Less
  <2> QED
    BY <1>2, <1>3, WFMin
<1>5. ASSUME NEW y \in T PROVE y <= N - x
  <2>1. y \in 0..N /\ N - y \in Nat /\ x \in 0..N
    BY <1>1, <1>4
  <2>2. <<N - y, x>> \notin Less
    BY <1>1, <1>4
  <2>3. ~(N - y < x)
    BY <2>1, <2>2
  <2> QED
    BY <2>1, <2>3
<1> QED
  BY <1>4, <1>5

\* The new watermark is the time of a listed edit or the old one, and none of
\* them is younger.
LEMMA NewestIs ==
    ASSUME TypeOK
    PROVE  /\ Newest \in {found[p].time : p \in Pages} \cup {watermark}
           /\ Newest >= watermark /\ \A p \in Pages : Newest >= found[p].time
<1> DEFINE times == {found[p].time : p \in Pages} \cup {watermark}
<1>1. times \in SUBSET (0..MaxEdits) /\ times # {} /\ MaxEdits \in Nat
  BY BoundAssumption DEF TypeOK, Times, Edits
<1>2. \E t \in times : \A u \in times : u <= t
  <2> HIDE DEF times
  <2> QED
    BY <1>1, MaximumExists
<1>3. Newest \in times /\ \A u \in times : u <= Newest
  BY <1>2 DEF Newest
<1>4. \A u \in times : Newest >= u
  BY <1>1, <1>3
<1> QED
  BY <1>3, <1>4

\* Whatever comes of an item, what the mirror shows is edits of its pages.
LEMMA EffectTyped ==
    ASSUME TypeOK, NEW p \in Pages, NEW record \in Edits,
           \/ Mirrored(p, record) \/ Skipped(p) \/ Failed(p)
           \/ Broken(p) /\ UNCHANGED missed
    PROVE  /\ shown' \in [Pages -> [record : Edits, body : Edits]]
           /\ tracked' \subseteq Pages /\ missed' \subseteq Pages
<1>1. /\ shown \in [Pages -> [record : Edits, body : Edits]] /\ let[p] \in Edits
      /\ tracked \subseteq Pages /\ missed \subseteq Pages
  BY DEF TypeOK
<1>2. [shown EXCEPT ![p].body = let[p]] \in [Pages -> [record : Edits, body : Edits]]
  BY <1>1
<1> QED
  BY <1>1, <1>2 DEF Mirrored, Skipped, Failed, Broken

-----------------------------------------------------------------------------
(* One lemma for each kind of step                                         *)

\* An edit of a time that no poll has listed is younger than everything listed or saved.
LEMMA EditKeeps ==
    ASSUME Late = FALSE, IInv, NEW p \in Pages, Edit(p)
    PROVE  IInv'
<1> USE BoundAssumption DEF IInv, Jobs, Times
<1>0. /\ let \in [Pages -> Edits] /\ found \in [Pages -> Edits]
      /\ \A q \in Pages : /\ let[q] \in Edits /\ let[q].time \in 0..MaxEdits
                          /\ found[q].time \in 0..MaxEdits
  BY DEF TypeOK, Edits
<1>1. /\ let' = [let EXCEPT ![p] = [nr |-> let[p].nr + 1, time |-> clock']]
      /\ edits < MaxEdits /\ edits' = edits + 1
      /\ clock' \in {clock, clock + 1} /\ clock' # 0 /\ Unlisted(clock')
      /\ UNCHANGED <<watermark, tracked, shown, pc, todo, found, cursor, missed, hooks, faults>>
  BY DEF Edit
<1>2. /\ let'[p] = [nr |-> let[p].nr + 1, time |-> clock']
      /\ \A q \in Pages \ {p} : let'[q] = let[q]
  BY <1>0, <1>1
<1>3. /\ clock \in 0..MaxEdits /\ clock <= clock' /\ clock' <= edits' /\ clock' \in 0..MaxEdits
      /\ let'[p].time = clock' /\ let'[p] # None /\ let'[p].time > watermark
  BY <1>1, <1>2 DEF ClockOK, TypeOK, None, Unlisted
<1>4. TypeOK'
  <2>1. let[p].nr + 1 \in 0..MaxEdits
    BY <1>0, <1>1 DEF Counted, TypeOK, Edits
  <2>2. let'[p] \in Edits
    BY <1>2, <1>3, <2>1 DEF Edits
  <2>3. let' \in [Pages -> Edits]
    BY <1>0, <1>1, <1>2, <2>2
  <2> QED
    BY <1>1, <1>3, <2>3 DEF TypeOK
<1>5. ClockOK' /\ Counted' /\ IdleOK' /\ HooksOK'
  BY <1>0, <1>1, <1>2, <1>3 DEF ClockOK, Counted, IdleOK, HooksOK, TypeOK, Counted, Edits
<1>6. pc \in {"search", "items"} => Ahead(p)'
  BY <1>1, <1>3 DEF Ahead, Unlisted
<1>7. \A q \in Pages \ {p} : /\ Fresh(q)' <=> Fresh(q)
                             /\ Ahead(q)' <=> Ahead(q)
                             /\ q \in Exists' <=> q \in Exists
                             /\ q \in Below' <=> q \in Below
  BY <1>1, <1>2 DEF Fresh, Ahead, Exists, Below
<1>8. SearchOK'
  <2>1. SUFFICES ASSUME pc = "search" PROVE SearchOK'
    BY <1>1 DEF SearchOK
  <2>2. ListedOK' /\ \A q \in Pages : q \in todo' <=> found'[q] # None
    BY <1>1, <2>1 DEF SearchOK, ListedOK
  <2>3. Accounted(p)'
    <3>1. CASE clock' > cursor
      BY <1>1, <1>3, <1>6, <2>1, <3>1 DEF Accounted
    <3>2. CASE clock' <= cursor
      <4>1. found[p] = None
        BY <1>0, <1>1, <1>3, <2>1, <3>2 DEF SearchOK, ListedOK, Unlisted, TypeOK
      <4> QED
        BY <1>1, <1>2, <1>3, <3>2, <4>1 DEF Accounted, Below, Exists
    <3> QED
      BY <1>3, <3>1, <3>2 DEF TypeOK
  <2>4. ASSUME NEW q \in Exists', q # p PROVE Accounted(q)'
    <3>1. q \in Exists /\ Accounted(q)
      BY <1>7, <2>1, <2>4 DEF SearchOK, Exists
    <3> QED
      BY <1>1, <1>2, <1>7, <2>4, <3>1 DEF Accounted, Exists
  <2> QED
    BY <2>2, <2>3, <2>4 DEF SearchOK
<1>9. ItemsOK'
  BY <1>1, <1>2, <1>6, <1>7 DEF ItemsOK, Exists, TypeOK
<1>10. CrawlOK'
  BY <1>1, <1>2, <1>3 DEF CrawlOK, TypeOK
<1>11. NothingSlips'
  BY <1>1, <1>2, <1>3, <1>7 DEF NothingSlips, Exists
<1> QED
  BY <1>4, <1>5, <1>8, <1>9, <1>10, <1>11

\* A search starts with nothing listed and its cursor above every page.
LEMMA StartPollKeeps == ASSUME IInv, StartPoll PROVE IInv'
<1> USE BoundAssumption DEF IInv, Jobs, StartPoll, Elsewhere, Times, Edits, None
<1>1. TypeOK'
  BY DEF TypeOK
<1>2. ClockOK' /\ Counted' /\ IdleOK' /\ HooksOK' /\ NothingSlips'
  BY DEF ClockOK, Counted, IdleOK, HooksOK, TypeOK, NothingSlips, Fresh, Exists
<1>3. SearchOK'
  <2>1. ListedOK' /\ \A p \in Pages : p \in todo' <=> found'[p] # None
    BY DEF ListedOK, IdleOK
  <2>2. ASSUME NEW p \in Exists' PROVE Accounted(p)'
    BY DEF Accounted, Below, Exists, TypeOK
  <2> QED
    BY <2>1, <2>2 DEF SearchOK
<1>4. ItemsOK' /\ CrawlOK'
  BY DEF ItemsOK, CrawlOK
<1> QED
  BY <1>1, <1>2, <1>3, <1>4

\* The youngest page below the cursor is listed: all the others below it stay so.
LEMMA SearchKeeps == ASSUME IInv, NEW p \in Pages, Search(p) PROVE IInv'
<1> USE BoundAssumption DEF IInv, Jobs, Search, Elsewhere, Times, Edits, None
<1>1. TypeOK'
  BY DEF TypeOK
<1>2. p \in Exists /\ let[p].time <= cursor /\ let[p].time > watermark /\ found[p] = None
  BY DEF Below
<1>3. /\ found' = [found EXCEPT ![p] = let[p]] /\ cursor' = let[p].time
      /\ found'[p] = let[p] /\ \A q \in Pages \ {p} : found'[q] = found[q]
  BY DEF TypeOK
<1>4. ClockOK' /\ Counted' /\ IdleOK' /\ HooksOK' /\ NothingSlips'
  BY <1>3 DEF ClockOK, Counted, IdleOK, HooksOK, TypeOK, NothingSlips, Fresh, Exists
<1>5. SearchOK'
  <2>1. SearchOK /\ pc = "search"
    OBVIOUS
  <2>2. ListedOK'
    BY <1>2, <1>3, <2>1 DEF ListedOK, SearchOK, TypeOK, Exists
  <2>3. \A q \in Pages : q \in todo' <=> found'[q] # None
    BY <1>2, <1>3, <2>1 DEF SearchOK, Exists
  <2>4. ASSUME NEW q \in Exists' PROVE Accounted(q)'
    <3>1. q \in Exists /\ Accounted(q)
      BY <2>1, <2>4 DEF SearchOK, Exists
    <3>2. CASE let[q].time <= watermark \/ found[q] = let[q] \/ q = p
      BY <1>3, <3>1, <3>2 DEF Accounted, Exists
    <3>3. CASE q \in Below /\ q # p
      <4>1. let[q].time <= let[p].time
        BY <3>3
      <4> QED
        BY <1>3, <3>3, <4>1 DEF Accounted, Below, Exists
    <3>4. CASE Ahead(q) /\ let[q].time > cursor /\ q # p
      <4>1. let[q].time > let[p].time
        BY <1>2, <3>4 DEF TypeOK, Exists
      <4>2. Ahead(q)'
        BY <1>3, <3>4, <4>1 DEF Ahead
      <4> QED
        BY <1>3, <4>1, <4>2 DEF Accounted
    <3> QED
      BY <3>1, <3>2, <3>3, <3>4 DEF Accounted
  <2> QED
    BY <2>2, <2>3, <2>4 DEF SearchOK
<1>6. ItemsOK' /\ CrawlOK'
  BY DEF ItemsOK, CrawlOK
<1> QED
  BY <1>1, <1>4, <1>5, <1>6

\* When nothing is left below the cursor, whatever is not listed is shown, missed or
\* ahead of all that is listed.
LEMMA EndSearchKeeps == ASSUME IInv, EndSearch PROVE IInv'
<1> USE BoundAssumption DEF IInv, Jobs, EndSearch, Elsewhere, Times, Edits, None
<1>1. TypeOK'
  BY DEF TypeOK
<1>2. ClockOK' /\ Counted' /\ IdleOK' /\ HooksOK' /\ NothingSlips'
  BY DEF ClockOK, Counted, IdleOK, HooksOK, TypeOK, NothingSlips, Fresh, Exists
<1>3. \A p \in Pages : Ahead(p)' <=> Ahead(p)
  BY DEF Ahead
<1>4. ASSUME NEW p \in Exists
      PROVE  let[p].time <= watermark \/ found[p] = let[p] \/ Ahead(p)
  BY <1>4 DEF SearchOK, Accounted
<1>5. ItemsOK'
  <2>1. ASSUME NEW p \in todo PROVE found[p] = let[p] \/ Ahead(p)
    <3>1. p \in Pages /\ found[p] # None /\ found[p].time > watermark /\ found[p].time <= let[p].time
      BY DEF SearchOK, ListedOK, ClockOK, TypeOK
    <3>2. p \in Exists /\ let[p].time > watermark
      BY <3>1 DEF Exists, TypeOK
    <3> QED
      BY <1>4, <3>2 DEF Exists, TypeOK
  <2>2. ASSUME NEW p \in Exists \ (Hooked \cup todo)
        PROVE  Fresh(p) \/ Ahead(p) \/ p \in missed
    <3>1. found[p] = None /\ let[p] # None
      BY DEF SearchOK, Exists
    <3>2. let[p].time <= watermark \/ Ahead(p)
      BY <1>4, <3>1
    <3> QED
      BY <3>2 DEF NothingSlips, Exists, TypeOK
  <2> QED
    BY <1>3, <2>1, <2>2 DEF ItemsOK, Exists, Fresh, TypeOK
<1>6. SearchOK' /\ CrawlOK'
  BY DEF SearchOK, CrawlOK
<1> QED
  BY <1>1, <1>2, <1>5, <1>6

\* A page is mirrored as it was listed, which is as it is unless it is ahead.
LEMMA ItemKeeps == ASSUME IInv, NEW p \in Pages, Item(p) PROVE IInv'
<1> USE BoundAssumption DEF IInv, Jobs, Elsewhere, Times, Edits, None
<1>1. /\ pc = "items" /\ p \in todo /\ todo' = todo \ {p}
      /\ Mirrored(p, found[p]) \/ Skipped(p) \/ Failed(p)
      /\ UNCHANGED <<let, clock, edits, hooks, watermark, pc, found, cursor>>
      /\ faults' \in 0..MaxFaults
  BY DEF Item, Fault, TypeOK
<1>2. TypeOK'
  <2>1. found[p] \in Edits
    BY DEF TypeOK
  <2> HIDE DEF Edits
  <2>2. /\ shown' \in [Pages -> [record : Edits, body : Edits]]
        /\ tracked' \subseteq Pages /\ missed' \subseteq Pages
    BY <1>1, <2>1, EffectTyped
  <2> QED
    BY <1>1, <2>2 DEF TypeOK
<1>3. ClockOK' /\ Counted' /\ IdleOK' /\ HooksOK' /\ SearchOK' /\ CrawlOK'
  BY <1>1 DEF ClockOK, Counted, IdleOK, HooksOK, SearchOK, CrawlOK
<1>4. /\ \A q \in Pages : Ahead(q)' <=> Ahead(q)
      /\ \A q \in Pages \ {p} : (Fresh(q)' <=> Fresh(q)) /\ (q \in missed' <=> q \in missed)
  BY <1>1 DEF Ahead, Fresh, Mirrored, Skipped, Failed, Broken, TypeOK
<1>5. Fresh(p)' \/ Ahead(p) \/ p \in missed'
  <2>1. CASE Mirrored(p, found[p])
    BY <1>1, <2>1 DEF ItemsOK, Mirrored, Fresh, TypeOK
  <2>2. CASE Skipped(p) \/ Failed(p)
    BY <2>2 DEF Skipped, Failed
  <2> QED
    BY <1>1, <2>1, <2>2
<1>6. ItemsOK'
  BY <1>1, <1>4, <1>5 DEF ItemsOK, Exists, TypeOK
<1>7. NothingSlips'
  BY <1>1, <1>4, <1>5 DEF NothingSlips, Exists, Ahead
<1> QED
  BY <1>2, <1>3, <1>6, <1>7

\* The watermark moves to what was listed: what is ahead of that stays above it.
LEMMA SaveWatermarkKeeps == ASSUME IInv, SaveWatermark PROVE IInv'
<1> USE BoundAssumption DEF IInv, Jobs, SaveWatermark, Elsewhere, Times, Edits, None
<1>1. /\ Newest \in {found[p].time : p \in Pages} \cup {watermark}
      /\ Newest >= watermark /\ \A p \in Pages : Newest >= found[p].time
  BY NewestIs
<1>2. TypeOK'
  BY <1>1 DEF TypeOK
<1>3. ClockOK' /\ Counted' /\ IdleOK' /\ HooksOK'
  BY <1>1 DEF ClockOK, Counted, IdleOK, HooksOK, TypeOK
<1>4. NothingSlips'
  <2>1. SUFFICES ASSUME NEW p \in Exists \ Hooked
                 PROVE  Fresh(p) \/ let[p].time > Newest \/ p \in missed
    BY DEF NothingSlips, Exists, Fresh
  <2>2. Fresh(p) \/ Ahead(p) \/ p \in missed
    BY <2>1 DEF ItemsOK
  <2> QED
    BY <1>1, <2>1, <2>2 DEF Ahead, Exists
<1>5. SearchOK' /\ ItemsOK' /\ CrawlOK'
  BY DEF SearchOK, ItemsOK, CrawlOK
<1> QED
  BY <1>2, <1>3, <1>4, <1>5

\* A job that ends where it is leaves the watermark where it was.
LEMMA AbortKeeps == ASSUME IInv, Abort PROVE IInv'
<1> USE BoundAssumption DEF IInv, Jobs, Abort, Fault, Elsewhere, Times, Edits, None
<1>1. TypeOK'
  BY DEF TypeOK
<1>2. ClockOK' /\ Counted' /\ IdleOK' /\ HooksOK' /\ NothingSlips'
  BY DEF ClockOK, Counted, IdleOK, HooksOK, TypeOK, NothingSlips, Fresh, Exists
<1>3. SearchOK' /\ ItemsOK' /\ CrawlOK'
  BY DEF SearchOK, ItemsOK, CrawlOK
<1> QED
  BY <1>1, <1>2, <1>3

-----------------------------------------------------------------------------
\* The crawl lists every page as it is when it starts.
LEMMA StartFullKeeps == ASSUME IInv, StartFull PROVE IInv'
<1> USE BoundAssumption DEF IInv, Jobs, StartFull, Elsewhere, Times, Edits, None
<1>1. TypeOK'
  BY DEF TypeOK, Crawled, Exists
<1>2. ClockOK' /\ Counted' /\ IdleOK' /\ HooksOK' /\ NothingSlips'
  BY DEF ClockOK, Counted, IdleOK, HooksOK, TypeOK, NothingSlips, Fresh, Exists
<1>3. SearchOK' /\ ItemsOK' /\ CrawlOK'
  BY DEF SearchOK, ItemsOK, CrawlOK
<1> QED
  BY <1>1, <1>2, <1>3

\* A page is shown as it is, or as it was listed, and then an edit since is above
\* the watermark; a page whose parent was dropped is missed with it.
LEMMA VisitKeeps == ASSUME IInv, NEW p \in Pages, Visit(p) PROVE IInv'
<1> USE BoundAssumption DEF IInv, Jobs, Elsewhere, Times, Edits, None
<1> DEFINE record == IF p \in Roots THEN found[p] ELSE let[p]
<1>1. /\ pc = "crawl" /\ p \in todo /\ todo' = todo \ {p}
      /\ UNCHANGED <<let, clock, edits, hooks, watermark, pc, cursor>>
      /\ faults' \in 0..MaxFaults
      /\ \/ Mirrored(p, record) /\ found' = found
         \/ (Skipped(p) \/ Failed(p)) /\ found' \in {found, [found EXCEPT ![p] = None]}
  BY DEF Visit, Fault, TypeOK
<1>2. TypeOK'
  <2>1. record \in Edits /\ None \in Edits /\ found \in [Pages -> Edits]
    <3>1. None \in Edits
      OBVIOUS
    <3> HIDE DEF Edits, None
    <3> QED
      BY <3>1 DEF TypeOK
  <2> HIDE DEF record, Edits, None
  <2>2. /\ shown' \in [Pages -> [record : Edits, body : Edits]]
        /\ tracked' \subseteq Pages /\ missed' \subseteq Pages
    BY <1>1, <2>1, EffectTyped
  <2>3. found' \in [Pages -> Edits]
    BY <1>1, <2>1
  <2> QED
    BY <1>1, <2>2, <2>3 DEF TypeOK
<1>3. ClockOK' /\ Counted' /\ IdleOK' /\ HooksOK'
  <2>1. Counted' /\ IdleOK' /\ HooksOK'
    BY <1>1 DEF Counted, IdleOK, HooksOK, TypeOK
  <2>2. \A q \in Pages : found'[q] = found[q] \/ found'[q].time = 0
    BY <1>1 DEF TypeOK
  <2>3. \A q \in Pages : let[q].time \in Nat /\ let'[q] = let[q]
    BY <1>1 DEF TypeOK
  <2>4. \A q \in Pages : let[q].time <= clock /\ found'[q].time <= let[q].time
    BY <2>2, <2>3 DEF ClockOK
  <2> QED
    BY <1>1, <2>1, <2>3, <2>4 DEF ClockOK
<1>4. \A q \in Pages \ {p} : /\ Fresh(q)' <=> Fresh(q)
                             /\ q \in missed' <=> q \in missed
                             /\ found'[q] = found[q]
  BY <1>1 DEF Fresh, Mirrored, Skipped, Failed, Broken, TypeOK
<1>5. Fresh(p)' \/ let[p].time > watermark \/ p \in missed'
  <2>1. CASE Mirrored(p, record)
    BY <1>1, <2>1 DEF CrawlOK, Mirrored, Fresh, TypeOK
  <2>2. CASE Skipped(p) \/ Failed(p)
    BY <2>2 DEF Skipped, Failed
  <2> QED
    BY <1>1, <2>1, <2>2
<1>6. NothingSlips'
  BY <1>1, <1>4, <1>5 DEF NothingSlips, Exists
<1>7. SearchOK' /\ ItemsOK' /\ CrawlOK'
  BY <1>1, <1>4 DEF SearchOK, ItemsOK, CrawlOK, TypeOK
<1> QED
  BY <1>2, <1>3, <1>6, <1>7

\* The end of the crawl says nothing new.
LEMMA EndFullKeeps == ASSUME IInv, EndFull PROVE IInv'
<1> USE BoundAssumption DEF IInv, Jobs, EndFull, Elsewhere, Times, Edits, None
<1>1. TypeOK'
  BY DEF TypeOK
<1>2. ClockOK' /\ Counted' /\ IdleOK' /\ HooksOK' /\ NothingSlips'
  BY DEF ClockOK, Counted, IdleOK, HooksOK, TypeOK, NothingSlips, Fresh, Exists
<1>3. SearchOK' /\ ItemsOK' /\ CrawlOK'
  BY DEF SearchOK, ItemsOK, CrawlOK
<1> QED
  BY <1>1, <1>2, <1>3

-----------------------------------------------------------------------------
\* What the poll depends on, but for the record and the body of pages the webhook
\* delivers, does not change when a webhook's thread runs.
LEMMA HookKeeps == ASSUME IInv, Hook PROVE IInv'
<1> USE BoundAssumption DEF IInv, Jobs, Times, Edits, None
<1>1. PICK p \in Pages : HookReads(p) \/ HookEnds(p)
  BY DEF Hook
<1>2. /\ p \in Hooked
      /\ UNCHANGED <<let, clock, edits, watermark, pc, todo, found, cursor>>
      /\ \A q \in Pages \ Hooked : /\ Fresh(q)' <=> Fresh(q)
                                   /\ q \in missed' <=> q \in missed
  BY <1>1 DEF HookReads, HookEnds, HooksOK, Mirrored, Broken, Fresh, TypeOK
<1>3. TypeOK' /\ HooksOK'
  <2>1. CASE HookReads(p)
    BY <2>1 DEF HookReads, HooksOK, TypeOK
  <2>2. CASE HookEnds(p)
    <3>1. PICK record \in hooks[p] :
            /\ hooks' = [hooks EXCEPT ![p] = @ \ {record}]
            /\ \/ Mirrored(p, record) /\ UNCHANGED faults
               \/ Broken(p) /\ Fault /\ UNCHANGED missed
      BY <2>2 DEF HookEnds
    <3>2. TypeOK'
      <4> HIDE DEF Edits
      <4>1. record \in Edits /\ hooks' \in [Pages -> SUBSET Edits] /\ faults' \in 0..MaxFaults
        BY <3>1 DEF TypeOK, Fault
      <4>2. /\ shown' \in [Pages -> [record : Edits, body : Edits]]
            /\ tracked' \subseteq Pages /\ missed' \subseteq Pages
        BY <3>1, <4>1, EffectTyped
      <4> QED
        BY <1>2, <4>1, <4>2 DEF TypeOK
    <3> QED
      BY <1>2, <3>1, <3>2 DEF HooksOK, TypeOK
  <2> QED
    BY <1>1, <2>1, <2>2
<1>4. ClockOK' /\ Counted' /\ IdleOK'
  BY <1>2 DEF ClockOK, Counted, IdleOK
<1>5. \A q \in Pages : Ahead(q)' <=> Ahead(q)
  BY <1>2 DEF Ahead
<1>6. SearchOK' /\ CrawlOK'
  BY <1>2, <1>5 DEF SearchOK, ListedOK, Accounted, Below, Exists, CrawlOK
<1>7. ItemsOK' /\ NothingSlips'
  BY <1>2, <1>5 DEF ItemsOK, NothingSlips, Exists, TypeOK
<1> QED
  BY <1>3, <1>4, <1>6, <1>7

\* Every step keeps the invariant.
LEMMA NextIInv == ASSUME Late = FALSE, IInv, [Next]_vars PROVE IInv'
<1>1. CASE Work
  BY <1>1, EndSearchKeeps, SaveWatermarkKeeps, EndFullKeeps, SearchKeeps, ItemKeeps, VisitKeeps
  DEF Work
<1>2. CASE StartPoll \/ StartFull \/ Abort \/ Hook
  BY <1>2, StartPollKeeps, StartFullKeeps, AbortKeeps, HookKeeps
<1>3. CASE \E p \in Pages : Edit(p)
  BY <1>3, EditKeeps
<1>4. CASE UNCHANGED vars
  BY <1>4 DEF vars, IInv, Jobs, TypeOK, ClockOK, Counted, IdleOK, HooksOK, SearchOK, ListedOK, Accounted,
              Below, ItemsOK, Ahead, CrawlOK, NothingSlips, Fresh, Exists
<1> QED
  BY <1>1, <1>2, <1>3, <1>4 DEF Next

\* Below the watermark nothing is forgotten (app/scheduler/jobs.py, poll_incremental):
\* where no edit bears a time that a poll has listed already, an edit the mirror does
\* not show is above the watermark or its page is known to be missed, whatever is
\* edited while a search runs, whatever fails, and whatever the webhook's threads do.
THEOREM NothingSlipsBelow == ASSUME Late = FALSE PROVE Spec => []NothingSlips
<1>1. IInv => NothingSlips
  BY DEF IInv
<1> QED
  BY InitIInv, NextIInv, <1>1, PTL DEF Spec
=============================================================================
