----------------------------- MODULE DeltaPoll ------------------------------
(***************************************************************************)
(* The incremental poll (app/scheduler/jobs.py): search Notion newest      *)
(* first down to the watermark, mirror what was found, move the watermark; *)
(* and the daily full reconcile behind it.  They exclude each other by the *)
(* mirror lock (module SyncJobs), and the webhook's threads exclude nobody; *)
(* Notion is edited between any two steps.                                 *)
(*                                                                         *)
(* Mirroring a page (module Mirror) is cut down to what it shows: the      *)
(* record the page was listed with, and its body at that moment.           *)
(***************************************************************************)
EXTENDS Naturals, FiniteSets

CONSTANTS Pages, Null,
          Roots,      \* spine rows and LOOSE_PAGES, always in scope
          Parent,     \* [Pages -> Pages \cup {Null}]
          Nested,     \* pages whose Notion parent is a block of Parent[p]
          Hooked,     \* pages whose changes the webhook delivers, {} where it is off
          Late,       \* may an edit bear a time that a poll has listed already?
          MaxEdits, MaxFaults   \* bounds on edits, and on failures and crashes

ASSUME RootsAssumption  == Roots \subseteq Pages /\ Null \notin Pages
ASSUME ParentAssumption == Parent \in [Pages -> Pages \cup {Null}]
ASSUME NestedAssumption == Nested \subseteq Pages
ASSUME HookedAssumption == Hooked \subseteq Pages
ASSUME LateAssumption   == Late \in BOOLEAN
ASSUME BoundAssumption  == MaxEdits \in Nat /\ MaxFaults \in Nat

VARIABLES let,        \* [Pages -> its last edit]: which it is, and its last_edited_time
          clock,      \* the latest last_edited_time given out
          edits,      \* how many there were
          watermark,  \* notion_watermark, 0 for none
          tracked,    \* the pages with a SyncPair
          shown,      \* [Pages -> the edits its record and its body show]
          pc, todo,   \* the job, and the pages it has yet to mirror
          found,      \* [Pages -> its last edit as listed, None when not listed]
          cursor,     \* how far down the search is
          missed,     \* history: skipped as out of scope or failed, and not shown since
          hooks,      \* [Pages -> the edits in the records webhook threads hold]
          faults

vars == <<let, clock, edits, watermark, tracked, shown, pc, todo, found, cursor, missed, hooks, faults>>
Times == 0..MaxEdits
Edits == [nr : 0..MaxEdits, time : Times]
None  == [nr |-> 0, time |-> 0]     \* the page is not there yet

Init == /\ let = [p \in Pages |-> None] /\ clock = 0 /\ edits = 0
        /\ watermark = 0 /\ tracked = {}
        /\ shown = [p \in Pages |-> [record |-> None, body |-> None]]
        /\ pc = "idle" /\ todo = {} /\ found = [p \in Pages |-> None] /\ cursor = 0
        /\ missed = {} /\ hooks = [p \in Pages |-> {}] /\ faults = 0

Exists == {p \in Pages : let[p] # None}
Elsewhere == UNCHANGED <<let, clock, edits, hooks>>   \* a job touches none of them

\* No poll has read as far as t: neither the last one nor the one that is on.
Unlisted(t) == /\ t > watermark
               /\ pc \in {"search", "items"} => \A q \in Pages : found[q].time < t

Edit(p) ==    \* or create: a page comes after its parent
    /\ edits < MaxEdits /\ edits' = edits + 1
    /\ Parent[p] # Null => Parent[p] \in Exists
    /\ clock' \in {clock, clock + 1} \ {0}   \* Notion's times are coarse: edits may share one
    /\ Late \/ Unlisted(clock')
    /\ let' = [let EXCEPT ![p] = [nr |-> @.nr + 1, time |-> clock']]
    /\ UNCHANGED <<watermark, tracked, shown, pc, todo, found, cursor, missed, hooks, faults>>

-----------------------------------------------------------------------------
(* poll_incremental                                                        *)

StartPoll ==
    /\ pc = "idle" /\ pc' = "search"
    /\ found' = [p \in Pages |-> None] /\ cursor' = MaxEdits
    /\ Elsewhere /\ UNCHANGED <<watermark, tracked, shown, todo, missed, faults>>

\* search_pages_changed_since: what is edited while the search goes on moves
\* above the cursor and is not met again.
Below == {p \in Exists : found[p] = None /\ let[p].time <= cursor /\ let[p].time > watermark}

Search(p) ==
    /\ pc = "search" /\ p \in Below /\ \A q \in Below : let[q].time <= let[p].time
    /\ found' = [found EXCEPT ![p] = let[p]] /\ cursor' = let[p].time /\ todo' = todo \cup {p}
    /\ Elsewhere /\ UNCHANGED <<watermark, tracked, shown, pc, missed, faults>>

EndSearch ==
    /\ pc = "search" /\ Below = {} /\ pc' = "items"
    /\ Elsewhere /\ UNCHANGED <<watermark, tracked, shown, todo, found, cursor, missed, faults>>

InScope(p) == p \in Roots \cup tracked \/ (p \notin Nested /\ Parent[p] \in tracked)

Mirrored(p, record) ==
    /\ shown' = [shown EXCEPT ![p] = [record |-> record, body |-> let[p]]]
    /\ tracked' = tracked \cup {p} /\ missed' = missed \ {p}

Skipped(p) == missed' = missed \cup {p} /\ UNCHANGED <<shown, tracked>>

\* What an item that fails leaves: nothing; or its pair, stored once it has a folder
\* and a Doc; or the pair and the body, and not the row.
Broken(p) == \/ UNCHANGED <<shown, tracked>>
             \/ tracked' = tracked \cup {p} /\ UNCHANGED shown
             \/ tracked' = tracked \cup {p} /\ shown' = [shown EXCEPT ![p].body = let[p]]
Failed(p) == Broken(p) /\ missed' = missed \cup {p}
Fault     == faults < MaxFaults /\ faults' = faults + 1

Item(p) ==    \* in the order of the search; a failure is logged and passed over
    /\ pc = "items" /\ p \in todo /\ \A q \in todo : found[q].time <= found[p].time
    /\ todo' = todo \ {p}
    /\ \/ InScope(p) /\ Mirrored(p, found[p]) /\ UNCHANGED faults
       \/ ~InScope(p) /\ Skipped(p) /\ UNCHANGED faults
       \/ InScope(p) /\ Failed(p) /\ Fault
    /\ Elsewhere /\ UNCHANGED <<watermark, pc, found, cursor>>

Now    == clock       \* mutant: the watermark is the time of the save
Newest == LET times == {found[p].time : p \in Pages} \cup {watermark}
          IN  CHOOSE t \in times : \A u \in times : u <= t

SaveWatermark ==
    /\ pc = "items" /\ todo = {} /\ pc' = "idle" /\ watermark' = Newest
    /\ Elsewhere /\ UNCHANGED <<tracked, shown, todo, found, cursor, missed, faults>>

\* The search fails, the process dies, or Google's credentials are dead: the job
\* ends where it is.
Abort ==
    /\ pc # "idle" /\ Fault /\ pc' = "idle" /\ todo' = {}
    /\ Elsewhere /\ UNCHANGED <<watermark, tracked, shown, found, cursor, missed>>

-----------------------------------------------------------------------------
(* full_reconcile                                                          *)

Changed == {p \in Exists : let[p].time > watermark}   \* mutant: only what is new is crawled
Crawled == Exists

StartFull ==
    /\ pc = "idle" /\ pc' = "crawl" /\ todo' = Crawled /\ found' = let
    /\ Elsewhere /\ UNCHANGED <<watermark, tracked, shown, cursor, missed, faults>>

\* A child is fetched when its parent has been mirrored; a root that failed may have
\* its folder and its children's ids by then, and they are fetched all the same.
Dropped(p) == p \notin Roots /\ (Parent[p] = Null \/ found[Parent[p]] = None)
Visit(p) ==
    /\ pc = "crawl" /\ p \in todo /\ Parent[p] \notin todo
    /\ todo' = todo \ {p}
    /\ \/ /\ ~Dropped(p) /\ Mirrored(p, IF p \in Roots THEN found[p] ELSE let[p])
          /\ UNCHANGED <<found, faults>>
       \/ Dropped(p) /\ Skipped(p) /\ found' = [found EXCEPT ![p] = None] /\ UNCHANGED faults
       \/ /\ ~Dropped(p) /\ Failed(p) /\ Fault
          /\ \/ found' = [found EXCEPT ![p] = None]
             \/ p \in Roots /\ UNCHANGED found
    /\ Elsewhere /\ UNCHANGED <<watermark, pc, cursor>>

EndFull ==
    /\ pc = "crawl" /\ todo = {} /\ pc' = "idle"
    /\ Elsewhere /\ UNCHANGED <<watermark, tracked, shown, todo, found, cursor, missed, faults>>

-----------------------------------------------------------------------------
(* The webhook (app/api/webhooks/notion.py, _process_page): a thread for     *)
(* each delivery, without the lock; what is delivered, and when, is open.    *)

HookReads(p) ==     \* get_item
    /\ p \in Hooked \cap Exists /\ let[p] \notin hooks[p]
    /\ hooks' = [hooks EXCEPT ![p] = @ \cup {let[p]}]
    /\ UNCHANGED <<let, clock, edits, watermark, tracked, shown, pc, todo, found, cursor>>
    /\ UNCHANGED <<missed, faults>>

HookEnds(p) ==      \* mirror_item, in scope or not; a failure is only logged
    /\ \E record \in hooks[p] :
         /\ hooks' = [hooks EXCEPT ![p] = @ \ {record}]
         /\ \/ Mirrored(p, record) /\ UNCHANGED faults
            \/ Broken(p) /\ Fault /\ UNCHANGED missed
    /\ UNCHANGED <<let, clock, edits, watermark, pc, todo, found, cursor>>

Hook == \E p \in Pages : HookReads(p) \/ HookEnds(p)

-----------------------------------------------------------------------------
Work == \/ EndSearch \/ SaveWatermark \/ EndFull
        \/ \E p \in Pages : Search(p) \/ Item(p) \/ Visit(p)
Next == StartPoll \/ StartFull \/ Work \/ Abort \/ Hook \/ \E p \in Pages : Edit(p)
Spec == Init /\ [][Next]_vars

\* A job that runs goes on, and the daily reconcile comes round however many
\* polls come between.
FairSpec == Spec /\ WF_vars(Work) /\ SF_vars(StartFull)

Fresh(p) == shown[p].record = let[p] /\ shown[p].body = let[p]

TypeOK == /\ let \in [Pages -> Edits] /\ clock \in Times /\ edits \in 0..MaxEdits
          /\ watermark \in Times /\ tracked \subseteq Pages
          /\ shown \in [Pages -> [record : Edits, body : Edits]]
          /\ pc \in {"idle", "search", "items", "crawl"} /\ todo \subseteq Pages
          /\ found \in [Pages -> Edits] /\ cursor \in Times
          /\ missed \subseteq Pages /\ hooks \in [Pages -> SUBSET Edits] /\ faults \in 0..MaxFaults

\* "reflect every page changed since the watermark" (README): an edit that the
\* mirror does not show is still above the watermark, unless its page was
\* skipped or failed; whenever it was made, wherever a job was then, and whatever
\* the webhook's threads do to other pages meanwhile (they may bring a page into
\* scope, and overwrite one they hold an old record of).  Not so where Late is TRUE:
\* the search breaks off at the watermark's own time.
NothingSlips == \A p \in Exists \ Hooked : Fresh(p) \/ let[p].time > watermark \/ p \in missed

\* The same of every page, those the webhook delivers included.
NothingStale == \A p \in Exists : Fresh(p) \/ let[p].time > watermark \/ p \in missed

\* The reconcile is the backstop: when the edits are over every page is shown in the
\* end, and stays so, whatever was skipped, failed or slipped by, and whatever old
\* record a webhook thread or a poll still held.
ShownInTheEnd == <>[](\A p \in Exists : Fresh(p))
=============================================================================
