----------------------------- MODULE SheetIndex -----------------------------
(***************************************************************************)
(* A tab of the _Notion Index spreadsheet and the per-process row index    *)
(* the engine keeps of it (app/engines/google_mirror.py, upsert_row and    *)
(* clear_row), the row gate and the removal of app/engines/mirror_out.py,  *)
(* all over Google calls that are retried, lost or refused (GoogleCall).   *)
(*                                                                         *)
(* Job is the thread that holds the mirror lock and runs the reconciles    *)
(* and the polls; the other threads only make Google calls of their own    *)
(* (webhooks, the admin endpoints).                                        *)
(***************************************************************************)
EXTENDS GoogleCall, FiniteSets, FiniteSetsExt

CONSTANTS Job, Items, Null,
          MaxVersion,   \* bound on the versions of an item
          MaxMoves,     \* bound on the edits and deletions in Notion
          MaxRow        \* bound on the rows of the tab

Rows == 2..MaxRow       \* row 1 holds the headers
Blank == [id |-> Null, val |-> 0]
Cells == [id : Items, val : 1..MaxVersion] \cup {Blank}
NoRow == 0

ASSUME SheetAssumption == /\ MaxMoves \in Nat /\ Job \in Threads /\ Null \notin Items /\ IsFiniteSet(Items)
                          /\ MaxVersion \in Nat \ {0} /\ MaxRow \in Nat \ {0, 1}
ASSUME UnreadAssumption == Null \notin [Items -> Rows \cup {NoRow}]

VARIABLES want,      \* Notion: [Items -> its version, 0 once it is gone]
          moves,     \* how often Notion changed
          sheet,     \* [Rows -> Cells]
          index,     \* _tab_index[tab]: [Items -> its row or NoRow], Null if unread
          next,      \* _tab_next_row[tab], 0 if unread
          key,       \* the pairs with gsheet_row_key
          recorded,  \* [Items -> the version notion_prop_hash is of, 0 if none]
          tomb,      \* the tombstoned pairs
          pc, mode,  \* the job: where it is, and which one it is
          view,      \* [Items -> the version it read, 0 if it saw none]
          todo, item, row

notion    == <<want, moves>>
locals    == <<mode, view, todo, item, row>>
ledger    == <<key, recorded, tomb>>
cache     == <<index, next>>
sheetVars == <<notion, sheet, cache, ledger, pc, locals>>
vars      == <<callVars, sheetVars>>

Calls == {"ensure", "prime", "write", "clear"}   \* where the job is in a Google call
Versions == 0..MaxVersion

Init == /\ CallInit
        /\ want = [i \in Items |-> 1] /\ moves = 0
        /\ sheet = [r \in Rows |-> Blank]
        /\ index = Null /\ next = 0
        /\ key = {} /\ recorded = [i \in Items |-> 0] /\ tomb = {}
        /\ pc = "idle" /\ mode = "poll" /\ view = [i \in Items |-> 0]
        /\ todo = {} /\ item = Null /\ row = NoRow

Present == {i \in Items : want[i] # 0}

-----------------------------------------------------------------------------
(* The jobs.                                                                *)

\* The job is over, and with it what it held.
Stop == /\ pc' = "idle" /\ mode' = "poll" /\ view' = [i \in Items |-> 0]
        /\ todo' = {} /\ item' = Null /\ row' = NoRow

\* sync_all starts with ensure_index_structure.
StartFull == /\ pc = "idle" /\ pc' = "ensure" /\ mode' = "full" /\ Ask(Job)
             /\ UNCHANGED <<notion, sheet, cache, ledger, view, todo, item, row>>

Reset == index' = Null /\ next' = 0

\* The sheet is live and structured: forget the cache, read the spine.
Ensured == /\ pc = "ensure" /\ at[Job] = "done" /\ Return(Job)
           /\ Reset /\ view' = want /\ todo' = Present /\ pc' = "pick"
           /\ UNCHANGED <<notion, sheet, ledger, mode, item, row>>

\* A poll, or the command poll: some items, over the cache as it is.
StartPoll == /\ pc = "idle" /\ pc' = "pick" /\ mode' = "poll"
             /\ view' = want /\ todo' \in SUBSET Present
             /\ UNCHANGED <<callVars, notion, sheet, cache, ledger, item, row>>

\* The gate: the same properties, and a row key.
KeyOnly(i)   == i \in key       \* mutant: the hash is not compared
Unchanged(i) == recorded[i] = view[i] /\ i \in key

Skip == /\ pc = "pick" /\ \E i \in todo : Unchanged(i) /\ todo' = todo \ {i}
        /\ UNCHANGED <<callVars, notion, sheet, cache, ledger, pc, mode, view, item, row>>

\* upsert_row, once the tab is read: the row of the index, else the next free one.
RowFor(i)   == IF index[i] = NoRow THEN next ELSE index[i]
Allocate(i) == /\ row' = RowFor(i) /\ row' <= MaxRow
               /\ next' = IF index[i] = NoRow THEN next + 1 ELSE next
               /\ index' = [index EXCEPT ![i] = row']
               /\ pc' = "write" /\ Ask(Job)
\* clear_row, once the tab is read: popped, and blanked if it was there.
Pop(i) == /\ row' = index[i] /\ index' = [index EXCEPT ![i] = NoRow] /\ UNCHANGED next
          /\ IF row' # NoRow THEN pc' = "clear" /\ Ask(Job)
             ELSE /\ pc' = "bury"
                  /\ IF at[Job] \in Over THEN Return(Job) ELSE UNCHANGED callVars
\* Both read the tab first if the index has nothing of it.
ReadFirst == index = Null /\ pc' = "prime" /\ Ask(Job) /\ UNCHANGED <<cache, row>>

Upsert == /\ pc = "pick"
          /\ \E i \in todo : /\ ~Unchanged(i) /\ item' = i
                             /\ ReadFirst \/ (index # Null /\ Allocate(i))
          /\ UNCHANGED <<notion, sheet, ledger, mode, view, todo>>

Primed == /\ pc = "prime" /\ at[Job] = "done"
          /\ IF item \in todo THEN Allocate(item) ELSE Pop(item)
          /\ UNCHANGED <<notion, sheet, ledger, mode, view, todo, item>>

Written == /\ pc = "write" /\ at[Job] = "done" /\ Return(Job) /\ pc' = "key"
           /\ UNCHANGED <<notion, sheet, cache, ledger, locals>>

\* Two commits: the row key, then the hash.
SetKey  == /\ pc = "key" /\ key' = key \cup {item} /\ pc' = "hash"
           /\ UNCHANGED <<callVars, notion, sheet, cache, recorded, tomb, locals>>
SetHash == /\ pc = "hash" /\ recorded' = [recorded EXCEPT ![item] = view[item]]
           /\ todo' = todo \ {item} /\ item' = Null /\ row' = NoRow /\ pc' = "pick"
           /\ UNCHANGED <<callVars, notion, sheet, cache, key, tomb, mode, view>>

\* Per-item isolation; a poll lets GoogleAuthError end the job.
ItemFails == /\ pc \in {"prime", "write"} /\ item \in todo
             /\ at[Job] \in {"raised", "dead"}
             /\ IF mode = "poll" /\ at[Job] = "dead"
                THEN Stop
                ELSE /\ pc' = "pick" /\ todo' = todo \ {item} /\ item' = Null /\ row' = NoRow
                     /\ UNCHANGED <<mode, view>>
             /\ Return(Job) /\ UNCHANGED <<notion, sheet, cache, ledger>>

\* _remove_unseen: the crawl's ids, or the spine read again.
Sweep == /\ pc = "pick" /\ todo = {} /\ pc' = "sweep"
         /\ view' = IF mode = "poll" THEN want ELSE view
         /\ UNCHANGED <<callVars, notion, sheet, cache, ledger, mode, todo, item, row>>

\* A live pair with a row, not seen, and gone when fetched again.
Unseen(i) == i \in key \ tomb /\ view[i] = 0 /\ want[i] = 0

Remove == /\ pc = "sweep"
          /\ \E i \in Items : /\ Unseen(i) /\ item' = i
                              /\ ReadFirst \/ (index # Null /\ Pop(i))
          /\ UNCHANGED <<notion, sheet, ledger, mode, view, todo>>

\* Blanked or not (the exception is logged), the pair is tombstoned.
Cleared == /\ \/ pc = "clear" /\ at[Job] \in Over
              \/ pc = "prime" /\ item \notin todo /\ at[Job] \in {"raised", "dead"}
           /\ Return(Job) /\ pc' = "bury"
           /\ UNCHANGED <<notion, sheet, cache, ledger, locals>>
Bury == /\ pc = "bury" /\ tomb' = tomb \cup {item} /\ pc' = "sweep"
        /\ item' = Null /\ row' = NoRow
        /\ UNCHANGED <<callVars, notion, sheet, cache, key, recorded, mode, view, todo>>

JobEnds == /\ \/ pc = "sweep" /\ (\A i \in Items : ~Unseen(i)) /\ UNCHANGED callVars
              \/ pc = "ensure" /\ at[Job] \in {"raised", "dead"} /\ Return(Job)
           /\ Stop /\ UNCHANGED <<notion, sheet, cache, ledger>>

-----------------------------------------------------------------------------
(* What the job's request does at Google's.                                 *)

\* The id of a row read, and the last row that is not blank: trailing blank rows
\* are not returned.
Used       == {r \in Rows : sheet[r] # Blank}
CountUsed  == Cardinality(Used) + 1                  \* mutant: blank rows not counted
LastUsed   == Max(Used \cup {1})
RowOf(i)   == {r \in Rows : sheet[r].id = i}
ReadBelow  == [i \in Items |-> IF RowOf(i) = {} THEN NoRow
                              ELSE Max(RowOf(i)) + 1]  \* mutant: counted from row 3
ReadIndex  == [i \in Items |-> Max(RowOf(i) \cup {NoRow})]

Cell   == CASE pc = "write" -> [id |-> item, val |-> view[item]]
            [] pc = "clear" -> Blank
Effect == IF pc \in {"write", "clear"} THEN sheet' = [sheet EXCEPT ![row] = Cell]
          ELSE UNCHANGED sheet

\* The records are put in the index when the read has returned.
Loaded == IF pc = "prime" THEN index' = ReadIndex /\ next' = LastUsed + 1
          ELSE UNCHANGED cache

Answered == /\ Through(Job) /\ Effect /\ Loaded
            /\ UNCHANGED <<notion, ledger, pc, locals>>
\* Dropped before it got there, or on the way back.
Lost == /\ Dropped(Job) /\ (UNCHANGED sheet \/ (token /\ Effect))
        /\ UNCHANGED <<notion, cache, ledger, pc, locals>>

-----------------------------------------------------------------------------
(* The rest of the world.                                                   *)

Step       == CallStep(Job) /\ UNCHANGED sheetVars
TokenTurns == Turn /\ UNCHANGED sheetVars

Change(i, v) == /\ moves < MaxMoves /\ moves' = moves + 1
                /\ want' = [want EXCEPT ![i] = v]
                /\ UNCHANGED <<callVars, sheet, cache, ledger, pc, locals>>
Edit(i)      == want[i] \in 1..MaxVersion - 1 /\ Change(i, want[i] + 1)
Delete(i)    == want[i] # 0 /\ Change(i, 0)
Crash        == Restart /\ Reset /\ Stop /\ UNCHANGED <<notion, sheet, ledger>>

World == TokenTurns \/ Crash \/ \E i \in Items : Edit(i) \/ Delete(i)
Work  == \/ Ensured \/ Skip \/ Upsert \/ Primed \/ Written \/ SetKey \/ SetHash
         \/ ItemFails \/ Sweep \/ Remove \/ Cleared \/ Bury \/ JobEnds
Next  == StartFull \/ StartPoll \/ Work \/ Step \/ Answered \/ Lost \/ World

\* The job goes on, the daily reconcile is among those that start, and a
\* request that is sent is answered or fails.
Fairness == /\ WF_vars(Work) /\ SF_vars(StartFull) /\ WF_vars(Answered)
            /\ CallFairness(Job)
Spec == Init /\ [][Next]_vars /\ Fairness

-----------------------------------------------------------------------------
(* Properties.                                                              *)

TypeOK == /\ CallTypeOK
          /\ want \in [Items -> Versions] /\ moves \in 0..MaxMoves /\ sheet \in [Rows -> Cells]
          /\ index \in [Items -> Rows \cup {NoRow}] \cup {Null} /\ next \in 0..MaxRow + 1
          /\ key \in SUBSET Items /\ recorded \in [Items -> Versions] /\ tomb \in SUBSET key
          /\ pc \in Calls \cup {"idle", "pick", "key", "hash", "sweep", "bury"}
          /\ mode \in {"full", "poll"} /\ view \in [Items -> Versions]
          /\ todo \in SUBSET Items /\ item \in Items \cup {Null} /\ row \in Rows \cup {NoRow}

\* No item is ever on two rows of the tab, whatever was lost, retried, cut
\* short by a restart or forgotten by the cache (upsert_row).
OneRowEach == \A i \in Items : Cardinality(RowOf(i)) <= 1

\* The gate is safe: while an item is in Notion, a row shows it as it was
\* recorded, or newer; no other item is ever given its row.
RowGate == \A i \in Items : want[i] # 0 /\ recorded[i] # 0 =>
              \E r \in RowOf(i) : sheet[r].val >= recorded[i]

\* Once the token is good, the tab shows every item of Notion as it is.
RowsInTheEnd == <>[]token => <>[](\A i \in Present : \E r \in RowOf(i) : sheet[r].val = want[i])
=============================================================================
