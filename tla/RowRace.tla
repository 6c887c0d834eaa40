------------------------------ MODULE RowRace -------------------------------
(***************************************************************************)
(* The row index of a tab (app/engines/google_mirror.py, _tab_index and    *)
(* _tab_next_row) is one object of the process: the jobs that hold the     *)
(* mirror lock use it, and so do the webhook's threads and the /command    *)
(* handler, which do not take that lock.  Module SheetIndex follows one    *)
(* holder of the lock through lost and retried calls; this module follows  *)
(* the threads through upsert_row statement by statement.                  *)
(***************************************************************************)
EXTENDS Naturals, FiniteSets, FiniteSetsExt

CONSTANTS Threads, Items, Null,
          Unlocked,     \* the threads that may go without the mirror lock
          Filed,        \* the items that already have a row, and were edited since
          MaxRow,       \* bound on the rows of the tab
          MaxFaults     \* bound on the calls that fail

RowRaceConstants == /\ Unlocked \subseteq Threads /\ Null \notin Threads \cup Items \cup [Items -> Nat]
                    /\ Filed \subseteq Items /\ IsFiniteSet(Items)
                    /\ MaxRow \in Nat \ {0, 1} /\ MaxFaults \in Nat

Rows  == 2..MaxRow
NoRow == 0

VARIABLES free,      \* the threads that do go without it, in this behaviour
          lock,      \* the thread with the mirror lock, or Null
          index,     \* _tab_index[tab]: [Items -> row or NoRow], Null if unread
          next,      \* _tab_next_row[tab], 0 if unread
          sheet,     \* [Rows -> Items \cup {Null}]
          recorded,  \* the pairs with row key and property hash
          pc, item, row,   \* of each thread
          records,   \* [Threads -> what _prime_tab has read, as an index]
          held,      \* the threads with the shared index in hand, to enter a row in
          faults

cache  == <<index, next>>
locals == <<item, row, records>>
vars   == <<free, lock, cache, sheet, recorded, pc, locals, held, faults>>

Unread   == [i \in Items |-> NoRow]
RowOf(i) == {r \in Rows : sheet[r] = i}

Init == /\ free \in SUBSET Unlocked /\ lock = Null /\ index = Null /\ next = 0
        /\ sheet \in [Rows -> Filed \cup {Null}] /\ recorded = {}
        /\ \A i \in Filed : \E r \in 2..Cardinality(Filed) + 2 : RowOf(i) = {r}
        /\ pc = [t \in Threads |-> "out"] /\ item = [t \in Threads |-> Null]
        /\ row = [t \in Threads |-> NoRow] /\ records = [t \in Threads |-> Unread]
        /\ held = {} /\ faults = 0

Goto(t, label) == pc' = [pc EXCEPT ![t] = label]

\* A job that finds the lock, or a thread that does not ask for it.
EnterFreely(t) ==   \* mutant: nobody asks for it
            /\ pc[t] = "out" /\ Goto(t, "in")
            /\ UNCHANGED <<free, lock, cache, sheet, recorded, locals, held, faults>>
Enter(t) == /\ pc[t] = "out" /\ Goto(t, "in")
            /\ IF t \in free THEN UNCHANGED lock ELSE lock = Null /\ lock' = t
            /\ UNCHANGED <<free, cache, sheet, recorded, locals, held, faults>>
Leave(t) == /\ pc[t] = "in" /\ Goto(t, "out")
            /\ lock' = IF lock = t THEN Null ELSE lock
            /\ UNCHANGED <<free, cache, sheet, recorded, locals, held, faults>>

\* reset_sheet_cache, two assignments: sync_all starts with it, and holds the lock.
Reset(t) == /\ pc[t] = "in" /\ t \notin free /\ Goto(t, "reset")
            /\ index' = Null /\ held' = {}
            /\ UNCHANGED <<free, lock, next, sheet, recorded, locals, faults>>
ResetNext(t) == /\ pc[t] = "reset" /\ Goto(t, "in") /\ next' = 0
                /\ UNCHANGED <<free, lock, index, sheet, recorded, locals, held, faults>>

\* The gate lets an item through; upsert_row asks whether the tab is read.
Upsert(t, i) == /\ pc[t] = "in" /\ i \notin recorded
                /\ item' = [item EXCEPT ![t] = i]
                /\ Goto(t, IF index = Null THEN "read" ELSE "look")
                /\ UNCHANGED <<free, lock, cache, sheet, recorded, row, records, held, faults>>

-----------------------------------------------------------------------------
(* _prime_tab                                                              *)

Records   == [i \in Items |-> Max(RowOf(i) \cup {NoRow})]
Read(t)   == /\ pc[t] = "read" /\ Goto(t, "index")
             /\ records' = [records EXCEPT ![t] = Records]
             /\ UNCHANGED <<free, lock, cache, sheet, recorded, item, row, held, faults>>
Index(t)  == /\ pc[t] = "index" /\ Goto(t, "free")
             /\ index' = records[t] /\ held' = {}
             /\ UNCHANGED <<free, lock, next, sheet, recorded, locals, faults>>
Count(known)   == Cardinality({i \in Items : known[i] # NoRow}) + 1  \* mutant: rows counted
Highest(known) == Max({known[i] : i \in Items} \cup {1})
Free(t)   == /\ pc[t] = "free" /\ Goto(t, "look")
             /\ next' = Highest(records[t]) + 1 /\ records' = [records EXCEPT ![t] = Unread]
             /\ UNCHANGED <<free, lock, index, sheet, recorded, item, row, held, faults>>

-----------------------------------------------------------------------------
(* upsert_row, once the tab is read                                        *)

\* The exception is logged and the item is left for the next job.
GiveUp(t) == Goto(t, "in") /\ item' = [item EXCEPT ![t] = Null]
                           /\ row' = [row EXCEPT ![t] = NoRow]

Look(t) == /\ pc[t] = "look"
           /\ \/ /\ index # Null /\ index[item[t]] # NoRow
                 /\ row' = [row EXCEPT ![t] = index[item[t]]]
                 /\ Goto(t, "write") /\ UNCHANGED <<item, held>>
              \/ /\ index # Null /\ index[item[t]] = NoRow /\ held' = held \cup {t}
                 /\ Goto(t, "take") /\ UNCHANGED <<item, row>>
              \/ index = Null /\ GiveUp(t) /\ UNCHANGED held         \* KeyError
           /\ UNCHANGED <<free, lock, cache, sheet, recorded, records, faults>>

Take(t) == /\ pc[t] = "take"
           /\ \/ /\ next \in Rows /\ row' = [row EXCEPT ![t] = next]
                 /\ Goto(t, "put") /\ UNCHANGED <<item, held>>
              \/ next = 0 /\ GiveUp(t) /\ held' = held \ {t}         \* KeyError
           /\ UNCHANGED <<free, lock, cache, sheet, recorded, records, faults>>

After(r) == r + 1
Entered(i, r)   == [index EXCEPT ![i] = r]

\* A row entered in an index that was replaced meanwhile is lost with it.
Put(t) == /\ pc[t] = "put" /\ Goto(t, "write") /\ held' = held \ {t}
          /\ next' = After(row[t])
          /\ index' = IF t \in held THEN Entered(item[t], row[t]) ELSE index
          /\ UNCHANGED <<free, lock, sheet, recorded, locals, faults>>

Written(t) == sheet' = [sheet EXCEPT ![row[t]] = item[t]]

Write(t) == /\ pc[t] = "write" /\ Goto(t, "record") /\ Written(t)
            /\ UNCHANGED <<free, lock, cache, recorded, locals, held, faults>>

Record(t) == /\ pc[t] = "record" /\ recorded' = recorded \cup {item[t]} /\ GiveUp(t)
             /\ UNCHANGED <<free, lock, cache, sheet, records, held, faults>>

\* A call that failed, a write perhaps after it got there.
Fail(t) == /\ pc[t] \in {"read", "write"} /\ faults < MaxFaults /\ faults' = faults + 1
           /\ UNCHANGED sheet \/ (pc[t] = "write" /\ Written(t))
           /\ GiveUp(t) /\ UNCHANGED <<free, lock, cache, recorded, records, held>>

Next == \E t \in Threads :
           \/ Enter(t) \/ Leave(t) \/ Reset(t) \/ ResetNext(t) \/ \E i \in Items : Upsert(t, i)
           \/ Read(t) \/ Index(t) \/ Free(t)
           \/ Look(t) \/ Take(t) \/ Put(t) \/ Write(t) \/ Record(t) \/ Fail(t)
Spec == Init /\ [][Next]_vars

-----------------------------------------------------------------------------
Known == [Items -> Rows \cup {NoRow}]

TypeOK == /\ free \subseteq Unlocked /\ lock \in Threads \cup {Null} /\ index \in Known \cup {Null}
          /\ next \in 0..MaxRow + 1 /\ sheet \in [Rows -> Items \cup {Null}]
          /\ recorded \subseteq Items
          /\ pc \in [Threads -> {"out", "in", "reset", "read", "index", "free", "look",
                                 "take", "put", "write", "record"}]
          /\ item \in [Threads -> Items \cup {Null}] /\ row \in [Threads -> Rows \cup {NoRow}]
          /\ records \in [Threads -> Known] /\ held \subseteq Threads /\ faults \in 0..MaxFaults

\* An item that has its row in the tab keeps it and gets no second one, though
\* threads without the lock read, fill and reset the shared index at every step of
\* it; and while every thread takes the lock, so does an item that is new, once it is
\* recorded as mirrored (upsert_row, _prime_tab, reset_sheet_cache).
RowKept == /\ \A i \in Filed : \E r \in Rows : RowOf(i) = {r}
           /\ free = {} => \A i \in recorded : \E r \in Rows : RowOf(i) = {r}

\* "conflicts are about timing/staleness, never concurrent corruption"
\* (HOW_IT_WORKS.md): an item that is recorded as mirrored has its row, and no
\* other item was written over it; the gate would never write it again.  The code
\* does not keep this for two new items: a thread without the lock and one with it
\* are given the same next row (google_mirror.py, _tab_next_row).
NeverCorrupt == \A i \in recorded : RowOf(i) # {}
=============================================================================
