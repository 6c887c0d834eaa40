---------------------------- MODULE MCIndexRows -----------------------------
(***************************************************************************)
(* The rows of the index sheet, one machine at a time: what a row shows    *)
(* (IndexRow), and where it is put when threads share the index of rows    *)
(* without a lock (RowRace).  A behaviour runs one of the two, the other   *)
(* stays in an initial state.  Module SheetIndex has the lock's holder.    *)
(***************************************************************************)
EXTENDS Naturals, FiniteSets, TLC

CONSTANTS Parts,      \* the machines that may run: "shown", "placed"
          Items, MaxTitle, MaxDay, MaxTime, MaxDocs, MaxMoves, MaxFaults, Allowed,
          Threads, Entries, Nobody, Unlocked, Filed, MaxRow,
          area, project, job, other, hook, i1, i2, i3

VARIABLES part, notion, changed, trashed, docs, row, pair, eng, moves, faults, torn,
          free, lock, index, next, sheet, recorded, pc, item, target, records, held, failed

showing == <<notion, changed, trashed, docs, row, pair, eng, moves, faults, torn>>
placing == <<free, lock, index, next, sheet, recorded, pc, item, target, records, held, failed>>
vars    == <<part, showing, placing>>

Show  == INSTANCE IndexRow
Place == INSTANCE RowRace WITH Items <- Entries, Null <- Nobody, row <- target, faults <- failed

ASSUME ConstantsAssumption == Show!IndexRowConstants /\ Place!RowRaceConstants

Filled == CHOOSE s \in [Place!Rows -> Filed \cup {Nobody}] :      \* a sheet at rest
             \A i \in Filed : \E r \in 2..Cardinality(Filed) + 1 : {q \in Place!Rows : s[q] = i} = {r}

Init == /\ part \in Parts /\ Show!Init /\ Place!Init
        /\ part # "placed" => sheet = Filled

Shows  == part = "shown" /\ Show!Next /\ UNCHANGED <<part, placing>>
Places == part = "placed" /\ Place!Next /\ UNCHANGED <<part, showing>>
Next   == Shows \/ Places
Spec   == Init /\ [][Next]_vars /\ WF_vars(part = "shown" /\ Show!Work /\ UNCHANGED <<part, placing>>)
               /\ SF_vars(part = "shown" /\ Show!BeginFull /\ UNCHANGED <<part, placing>>)

-----------------------------------------------------------------------------
(* What is promised of a row (each is stated in the machine's module)      *)

\* What the row gate takes for up to date is so, whichever job wrote the row last
\* and whichever item failed, unless the item's row was written last without its
\* hash (property_hash, record_source).
GateTrue == Show!GateTrue

\* Every row comes to show its item and the present names of its related items,
\* for good, though none of them was edited (mirror_out.py _build_record); but for
\* a row written without its hash while Notion went back to what the hash says.
RowsInTheEnd == part = "shown" => Show!RowsInTheEnd

\* An item in the tab keeps its row and gets no second one, though the webhook's
\* thread takes no lock; a new one too, while every thread takes it (upsert_row).
RowKept == Place!RowKept

(* The same where the code does not keep it (see the README).              *)
DocLinks == part = "shown" => Show!DocLinks
DueShown == part = "shown" => Show!DueShown
RowsHeal == part = "shown" => Show!RowsHeal
NeverCorrupt == Place!NeverCorrupt
=============================================================================
