-------------------------- MODULE SheetIndexProofs --------------------------
(***************************************************************************)
(* Why the index spreadsheet never holds an item twice, and why the row    *)
(* gate is safe, for every set of items, every number of edits, lost       *)
(* answers, dead tokens and restarts: the row index, once it is read,      *)
(* gives no two items one row and no item a second one.                    *)
(***************************************************************************)
EXTENDS SheetIndex, FiniteSetTheorems, WellFoundedInduction, TLAPS

\* Two rows never hold the same item.
SheetOK == \A r, s \in Rows : sheet[r].id = sheet[s].id /\ sheet[r].id # Null => r = s

\* Notion no longer has the item, and no job is going to write it again.
Gone(i) == want[i] = 0 /\ i \notin todo

\* The index, once read, gives an item its row or one that is still blank; a row
\* that the index does not give is of an item popped before it was blanked.
PointsOK == \A i \in Items : index[i] # NoRow => index[i] < next /\ sheet[index[i]].id \in {i, Null}
ApartOK  == \A i, j \in Items : index[i] = index[j] /\ index[i] # NoRow => i = j
KnownOK  == \A i \in Items : \A r \in RowOf(i) :
               r < next /\ (index[i] = r \/ (index[i] = NoRow /\ Gone(i)))
IndexOK  == index # Null => next >= 2 /\ PointsOK /\ ApartOK /\ KnownOK

\* What the job knows of the item in hand.
Writing  == pc \in {"write", "key", "hash"}
Removing == pc \in {"clear", "bury"} \/ (pc = "prime" /\ item \notin todo)
Shows    == row \in Rows /\ sheet[row] = [id |-> item, val |-> view[item]]
Arrived  == at[Job] \in {"ok", "done"}
JobOK == /\ pc \in {"idle", "ensure", "sweep"} => todo = {}
         /\ Removing => item \in key /\ want[item] = 0 /\ todo = {}
         /\ Writing => item \in todo
         /\ pc = "prime" /\ Arrived => index # Null
         /\ pc = "write" => index # Null /\ row = index[item] /\ row # NoRow
         /\ pc = "clear" => row \in Rows /\ sheet[row].id \in {item, Null}
         /\ (pc = "write" /\ Arrived) \/ pc \in {"key", "hash"} => Shows

\* What is recorded, and what a job has read, is never newer than Notion.
VersionsOK == /\ \A i \in Present : recorded[i] <= want[i] /\ view[i] <= want[i]
              /\ \A i \in todo : view[i] # 0 /\ recorded[i] <= view[i]

IInv == TypeOK /\ SheetOK /\ IndexOK /\ JobOK /\ VersionsOK /\ RowGate

-----------------------------------------------------------------------------
(* The operators                                                           *)

\* A cell without an item is blank, and only such a one.
LEMMA CellIs ==
    ASSUME TypeOK, NEW r \in Rows
    PROVE  /\ sheet[r].id \in Items \cup {Null}
           /\ sheet[r] = Blank <=> sheet[r].id = Null
  BY SheetAssumption DEF TypeOK, Cells, Blank

\* A bounded, nonempty set of natural numbers has a greatest member: the one whose
\* distance from the bound is least.  A CHOOSE says something only of what exists.
LEMMA MaximumExists ==
    ASSUME NEW N \in Nat, NEW T \in SUBSET (0..N), T # {}
    PROVE  \E m \in T : \A y \in T : y <= m
<1> DEFINE Less     == {q \in Nat \X Nat : q[1] < q[2]}
           Distance == {x \in 0..N : N - x \in T}
<1>1. ASSUME NEW y \in T PROVE N - y \in Distance /\ N - (N - y) = y
  BY y \in 0..N
<1>2. Distance \subseteq Nat /\ Distance # {}
  <2>1. PICK t \in T : TRUE
    OBVIOUS
  <2> QED
    BY <1>1, <2>1
<1>3. IsWellFoundedOn(Less, Nat)
  BY NatLessThanWellFounded DEF OpToRel
<1>4. PICK x \in Distance : \A y \in Distance : <<y, x>> \notin Less
  <2> HIDE DEF Distance, Less
  <2> QED
    BY <1>2, <1>3, WFMin
<1>5. ASSUME NEW y \in T PROVE y <= N - x
  <2>1. y \in 0..N /\ N - y \in Nat /\ x \in 0..N
    BY <1>1, <1>4
  <2>2. <<N - y, x>> \notin Less
    BY <1>1, <1>4
  <2>3. ~(N - y < x)
    BY <2>1, <2>2
  <2> QED
    BY <2>1, <2>3
<1> QED
  BY <1>4, <1>5

\* The last row in use is below the row that is written next.
LEMMA LastUsedIs ==
    ASSUME TypeOK
    PROVE  LastUsed \in 1..MaxRow /\ \A r \in Used : r <= LastUsed
<1> DEFINE rows == Used \cup {1}
<1>1. rows \in SUBSET (0..MaxRow) /\ rows # {} /\ MaxRow \in Nat
  BY SheetAssumption DEF Used, Rows
<1>2. \E m \in rows : \A r \in rows : r <= m
  <2> HIDE DEF rows
  <2> QED
    BY <1>1, MaximumExists
<1>3. \E m \in rows : \A r \in rows : m >= r
  BY <1>1, <1>2
<1>4. LastUsed \in rows /\ \A r \in rows : LastUsed >= r
  BY <1>3 DEF LastUsed, Max
<1> QED
  BY <1>1, <1>4 DEF Used, Rows, SheetAssumption

\* Where rows hold different items, a read finds the row of each.
LEMMA ReadIndexIs ==
    ASSUME TypeOK, SheetOK, NEW i \in Items
    PROVE  /\ ReadIndex[i] \in RowOf(i) \cup {NoRow}
           /\ \A r \in RowOf(i) : ReadIndex[i] = r
<1> DEFINE rows == RowOf(i) \cup {NoRow}
<1>1. rows \in SUBSET (0..MaxRow) /\ rows # {} /\ MaxRow \in Nat
  BY SheetAssumption DEF RowOf, Rows, NoRow
<1>2. \E m \in rows : \A r \in rows : r <= m
  <2> HIDE DEF rows
  <2> QED
    BY <1>1, MaximumExists
<1>3. \E m \in rows : \A r \in rows : m >= r
  BY <1>1, <1>2
<1>4. ReadIndex[i] \in rows /\ \A r \in rows : ReadIndex[i] >= r
  BY <1>3 DEF ReadIndex, Max
<1>5. \A r, s \in RowOf(i) : r = s /\ r # NoRow /\ r >= 2
  BY SheetAssumption DEF SheetOK, RowOf, Rows, NoRow
<1>6. ASSUME NEW r \in RowOf(i) PROVE ReadIndex[i] = r
  <2>1. ReadIndex[i] >= r /\ r >= 2
    BY <1>4, <1>5
  <2>2. ReadIndex[i] # NoRow
    BY <2>1, <1>1, <1>4 DEF NoRow
  <2> QED
    BY <1>4, <1>5, <2>2
<1> QED
  BY <1>4, <1>6

\* A set whose members are all the same has no two: that is how "never twice" is proved.
LEMMA AtMostOne == ASSUME NEW S, \A x, y \in S : x = y PROVE Cardinality(S) <= 1
<1>1. S = {} \/ \E x \in S : S = {x}
  OBVIOUS
<1>2. CASE S = {}
  BY <1>2, FS_EmptySet
<1>3. CASE \E x \in S : S = {x}
  <2>1. PICK x \in S : S = {x}
    BY <1>3
  <2>2. Cardinality({x}) = 1
    BY FS_Singleton
  <2> QED
    BY <2>1, <2>2
<1> QED
  BY <1>1, <1>2, <1>3

\* Rows that hold different items hold each at most once.
LEMMA OneRowIs == ASSUME SheetOK, TypeOK PROVE OneRowEach
<1> SUFFICES ASSUME NEW i \in Items PROVE Cardinality(RowOf(i)) <= 1
  BY DEF OneRowEach
<1>1. \A r, s \in RowOf(i) : r = s
  BY SheetAssumption DEF SheetOK, RowOf
<1> QED
  BY <1>1, AtMostOne

\* A step of a call keeps its state what it may be.
LEMMA CallTyped ==
    ASSUME CallTypeOK,
           \/ Ask(Job) \/ Return(Job) \/ CallStep(Job) \/ Through(Job) \/ Dropped(Job)
           \/ Turn \/ Restart \/ UNCHANGED callVars
    PROVE  CallTypeOK'
<1> USE CallAssumption, SheetAssumption DEF CallTypeOK, world, Goto, Over
<1>1. CASE Ask(Job) \/ Return(Job)
  BY <1>1 DEF Ask, Return
<1>2. CASE CallStep(Job)
  <2>1. CASE Enter(Job)
    BY <2>1 DEF Enter
  <2>2. CASE Refused(Job) \/ Fatal(Job)
    BY <2>2 DEF Refused, Fatal, Leave
  <2>3. CASE Backoff(Job) \/ MarkOk(Job) \/ MarkAuthError(Job)
    BY <2>3 DEF Backoff, MarkOk, MarkAuthError
  <2> QED
    BY <1>2, <2>1, <2>2, <2>3 DEF CallStep
<1>3. CASE Through(Job)
  BY <1>3 DEF Through, Leave
<1>4. CASE Dropped(Job)
  BY <1>4 DEF Dropped, Retried, Leave
<1>5. CASE Turn
  <2>1. token' \in BOOLEAN
    BY <1>5, Zenon DEF Turn
  <2>2. turns' \in 0..MaxTurns
    BY <1>5 DEF Turn
  <2> QED
    BY <1>5, <2>1, <2>2, Zenon DEF Turn
<1>6. CASE Restart
  BY <1>6 DEF Restart
<1>7. CASE UNCHANGED callVars
  BY <1>7 DEF callVars
<1> QED
  BY <1>1, <1>2, <1>3, <1>4, <1>5, <1>6, <1>7

-----------------------------------------------------------------------------
\* At the start the tab is blank and unread.
LEMMA InitIInv == Init => IInv
<1> SUFFICES ASSUME Init PROVE IInv
  OBVIOUS
<1> USE CallAssumption, SheetAssumption DEF Init
<1>1. CallTypeOK
  BY DEF CallInit, CallTypeOK
<1>2. TypeOK
  BY <1>1 DEF TypeOK, Cells, Versions, Calls, NoRow, Blank
<1>3. SheetOK /\ IndexOK /\ RowGate
  BY DEF SheetOK, IndexOK, RowGate, Blank
<1>4. JobOK /\ VersionsOK
  BY DEF JobOK, Writing, Removing, VersionsOK, Present
<1> QED
  BY <1>2, <1>3, <1>4 DEF IInv

-----------------------------------------------------------------------------
(* What several steps do                                                   *)

\* A step that touches neither the tab nor the index, and brings no item back.
LEMMA SheetKept ==
    ASSUME IInv, UNCHANGED <<sheet, index, next>>, \A i \in Items : Gone(i) => Gone(i)'
    PROVE  SheetOK' /\ IndexOK'
<1>1. SheetOK'
  BY DEF IInv, SheetOK
<1>2. IndexOK'
  BY DEF IInv, IndexOK, PointsOK, ApartOK, KnownOK, RowOf
<1> QED
  BY <1>1, <1>2

\* A step that neither writes a row nor records a hash.
LEMMA GateKept ==
    ASSUME IInv, UNCHANGED <<sheet, recorded>>, \A i \in Items : want[i] = 0 => want'[i] = 0
    PROVE  RowGate'
  BY DEF IInv, RowGate, RowOf

\* An item is given its row: its own, or one that no item has.
LEMMA AllocateKeeps ==
    ASSUME IInv, NEW i \in todo, index # Null, item' = i, Allocate(i),
           UNCHANGED <<notion, sheet, ledger, mode, view, todo>>
    PROVE  IInv'
<1> USE SheetAssumption DEF IInv, Allocate, notion, ledger
<1>1. /\ i \in Items /\ index \in [Items -> Rows \cup {NoRow}] /\ next \in 2..MaxRow + 1
      /\ index[i] # NoRow => index[i] \in Rows
      /\ index[i] = NoRow => next \in Rows
  BY DEF TypeOK, IndexOK, RowFor, Rows, NoRow
<1>2. /\ row' \in Rows /\ row' = RowFor(i) /\ index' = [index EXCEPT ![i] = row']
      /\ index'[i] = row' /\ \A j \in Items \ {i} : index'[j] = index[j]
      /\ next' \in 2..MaxRow + 1 /\ index' # Null
  BY <1>1, UnreadAssumption DEF RowFor, Rows, TypeOK
<1>3. CallTypeOK' /\ ~Arrived'
  BY CallTyped, CallAssumption DEF TypeOK, Ask, Goto, CallTypeOK, Arrived
<1>4. TypeOK'
  BY <1>1, <1>2, <1>3 DEF TypeOK, Calls
<1>5. RowOf(i) \subseteq {index[i]} \ {NoRow}
  BY <1>1 DEF IndexOK, KnownOK, Gone, RowOf, Rows, NoRow
<1>6. IndexOK'
  <2>1. CASE index[i] = NoRow
    <3>1. row' = next /\ next' = next + 1
      BY <2>1 DEF RowFor
    <3>2. sheet[next].id = Null
      BY <1>1, <2>1, CellIs DEF IndexOK, KnownOK, RowOf, Rows
    <3>3. PointsOK'
      BY <1>1, <1>2, <3>1, <3>2 DEF IndexOK, PointsOK, Rows, NoRow
    <3>4. ApartOK'
      BY <1>1, <1>2, <3>1 DEF IndexOK, PointsOK, ApartOK, Rows, NoRow
    <3>5. KnownOK'
      BY <1>1, <1>2, <1>5, <2>1, <3>1 DEF IndexOK, KnownOK, RowOf, Gone, Rows
    <3> QED
      BY <1>2, <3>3, <3>4, <3>5 DEF IndexOK
  <2>2. CASE index[i] # NoRow
    <3>1. index' = index /\ next' = next
      BY <1>1, <1>2, <2>2 DEF RowFor
    <3> QED
      BY <3>1 DEF IndexOK, PointsOK, ApartOK, KnownOK, RowOf, Gone
  <2> QED
    BY <2>1, <2>2
<1>7. JobOK'
  BY <1>1, <1>2, <1>3 DEF JobOK, Removing, Writing, NoRow, Rows
<1>8. SheetOK' /\ VersionsOK' /\ RowGate'
  BY GateKept DEF SheetOK, VersionsOK, Present
<1> QED
  BY <1>4, <1>6, <1>7, <1>8

\* An item that Notion no longer has is taken out of the index, and then its row,
\* which no other item has, is blanked.
LEMMA PopKeeps ==
    ASSUME IInv, NEW i \in key, want[i] = 0, todo = {}, index # Null, item' = i, Pop(i),
           UNCHANGED <<notion, sheet, ledger, mode, view, todo>>
    PROVE  IInv'
<1> USE SheetAssumption DEF IInv, Pop, notion, ledger
<1>1. /\ i \in Items /\ index \in [Items -> Rows \cup {NoRow}] /\ next \in 2..MaxRow + 1
      /\ index[i] # NoRow => index[i] \in Rows
  BY DEF TypeOK, IndexOK
<1>2. /\ row' = index[i] /\ next' = next /\ index' = [index EXCEPT ![i] = NoRow]
      /\ index'[i] = NoRow /\ \A j \in Items \ {i} : index'[j] = index[j]
      /\ pc' \in {"clear", "bury"} /\ (pc' = "clear" => row' # NoRow)
  BY <1>1
<1>3. CallTypeOK'
  BY CallTyped DEF TypeOK
<1>4. TypeOK'
  BY <1>1, <1>2, <1>3 DEF TypeOK, Calls
<1>5. IndexOK'
  <2>1. PointsOK' /\ ApartOK'
    BY <1>1, <1>2 DEF IndexOK, PointsOK, ApartOK
  <2>2. KnownOK'
    BY <1>1, <1>2 DEF IndexOK, KnownOK, RowOf, Gone
  <2> QED
    BY <1>1, <1>2, <2>1, <2>2 DEF IndexOK
<1>6. JobOK'
  BY <1>1, <1>2 DEF JobOK, Removing, Writing, IndexOK, PointsOK
<1>7. SheetOK' /\ VersionsOK' /\ RowGate'
  BY GateKept DEF SheetOK, VersionsOK, Present
<1> QED
  BY <1>4, <1>5, <1>6, <1>7

\* The tab is read first: the request waits.
LEMMA ReadFirstKeeps ==
    ASSUME IInv, ReadFirst, item' \in Items, UNCHANGED <<notion, sheet, ledger, mode, view, todo>>,
           item' \notin todo => item' \in key /\ want[item'] = 0 /\ todo = {}
    PROVE  IInv'
<1> USE SheetAssumption DEF IInv, ReadFirst, notion, ledger, cache
<1>1. CallTypeOK' /\ ~Arrived'
  BY CallTyped, CallAssumption DEF TypeOK, Ask, Goto, CallTypeOK, Arrived
<1>2. TypeOK'
  BY <1>1 DEF TypeOK, Calls
<1>3. SheetOK' /\ IndexOK' /\ RowGate'
  BY SheetKept, GateKept DEF Gone
<1>4. JobOK' /\ VersionsOK'
  BY <1>1 DEF JobOK, Removing, Writing, VersionsOK, Present
<1> QED
  BY <1>2, <1>3, <1>4

-----------------------------------------------------------------------------
(* The steps of the job                                                    *)

\* A job starts: all that Notion has may be written, nothing else.
LEMMA StartKeeps == ASSUME IInv, StartFull \/ StartPoll \/ Ensured PROVE IInv'
<1> USE SheetAssumption DEF IInv, notion, ledger, cache, Present
<1>1. CallTypeOK'
  BY CallTyped DEF TypeOK, StartFull, StartPoll, Ensured
<1>2. UNCHANGED <<sheet, notion, ledger>> /\ RowGate' /\ SheetOK'
  BY GateKept DEF StartFull, StartPoll, Ensured, SheetOK
<1>3. CASE StartFull
  <2>1. TypeOK'
    BY <1>1, <1>3 DEF StartFull, TypeOK, Calls
  <2>2. IndexOK'
    BY <1>3, SheetKept DEF StartFull, Gone
  <2>3. JobOK' /\ VersionsOK'
    BY <1>3 DEF StartFull, JobOK, Removing, Writing, VersionsOK
  <2> QED
    BY <1>2, <2>1, <2>2, <2>3
<1>4. CASE StartPoll
  <2>1. TypeOK'
    BY <1>1, <1>4 DEF StartPoll, TypeOK, Calls
  <2>2. IndexOK'
    BY <1>4, SheetKept DEF StartPoll, Gone
  <2>3. JobOK' /\ VersionsOK'
    BY <1>4 DEF StartPoll, JobOK, Removing, Writing, VersionsOK, TypeOK, Versions
  <2> QED
    BY <1>2, <2>1, <2>2, <2>3
<1>5. CASE Ensured
  <2>1. TypeOK'
    BY <1>1, <1>5 DEF Ensured, Reset, TypeOK, Calls
  <2>2. IndexOK'
    BY <1>5 DEF Ensured, Reset, IndexOK
  <2>3. JobOK' /\ VersionsOK'
    BY <1>5 DEF Ensured, JobOK, Removing, Writing, VersionsOK, TypeOK, Versions
  <2> QED
    BY <1>2, <2>1, <2>2, <2>3
<1> QED
  BY <1>3, <1>4, <1>5

\* The gate passes over an item: it is written later or not at all.
LEMMA SkipKeeps == ASSUME IInv, Skip PROVE IInv'
<1> USE SheetAssumption DEF IInv, Skip, notion, ledger, cache, Present
<1>1. TypeOK'
  BY CallTyped DEF TypeOK, Calls
<1>2. SheetOK' /\ IndexOK' /\ RowGate'
  BY SheetKept, GateKept DEF Gone
<1>3. JobOK' /\ VersionsOK'
  BY DEF JobOK, Removing, Writing, VersionsOK
<1> QED
  BY <1>1, <1>2, <1>3

\* An item is written, once the tab is read.
LEMMA UpsertKeeps == ASSUME IInv, Upsert \/ Primed PROVE IInv'
<1> USE SheetAssumption DEF IInv
<1>1. CASE Upsert
  <2>1. PICK i \in todo : item' = i /\ (ReadFirst \/ (index # Null /\ Allocate(i)))
    BY <1>1 DEF Upsert
  <2> QED
    BY <1>1, <2>1, ReadFirstKeeps, AllocateKeeps DEF Upsert, TypeOK
<1>2. CASE Primed /\ item \in todo
  BY <1>2, AllocateKeeps DEF Primed, JobOK, Arrived
<1>3. CASE Primed /\ item \notin todo
  BY <1>3, PopKeeps DEF Primed, JobOK, Arrived, Removing
<1> QED
  BY <1>1, <1>2, <1>3

\* A row is removed, once the tab is read.
LEMMA RemoveKeeps == ASSUME IInv, Remove PROVE IInv'
<1>1. PICK i \in Items : Unseen(i) /\ item' = i /\ (ReadFirst \/ (index # Null /\ Pop(i)))
  BY DEF Remove
<1>2. i \in key /\ want[i] = 0 /\ todo = {}
  BY <1>1 DEF Unseen, IInv, JobOK, Remove
<1> QED
  BY <1>1, <1>2, ReadFirstKeeps, PopKeeps DEF Remove

\* The row is written, its key is committed, and then the hash of what it shows.
LEMMA RecordKeeps == ASSUME IInv, Written \/ SetKey \/ SetHash PROVE IInv'
<1> USE SheetAssumption DEF IInv, notion, ledger, cache, locals, Present
<1>1. CASE Written
  <2>1. TypeOK'
    BY <1>1, CallTyped DEF Written, TypeOK, Calls
  <2>2. SheetOK' /\ IndexOK' /\ RowGate'
    BY <1>1, SheetKept, GateKept DEF Written, Gone
  <2>3. JobOK' /\ VersionsOK'
    BY <1>1 DEF Written, JobOK, Removing, Writing, Arrived, Shows, VersionsOK
  <2> QED
    BY <2>1, <2>2, <2>3
<1>2. CASE SetKey
  <2>1. TypeOK'
    BY <1>2, CallTyped DEF SetKey, TypeOK, Calls, JobOK, Writing
  <2>2. SheetOK' /\ IndexOK' /\ RowGate'
    BY <1>2, SheetKept, GateKept DEF SetKey, Gone
  <2>3. JobOK' /\ VersionsOK'
    BY <1>2 DEF SetKey, JobOK, Removing, Writing, Arrived, Shows, VersionsOK
  <2> QED
    BY <2>1, <2>2, <2>3
<1>3. CASE SetHash
  <2>1. /\ item \in todo /\ item \in Items /\ row \in Rows
        /\ sheet[row] = [id |-> item, val |-> view[item]]
        /\ recorded'[item] = view[item]
        /\ \A i \in Items \ {item} : recorded'[i] = recorded[i]
    BY <1>3 DEF SetHash, JobOK, Writing, Shows, TypeOK
  <2>2. TypeOK'
    BY <1>3, <2>1, CallTyped DEF SetHash, TypeOK, Calls
  <2>3. SheetOK' /\ IndexOK'
    BY <1>3, SheetKept DEF SetHash, Gone
  <2>4. JobOK' /\ VersionsOK'
    BY <1>3, <2>1 DEF SetHash, JobOK, Removing, Writing, VersionsOK, TypeOK
  <2>5. RowGate'
    <3>1. sheet[row].val >= recorded'[item] /\ row \in RowOf(item)
      BY <2>1 DEF RowOf, TypeOK, Versions
    <3> QED
      BY <1>3, <2>1, <3>1 DEF SetHash, RowGate, RowOf
  <2> QED
    BY <2>2, <2>3, <2>4, <2>5
<1> QED
  BY <1>1, <1>2, <1>3

\* An item that fails is passed over, or ends the job; the tab is as it is.
LEMMA EndsKeep == ASSUME IInv, ItemFails \/ JobEnds PROVE IInv'
<1> USE SheetAssumption DEF IInv, notion, ledger, cache, locals, Present
<1>1. UNCHANGED <<sheet, index, next, want, moves, key, recorded, tomb>> /\ todo' \subseteq todo
  BY DEF ItemFails, JobEnds, Stop
<1>2. SheetOK' /\ IndexOK' /\ RowGate'
  BY <1>1, SheetKept, GateKept DEF Gone
<1>3. CallTypeOK'
  BY CallTyped DEF ItemFails, JobEnds, TypeOK
<1>4. TypeOK' /\ JobOK' /\ VersionsOK'
  <2>1. CASE Stop
    BY <1>1, <1>3, <2>1 DEF Stop, TypeOK, JobOK, Removing, Writing, VersionsOK, Versions
  <2>2. CASE pc' = "pick" /\ todo' = todo \ {item} /\ item' = Null /\ row' = NoRow /\ UNCHANGED <<mode, view>>
    BY <1>1, <1>3, <2>2 DEF TypeOK, JobOK, Removing, Writing, VersionsOK
  <2> QED
    BY <2>1, <2>2 DEF ItemFails, JobEnds
<1> QED
  BY <1>2, <1>4

\* The removal looks for what is gone, and tombstones it.
LEMMA SweepKeeps == ASSUME IInv, Sweep \/ Cleared \/ Bury PROVE IInv'
<1> USE SheetAssumption DEF IInv, notion, ledger, cache, locals, Present
<1>1. UNCHANGED <<sheet, index, next, want, moves, key, recorded, todo>>
  BY DEF Sweep, Cleared, Bury
<1>2. SheetOK' /\ IndexOK' /\ RowGate'
  BY <1>1, SheetKept, GateKept DEF Gone
<1>3. CallTypeOK'
  BY CallTyped DEF Sweep, Cleared, Bury, TypeOK
<1>4. CASE Sweep
  BY <1>1, <1>2, <1>3, <1>4 DEF Sweep, TypeOK, Calls, JobOK, Removing, Writing, VersionsOK, Versions
<1>5. CASE Cleared
  BY <1>1, <1>2, <1>3, <1>5 DEF Cleared, TypeOK, Calls, JobOK, Removing, Writing, VersionsOK
<1>6. CASE Bury
  BY <1>1, <1>2, <1>3, <1>6 DEF Bury, TypeOK, Calls, JobOK, Removing, Writing, VersionsOK
<1> QED
  BY <1>4, <1>5, <1>6

-----------------------------------------------------------------------------
(* The requests, and the rest of the world                                 *)

\* Unless a request is answered by it, a step of a call changes nothing the
\* invariant speaks of.
LEMMA StepKeeps == ASSUME IInv, Step \/ TokenTurns PROVE IInv'
<1> USE SheetAssumption, CallAssumption DEF IInv, sheetVars, notion, ledger, cache, locals, Present
<1>1. UNCHANGED sheetVars /\ CallTypeOK'
  BY CallTyped DEF Step, TokenTurns, TypeOK
<1>2. Arrived' => Arrived
  <2>1. CASE TokenTurns
    BY <2>1 DEF TokenTurns, Turn, Arrived
  <2>2. CASE CallStep(Job)
    BY <2>2 DEF CallStep, Enter, Refused, Fatal, Backoff, MarkOk, MarkAuthError, Leave, Goto,
                Arrived, TypeOK, CallTypeOK
  <2> QED
    BY <2>1, <2>2 DEF Step
<1>3. SheetOK' /\ IndexOK' /\ RowGate'
  BY <1>1, SheetKept, GateKept DEF Gone
<1>4. TypeOK'
  BY <1>1 DEF TypeOK
<1>5. JobOK' /\ VersionsOK'
  BY <1>1, <1>2 DEF JobOK, Removing, Writing, Shows, VersionsOK
<1> QED
  BY <1>3, <1>4, <1>5

\* A row that is written or blanked is of the item in hand, or of none; it shows
\* nothing older than what is recorded.
LEMMA EffectKeeps ==
    ASSUME IInv, pc \in {"write", "clear"}, sheet' = [sheet EXCEPT ![row] = Cell],
           UNCHANGED <<cache, notion, ledger, pc, locals>>, CallTypeOK'
    PROVE  IInv' /\ (pc = "write" => Shows')
<1> USE SheetAssumption DEF IInv, cache, notion, ledger, locals
<1>1. /\ row \in Rows /\ sheet[row].id \in {item, Null} /\ item \in Items
      /\ sheet'[row] = Cell /\ \A r \in Rows \ {row} : sheet'[r] = sheet[r]
  BY DEF JobOK, Writing, Removing, IndexOK, PointsOK, TypeOK
<1>2. CASE pc = "write"
  <2>1. /\ Cell = [id |-> item, val |-> view[item]] /\ view[item] \in 1..MaxVersion
        /\ item \in todo /\ index # Null /\ row = index[item]
    BY <1>2 DEF Cell, JobOK, Writing, VersionsOK, TypeOK, Versions
  <2>2. TypeOK'
    BY <1>1, <1>2, <2>1 DEF TypeOK, Cells
  <2>3. RowOf(item) \subseteq {row}
    BY <2>1 DEF IndexOK, KnownOK, Gone, TypeOK
  <2>4. SheetOK'
    BY <1>1, <2>1, <2>3 DEF SheetOK, RowOf
  <2>5. IndexOK'
    <3>1. /\ index' = index /\ next' = next /\ todo' = todo /\ want' = want
          /\ index \in [Items -> Rows \cup {NoRow}] /\ row # NoRow
          /\ PointsOK /\ ApartOK /\ KnownOK
      BY <1>2, <2>1 DEF TypeOK, IndexOK, JobOK
    <3>2. PointsOK' /\ ApartOK'
      BY <1>1, <2>1, <3>1 DEF PointsOK, ApartOK
    <3>3. ASSUME NEW i \in Items, NEW r \in RowOf(i)'
          PROVE  r < next /\ (index[i] = r \/ (index[i] = NoRow /\ Gone(i)))
      <4>1. CASE r = row
        BY <1>1, <2>1, <3>1, <3>3, <4>1 DEF PointsOK, RowOf
      <4>2. CASE r # row
        BY <1>1, <3>1, <3>3, <4>2 DEF KnownOK, RowOf
      <4> QED
        BY <4>1, <4>2
    <3>4. KnownOK'
      BY <3>1, <3>3 DEF KnownOK, Gone
    <3> QED
      BY <3>1, <3>2, <3>4 DEF IndexOK
  <2>6. RowGate'
    <3>1. SUFFICES ASSUME NEW i \in Items, want[i] # 0, recorded[i] # 0
                   PROVE  \E r \in RowOf(i)' : sheet'[r].val >= recorded[i]
      BY DEF RowGate
    <3>2. CASE i = item
      <4>1. recorded[i] <= view[i] /\ sheet'[row].id = i /\ sheet'[row].val = view[i]
        BY <1>1, <2>1, <3>2 DEF VersionsOK
      <4> QED
        BY <1>1, <4>1 DEF RowOf, TypeOK, Versions
    <3>3. CASE i # item
      <4>1. PICK r \in RowOf(i) : sheet[r].val >= recorded[i]
        BY <3>1 DEF RowGate
      <4>2. r # row /\ r \in Rows
        BY <1>1, <3>3, <4>1 DEF RowOf
      <4> QED
        BY <1>1, <4>1, <4>2 DEF RowOf
    <3> QED
      BY <3>2, <3>3
  <2>7. JobOK' /\ VersionsOK' /\ Shows'
    BY <1>1, <1>2, <2>1 DEF JobOK, Removing, Writing, Shows, VersionsOK, Present
  <2> QED
    BY <2>2, <2>4, <2>5, <2>6, <2>7
<1>3. CASE pc = "clear"
  <2>1. Cell = Blank /\ Cell.id = Null /\ item \in Items /\ want[item] = 0
    BY <1>1, <1>3 DEF Cell, Blank, JobOK, Removing
  <2>2. TypeOK'
    BY <1>1, <2>1 DEF TypeOK, Cells
  <2>3. SheetOK'
    BY <1>1, <2>1 DEF SheetOK
  <2>4. IndexOK'
    <3>1. SUFFICES ASSUME index # Null PROVE IndexOK'
      BY DEF IndexOK
    <3>2. /\ index' = index /\ next' = next /\ todo' = todo /\ want' = want
          /\ index \in [Items -> Rows \cup {NoRow}]
          /\ PointsOK /\ ApartOK /\ KnownOK
      BY <3>1 DEF TypeOK, IndexOK
    <3>3. PointsOK' /\ ApartOK'
      BY <1>1, <2>1, <3>2 DEF PointsOK, ApartOK
    <3>4. KnownOK'
      BY <1>1, <2>1, <3>2 DEF KnownOK, RowOf, Gone
    <3> QED
      BY <3>1, <3>2, <3>3, <3>4 DEF IndexOK
  <2>5. RowGate'
    <3>1. SUFFICES ASSUME NEW i \in Items, want[i] # 0, recorded[i] # 0
                   PROVE  \E r \in RowOf(i)' : sheet'[r].val >= recorded[i]
      BY DEF RowGate
    <3>2. PICK r \in RowOf(i) : sheet[r].val >= recorded[i]
      BY <3>1 DEF RowGate
    <3>3. r # row /\ r \in Rows
      BY <1>1, <2>1, <3>1, <3>2 DEF RowOf
    <3> QED
      BY <1>1, <3>2, <3>3 DEF RowOf
  <2>6. JobOK' /\ VersionsOK'
    BY <1>1, <1>3, <2>1 DEF JobOK, Removing, Writing, Shows, VersionsOK, Present
  <2> QED
    BY <1>3, <2>2, <2>3, <2>4, <2>5, <2>6
<1> QED
  BY <1>2, <1>3

\* A read that comes back fills the index with the rows as they are.
LEMMA LoadedKeeps ==
    ASSUME IInv, pc = "prime", Loaded, UNCHANGED <<sheet, notion, ledger, pc, locals>>, CallTypeOK'
    PROVE  IInv'
<1> USE SheetAssumption DEF IInv, Loaded, notion, ledger, locals
<1>1. index' = ReadIndex /\ next' = LastUsed + 1 /\ index' \in [Items -> Rows \cup {NoRow}]
  <2>1. \A i \in Items : ReadIndex[i] \in Rows \cup {NoRow}
    BY ReadIndexIs DEF RowOf
  <2> QED
    BY <2>1 DEF ReadIndex
<1>2. next' \in 2..MaxRow + 1 /\ \A r \in Used : r < next'
  BY <1>1, LastUsedIs DEF Used, Rows
<1>3. TypeOK'
  BY <1>1, <1>2 DEF TypeOK
<1>4. \A i \in Items : /\ index'[i] \in RowOf(i) \cup {NoRow}
                       /\ \A r \in RowOf(i) : index'[i] = r
  BY <1>1, ReadIndexIs
<1>5. \A i \in Items : \A r \in RowOf(i) : r \in Used /\ sheet[r].id = i
  BY DEF RowOf, Used, Blank
<1>6. PointsOK'
  BY <1>2, <1>4, <1>5 DEF PointsOK
<1>7. ApartOK'
  BY <1>4, <1>5 DEF ApartOK
<1>8. KnownOK'
  BY <1>2, <1>4, <1>5 DEF KnownOK, RowOf
<1>9. IndexOK'
  BY <1>2, <1>6, <1>7, <1>8 DEF IndexOK
<1>10. SheetOK' /\ RowGate'
  BY GateKept DEF SheetOK
<1>11. JobOK' /\ VersionsOK'
  <2>1. index' # Null
    BY <1>1, UnreadAssumption
  <2> QED
    BY <2>1 DEF JobOK, Removing, Writing, VersionsOK, Present
<1> QED
  BY <1>3, <1>9, <1>10, <1>11

\* Nothing of the tab, the index or the ledger changes, and the request in hand is
\* not answered.
LEMMA NothingKeeps ==
    ASSUME IInv, UNCHANGED sheetVars, CallTypeOK', Arrived' => pc \notin {"prime", "write"}
    PROVE  IInv'
<1> USE SheetAssumption DEF IInv, sheetVars, notion, ledger, cache, locals, Present
<1>1. SheetOK' /\ IndexOK' /\ RowGate'
  BY SheetKept, GateKept DEF Gone
<1>2. TypeOK' /\ JobOK' /\ VersionsOK'
  BY DEF TypeOK, JobOK, Removing, Writing, Shows, VersionsOK
<1> QED
  BY <1>1, <1>2

\* A request is performed: once and answered, or once or not at all and the answer
\* is lost.
LEMMA RequestKeeps == ASSUME IInv, Answered \/ Lost PROVE IInv'
<1> USE SheetAssumption DEF sheetVars, notion, ledger, cache, locals
<1>1. CallTypeOK'
  BY CallTyped DEF IInv, TypeOK, Answered, Lost
<1>2. CASE Answered
  <2>1. CASE pc \in {"write", "clear"}
    <3>1. IInv' /\ (pc = "write" => Shows')
      BY <1>1, <1>2, <2>1, EffectKeeps DEF Answered, Effect, Loaded
    <3> QED
      BY <3>1
  <2>2. CASE pc = "prime"
    BY <1>1, <1>2, <2>2, LoadedKeeps DEF Answered, Effect
  <2>3. CASE pc \notin {"write", "clear", "prime"}
    BY <1>1, <1>2, <2>3, NothingKeeps DEF Answered, Effect, Loaded
  <2> QED
    BY <2>1, <2>2, <2>3
<1>3. CASE Lost
  <2>1. ~Arrived'
    BY <1>3, SheetAssumption DEF Lost, Dropped, Retried, Leave, Goto, Arrived, IInv, TypeOK, CallTypeOK
  <2>2. CASE UNCHANGED sheet
    BY <1>1, <1>3, <2>1, <2>2, NothingKeeps DEF Lost
  <2>3. CASE Effect /\ pc \in {"write", "clear"}
    BY <1>1, <1>3, <2>3, EffectKeeps DEF Lost, Effect
  <2> QED
    BY <1>3, <2>2, <2>3 DEF Lost, Effect
<1> QED
  BY <1>2, <1>3

\* Notion changes, or the process starts afresh.
LEMMA WorldKeeps == ASSUME IInv, World PROVE IInv'
<1> USE SheetAssumption DEF IInv, notion, ledger, cache, locals
<1>1. CASE TokenTurns
  BY <1>1, StepKeeps
<1>2. CASE Crash
  <2>1. TypeOK'
    BY <1>2, CallTyped DEF Crash, Reset, Stop, TypeOK, Versions
  <2>2. SheetOK' /\ IndexOK' /\ RowGate'
    BY <1>2, GateKept DEF Crash, Reset, SheetOK, IndexOK
  <2>3. JobOK' /\ VersionsOK'
    BY <1>2 DEF Crash, Stop, JobOK, Removing, Writing, VersionsOK, Present, TypeOK, Versions
  <2> QED
    BY <2>1, <2>2, <2>3
<1>3. ASSUME NEW i \in Items, Edit(i) \/ Delete(i)
      PROVE  IInv'
  <2>1. PICK v \in Versions : /\ Change(i, v) /\ want[i] # 0 /\ (v = 0 \/ v > want[i])
    BY <1>3 DEF Edit, Delete, TypeOK, Versions
  <2>2. /\ want'[i] = v /\ \A j \in Items \ {i} : want'[j] = want[j]
        /\ UNCHANGED <<callVars, sheet, index, next, key, recorded, tomb, pc, mode, view, todo, item, row>>
    BY <2>1 DEF Change, TypeOK
  <2>3. TypeOK'
    <3>1. CallTypeOK'
      BY <2>2, CallTyped DEF TypeOK
    <3> QED
      BY <2>1, <2>2, <3>1 DEF Change, TypeOK
  <2>4. SheetOK' /\ IndexOK' /\ RowGate'
    BY <2>1, <2>2, SheetKept, GateKept DEF Gone
  <2>5. JobOK'
    BY <2>1, <2>2 DEF callVars, JobOK, Removing, Writing, Shows, Arrived, TypeOK
  <2>6. VersionsOK'
    BY <2>1, <2>2 DEF VersionsOK, Present, TypeOK, Versions
  <2> QED
    BY <2>3, <2>4, <2>5, <2>6
<1> QED
  BY <1>1, <1>2, <1>3 DEF World

\* Every step keeps the invariant.
LEMMA NextIInv == ASSUME IInv, [Next]_vars PROVE IInv'
<1>1. CASE Work
  BY <1>1, StartKeeps, SkipKeeps, UpsertKeeps, RecordKeeps, EndsKeep, SweepKeeps, RemoveKeeps
  DEF Work
<1>2. CASE StartFull \/ StartPoll \/ Step \/ Answered \/ Lost \/ World
  BY <1>2, StartKeeps, StepKeeps, RequestKeeps, WorldKeeps
<1>3. CASE UNCHANGED vars
  <2>1. CallTypeOK' /\ UNCHANGED sheetVars /\ (Arrived' <=> Arrived)
    BY <1>3, CallTyped DEF IInv, TypeOK, vars, callVars, Arrived
  <2>2. SheetOK' /\ IndexOK' /\ RowGate'
    BY <2>1, SheetKept, GateKept DEF sheetVars, notion, ledger, cache, locals, Gone
  <2> QED
    BY <2>1, <2>2 DEF IInv, TypeOK, JobOK, Removing, Writing, Shows, VersionsOK, Present,
                      sheetVars, notion, ledger, cache, locals
<1> QED
  BY <1>1, <1>2, <1>3 DEF Next

\* What the row index may be, in every state.
LEMMA Inductive == Spec => []IInv
  BY InitIInv, NextIInv, PTL DEF Spec

\* upsert_row never gives an item a second row (app/engines/google_mirror.py),
\* whatever was lost, retried, cut short by a restart or forgotten by the cache.
THEOREM NoSecondRow == Spec => []OneRowEach
<1>1. IInv => OneRowEach
  BY OneRowIs DEF IInv
<1> QED
  BY Inductive, <1>1, PTL

\* An item that the row gate would pass over has its row, and the row shows the
\* version that is recorded or a newer one (app/engines/mirror_out.py).
THEOREM RowGateIsSafe == Spec => []RowGate
<1>1. IInv => RowGate
  BY DEF IInv
<1> QED
  BY Inductive, <1>1, PTL

-----------------------------------------------------------------------------
(* The Google lock, for any number of threads that call                    *)

\* A thread holds the lock exactly while its request is under way.
Held == \A t \in Threads : at[t] = "sent" <=> holder = t
OneRequest == \A s, t \in Threads : at[s] = "sent" /\ at[t] = "sent" => s = t

\* Waiting, sleeping and marking are done without the lock; every way out of a
\* request, with a result or an exception, gives it back.
LEMMA HeldStep == ASSUME CallTypeOK, Held, [CallNext]_callVars PROVE CallTypeOK' /\ Held'
<1> USE CallAssumption DEF CallTypeOK, Held, world, Goto, Over
<1>1. ASSUME NEW t \in Threads, Ask(t) \/ Return(t) \/ Backoff(t) \/ MarkOk(t) \/ MarkAuthError(t)
      PROVE  CallTypeOK' /\ Held'
  <2>1. CASE Ask(t) \/ Return(t)
    BY <2>1 DEF Ask, Return
  <2>2. CASE Backoff(t)
    BY <2>2 DEF Backoff
  <2>3. CASE MarkOk(t)
    BY <2>3 DEF MarkOk
  <2>4. CASE MarkAuthError(t)
    BY <2>4 DEF MarkAuthError
  <2> QED
    BY <1>1, <2>1, <2>2, <2>3, <2>4
<1>2. ASSUME NEW t \in Threads, Enter(t)
      PROVE  CallTypeOK' /\ Held'
  BY <1>2 DEF Enter
<1>3. ASSUME NEW t \in Threads, Refused(t) \/ Fatal(t) \/ Through(t)
      PROVE  CallTypeOK' /\ Held'
  BY <1>3 DEF Refused, Fatal, Through, Leave
<1>4. ASSUME NEW t \in Threads, Dropped(t)
      PROVE  CallTypeOK' /\ Held'
  BY <1>4 DEF Dropped, Retried, Leave
<1>5. CASE Turn
  <2>1. token' \in BOOLEAN
    BY <1>5, Zenon DEF Turn
  <2>2. turns' \in 0..MaxTurns /\ UNCHANGED <<at, tries, holder, healthy, faults, restarts>>
    BY <1>5 DEF Turn
  <2>3. CallTypeOK'
    BY <2>1, <2>2, Zenon
  <2> QED
    BY <2>2, <2>3
<1>6. CASE Restart
  BY <1>6 DEF Restart
<1>7. CASE UNCHANGED callVars
  BY <1>7 DEF callVars
<1> QED
  BY <1>1, <1>2, <1>3, <1>4, <1>5, <1>6, <1>7 DEF CallNext, CallStep

\* _GOOGLE_LOCK (app/connectors/google/_retry.py) lets one request through at a
\* time, whichever of them are refused, dropped or repeated.
THEOREM OneRequestAtATime == CallSpec => []OneRequest
<1>1. CallInit => CallTypeOK /\ Held
  BY CallAssumption DEF CallInit, CallTypeOK, Held
<1>2. CallTypeOK /\ Held /\ [CallNext]_callVars => CallTypeOK' /\ Held'
  BY HeldStep
<1>3. Held => OneRequest
  BY DEF Held, OneRequest
<1> QED
  BY <1>1, <1>2, <1>3, PTL DEF CallSpec
=============================================================================
