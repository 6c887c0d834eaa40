-------------------------- MODULE IndexRowsProofs --------------------------
(***************************************************************************)
(* Why a row's hash is the hash of what the row shows, for every set of    *)
(* items, titles, days, edits and faults, but for a row whose hash was     *)
(* never written; why no filed item loses its row though threads share the *)
(* row index without a lock; and why no item does while they take the lock.*)
(***************************************************************************)
EXTENDS MCIndexRows, WellFoundedInduction, TLAPS

\* What a row, and with it a record of the engine, is made of.
Record  == [name : Show!Titles \cup {Show!Null}, names : SUBSET Show!Titles,
            due : [day : 0..MaxDay, time : 0..MaxTime], doc : Nat]
Hashes  == {<<>>} \cup {Show!Hash(r) : r \in Record}
Ledger  == [known : BOOLEAN, title : Show!Titles \cup {Show!Null}, doc : Nat, hash : Hashes]
Engine  == [pc : {"idle", "pick", "pair", "gate", "row", "record"}, job : {"none", "full", "poll"},
            page : [Items -> Show!Page], names : [Items -> Show!Titles \cup {Show!Null}],
            todo : SUBSET Items, cur : Items \cup {Show!Null}, record : Record]
ShownOK == /\ notion \in [Items -> Show!Page] /\ docs \in Nat /\ changed \subseteq Items
           /\ row \in [Items -> Record] /\ pair \in [Items -> Ledger] /\ eng \in Engine
           /\ torn \subseteq Items

\* A hash is that of the row as it is, unless the row was written just now or the
\* item failed between the two.
HashOK  == \A i \in Items : \/ pair[i].hash = <<>>
                            \/ pair[i].hash = Show!Hash(row[i])
                            \/ eng.pc = "record" /\ eng.cur = i
                            \/ i \in torn
CurOK   == /\ eng.pc \notin {"idle", "pick"} => eng.cur \in Items
           /\ eng.pc = "record" => row[eng.cur] = eng.record

ShownInv == ShownOK /\ HashOK /\ CurOK

-----------------------------------------------------------------------------
(* What a row shows                                                        *)

\* At the start nothing is recorded.
LEMMA InitShown == Init => ShownInv
<1> SUFFICES ASSUME Init PROVE ShownInv
  OBVIOUS
<1> USE ConstantsAssumption DEF Init, Show!Init, Show!IndexRowConstants
<1>1. Show!Plain \in [Items -> Show!Page] /\ Show!NoRow \in Record
  BY DEF Show!Plain, Show!Page, Show!Due, Show!Titles, Show!NoRow, Show!Null, Record
<1>2. /\ notion \in [Items -> Show!Page] /\ pair \in [Items -> Ledger]
  BY <1>1 DEF Show!Plain, Show!Page, Show!NoPair, Show!Null, Ledger, Hashes
<1>3. eng \in Engine
  BY <1>1 DEF Show!Idle, Show!Null, Engine
<1>4. ShownOK
  BY <1>1, <1>2, <1>3 DEF ShownOK
<1>5. HashOK /\ CurOK
  BY DEF HashOK, CurOK, Show!NoPair, Show!Idle
<1> QED
  BY <1>4, <1>5 DEF ShownInv

\* A record is built of a page and of names.
LEMMA BuiltIs ==
    ASSUME NEW p \in Show!Page, NEW names \in [Items -> Show!Titles \cup {Show!Null}], NEW doc \in Nat,
           ConstantsAssumption
    PROVE  Show!Built(p, names, doc) \in Record
<1>1. p.title \in Show!Titles /\ p.rel \subseteq Items /\ p.due \in [day : 0..MaxDay, time : 0..MaxTime]
  BY DEF Show!Page, Show!Due, ConstantsAssumption, Show!IndexRowConstants
<1>2. Show!NamesFor(p.rel, names) \subseteq Show!Titles
  BY <1>1 DEF Show!NamesFor
<1> QED
  BY <1>1, <1>2 DEF Show!Built, Record

\* A job begins with the pages and the names it reads; it ends with nothing in hand.
LEMMA JobShown == ASSUME ShownInv, Show!BeginFull \/ Show!BeginPoll \/ Show!End PROVE ShownInv'
<1> USE ConstantsAssumption DEF ShownInv
<1>1. /\ UNCHANGED <<notion, docs, row, pair, torn>> /\ eng'.pc \in {"idle", "pick"} /\ changed' \subseteq Items
  <2>1. CASE Show!BeginFull \/ Show!BeginPoll
    BY <2>1 DEF Show!BeginFull, Show!BeginPoll, Show!Begin, Show!Idle, ShownOK
  <2>2. CASE Show!End
    <3>1. eng'.pc = "idle"
      BY <2>2 DEF Show!End, Show!Idle
    <3> QED
      BY <2>2, <3>1 DEF Show!End, Show!Outside, ShownOK
  <2> QED
    BY <2>1, <2>2
<1>2. Show!Idle \in Engine
  BY DEF Show!Idle, Show!Plain, Show!Page, Show!Due, Show!Titles, Show!NoRow, Show!Null, Record, Engine,
         Show!IndexRowConstants
<1>3. eng' \in Engine
  <2>1. Show!CrawlNames \in [Items -> Show!Titles \cup {Show!Null}]
    BY DEF Show!CrawlNames, ShownOK, Show!Page
  <2>2. CASE Show!BeginFull
    BY <1>2, <2>1, <2>2 DEF Show!BeginFull, Show!Begin, ShownOK, Engine
  <2>3. CASE Show!BeginPoll
    BY <1>2, <2>3 DEF Show!BeginPoll, Show!Begin, ShownOK, Engine
  <2>4. CASE Show!End
    BY <1>2, <2>4 DEF Show!End, ShownOK, Engine
  <2> QED
    BY <2>2, <2>3, <2>4
<1>4. HashOK' /\ CurOK'
  <2>1. eng.pc # "record"
    BY DEF Show!BeginFull, Show!BeginPoll, Show!Begin, Show!End
  <2> QED
    BY <1>1, <2>1 DEF HashOK, CurOK
<1> QED
  BY <1>1, <1>3, <1>4 DEF ShownOK

\* An item is picked, its record built and its pair entered: no hash, no row.
LEMMA PairShown == ASSUME ShownInv, Show!Pick \/ Show!UpsertPair PROVE ShownInv'
<1> USE ConstantsAssumption DEF ShownInv, Show!Outside
<1>1. CASE Show!Pick
  <2> DEFINE names == IF eng.job = "full" THEN eng.names ELSE Show!LedgerNames
             doc(i) == IF Show!Reused(i) THEN Show!Stored(i) ELSE docs + 1
  <2>1. PICK i \in eng.todo :
          /\ eng' = [eng EXCEPT !.pc = "pair", !.cur = i, !.todo = @ \ {i},
                                !.record = Show!Built(eng.page[i], names, doc(i))]
          /\ docs' \in {docs, docs + 1} /\ UNCHANGED <<notion, changed, row, pair, torn>> /\ eng.pc = "pick"
    BY <1>1 DEF Show!Pick
  <2>2. i \in Items /\ doc(i) \in Nat /\ names \in [Items -> Show!Titles \cup {Show!Null}] /\ docs' \in Nat
    BY <2>1 DEF ShownOK, Engine, Ledger, Show!Stored, Show!LedgerNames
  <2> HIDE DEF names, doc
  <2>3. Show!Built(eng.page[i], names, doc(i)) \in Record
    BY <2>2, BuiltIs DEF ShownOK, Engine
  <2>4. ShownOK' /\ eng'.pc = "pair" /\ eng'.cur = i
    BY <2>1, <2>2, <2>3 DEF ShownOK, Engine
  <2>5. HashOK' /\ CurOK'
    BY <2>1, <2>2, <2>4 DEF HashOK, CurOK
  <2> QED
    BY <2>4, <2>5
<1>2. CASE Show!UpsertPair
  <2>1. /\ UNCHANGED <<notion, changed, docs, row, torn>> /\ eng.pc = "pair" /\ eng.cur \in Items /\ eng.record \in Record
        /\ pair' = [pair EXCEPT ![eng.cur].known = TRUE, ![eng.cur].title = eng.record.name,
                                ![eng.cur].doc = eng.record.doc]
        /\ eng' = [eng EXCEPT !.pc = "gate"]
    BY <1>2 DEF Show!UpsertPair, Show!Upserted, Show!Fields, CurOK, ShownOK, Engine
  <2>2. pair' \in [Items -> Ledger] /\ \A i \in Items : pair'[i].hash = pair[i].hash
    <3> DEFINE new == [pair[eng.cur] EXCEPT !.known = TRUE, !.title = eng.record.name, !.doc = eng.record.doc]
    <3>1. pair[eng.cur] \in Ledger
      BY <2>1 DEF ShownOK
    <3>2. new \in Ledger /\ new.hash = pair[eng.cur].hash
      BY <2>1, <3>1 DEF Ledger, Record
    <3>3. pair' = [pair EXCEPT ![eng.cur] = new]
      BY <2>1, <3>1 DEF ShownOK, Ledger
    <3> QED
      BY <2>1, <3>2, <3>3 DEF ShownOK
  <2>3. ShownOK' /\ eng'.pc = "gate" /\ eng'.cur = eng.cur
    BY <2>1, <2>2 DEF ShownOK, Engine
  <2>4. HashOK' /\ CurOK'
    BY <2>1, <2>2, <2>3 DEF HashOK, CurOK
  <2> QED
    BY <2>3, <2>4
<1> QED
  BY <1>1, <1>2

\* The gate, and an item that fails: row and hash as they were, and if the row was
\* just written the item is one whose hash is missing.
LEMMA GateShown == ASSUME ShownInv, Show!Gate \/ Show!FailItem PROVE ShownInv'
<1> USE DEF ShownInv
<1>1. UNCHANGED <<notion, changed, docs, row, pair>>
  BY DEF Show!Gate, Show!FailItem, Show!Outside
<1>2. /\ eng' \in {[eng EXCEPT !.pc = "pick", !.cur = Show!Null, !.record = Show!NoRow], [eng EXCEPT !.pc = "row"]}
      /\ eng'.pc = "row" => eng.pc = "gate"
  BY DEF Show!Gate, Show!FailItem, Show!NextItem, ShownOK, Engine
<1>3. Show!NoRow \in Record
  BY ConstantsAssumption DEF Show!NoRow, Show!Null, Record, Show!IndexRowConstants
<1>4. torn \subseteq torn' /\ torn' \subseteq Items /\ (eng.pc = "record" => eng.cur \in torn')
  BY DEF Show!Gate, Show!FailItem, ShownOK, CurOK
<1>5. ShownOK' /\ eng'.pc \in {"pick", "row"} /\ (eng'.pc = "row" => eng'.cur = eng.cur)
  BY <1>1, <1>2, <1>3, <1>4 DEF ShownOK, Engine
<1>6. HashOK' /\ CurOK'
  BY <1>1, <1>2, <1>4, <1>5 DEF HashOK, CurOK
<1> QED
  BY <1>5, <1>6

\* The row is written, and then its hash.
LEMMA RowShown == ASSUME ShownInv, Show!UpsertRow \/ Show!RecordSource PROVE ShownInv'
<1> USE DEF ShownInv, Show!Outside
<1>1. eng.cur \in Items /\ eng.record \in Record
  BY DEF Show!UpsertRow, Show!RecordSource, CurOK, ShownOK, Engine
<1>2. CASE Show!UpsertRow
  <2>1. /\ UNCHANGED <<notion, changed, docs, pair, torn>> /\ eng' = [eng EXCEPT !.pc = "record"] /\ eng.pc = "row"
        /\ row'[eng.cur] = eng.record /\ row' \in [Items -> Record]
        /\ \A i \in Items \ {eng.cur} : row'[i] = row[i]
    BY <1>1, <1>2 DEF Show!UpsertRow, ShownOK
  <2>2. ShownOK' /\ eng'.pc = "record" /\ eng'.cur = eng.cur /\ eng'.record = eng.record
    BY <2>1 DEF ShownOK, Engine
  <2>3. HashOK' /\ CurOK'
    BY <1>1, <2>1, <2>2 DEF HashOK, CurOK
  <2> QED
    BY <2>2, <2>3
<1>3. CASE Show!RecordSource
  <2>1. /\ UNCHANGED <<notion, changed, docs, row>> /\ torn' = torn \ {eng.cur} /\ row[eng.cur] = eng.record /\ eng.pc = "record"
        /\ eng' = [eng EXCEPT !.pc = "pick", !.cur = Show!Null, !.record = Show!NoRow]
        /\ pair' = [pair EXCEPT ![eng.cur].hash = Show!Hash(eng.record)]
    BY <1>3 DEF Show!RecordSource, Show!NextItem, CurOK
  <2>2. Show!NoRow \in Record /\ Show!Hash(eng.record) \in Hashes
    BY <1>1, ConstantsAssumption DEF Hashes, Show!NoRow, Show!Null, Record, Show!IndexRowConstants
  <2>3. /\ pair' \in [Items -> Ledger] /\ pair'[eng.cur].hash = Show!Hash(row[eng.cur])
        /\ \A i \in Items \ {eng.cur} : pair'[i].hash = pair[i].hash
    BY <1>1, <2>1, <2>2 DEF ShownOK, Ledger
  <2>4. ShownOK' /\ eng'.pc = "pick"
    BY <2>1, <2>2, <2>3 DEF ShownOK, Engine
  <2>5. HashOK' /\ CurOK'
    BY <2>1, <2>3, <2>4 DEF HashOK, CurOK
  <2> QED
    BY <2>4, <2>5
<1> QED
  BY <1>2, <1>3

\* The users edit Notion and the trash.
LEMMA UsersShown == ASSUME ShownInv, Show!Env PROVE ShownInv'
<1> USE DEF ShownInv
<1>1. UNCHANGED <<docs, row, pair, eng, torn>>
  BY DEF Show!Env, Show!Rename, Show!Relate, Show!Reschedule, Show!TrashDoc, Show!Edit, Show!Moved
<1>2. notion' \in [Items -> Show!Page] /\ changed' \subseteq Items
  <2>1. \A i \in Items : notion[i] \in Show!Page
    BY DEF ShownOK
  <2>2. ASSUME NEW i \in Items, Show!Rename(i)
        PROVE  notion' \in [Items -> Show!Page] /\ changed' \subseteq Items
    <3>1. PICK x \in Show!Titles : Show!Edit(i, "rename", [notion[i] EXCEPT !.title = x])
      BY <2>2 DEF Show!Rename
    <3>2. [notion[i] EXCEPT !.title = x] \in Show!Page
      BY <2>1 DEF Show!Page
    <3> QED
      BY <3>1, <3>2 DEF Show!Edit, ShownOK
  <2>3. ASSUME NEW i \in Items, Show!Relate(i)
        PROVE  notion' \in [Items -> Show!Page] /\ changed' \subseteq Items
    <3>1. PICK r \in SUBSET Items : Show!Edit(i, "relate", [notion[i] EXCEPT !.rel = r])
      BY <2>3 DEF Show!Relate
    <3>2. [notion[i] EXCEPT !.rel = r] \in Show!Page
      BY <2>1 DEF Show!Page
    <3> QED
      BY <3>1, <3>2 DEF Show!Edit, ShownOK
  <2>4. ASSUME NEW i \in Items, Show!Reschedule(i)
        PROVE  notion' \in [Items -> Show!Page] /\ changed' \subseteq Items
    <3>1. PICK d \in Show!Due : Show!Edit(i, "due", [notion[i] EXCEPT !.due = d])
      BY <2>4 DEF Show!Reschedule
    <3>2. [notion[i] EXCEPT !.due = d] \in Show!Page
      BY <2>1 DEF Show!Page
    <3> QED
      BY <3>1, <3>2 DEF Show!Edit, ShownOK
  <2>5. ASSUME NEW d, Show!TrashDoc(d)
        PROVE  notion' \in [Items -> Show!Page] /\ changed' \subseteq Items
    BY <2>5 DEF Show!TrashDoc, ShownOK
  <2> QED
    BY <2>2, <2>3, <2>4, <2>5 DEF Show!Env
<1>3. ShownOK' /\ HashOK' /\ CurOK'
  BY <1>1, <1>2 DEF ShownOK, HashOK, CurOK
<1> QED
  BY <1>3

\* Every step keeps what is recorded true.
LEMMA NextShown == ASSUME ShownInv, [Next]_vars PROVE ShownInv'
<1>1. CASE Shows
  BY <1>1, JobShown, PairShown, GateShown, RowShown, UsersShown DEF Shows, Show!Next, Show!Work
<1>2. CASE UNCHANGED showing
  BY <1>2 DEF showing, ShownInv, ShownOK, HashOK, CurOK
<1> QED
  BY <1>1, <1>2 DEF Next, Places, vars

\* What the gate in front of a row takes for up to date is so (mirror_out.py,
\* _build_record and the row gate; canonical.py): a recorded hash that is that of the
\* item now is that of what the row shows, from whichever names it was built and
\* whichever item failed at whichever step, unless that item's own last write of its
\* row was not followed by its hash (mirror_out.py, upsert_row then record_source).
THEOREM GateOfRow == Spec => []GateTrue
<1>1. ShownInv => GateTrue
  BY DEF ShownInv, HashOK, GateTrue, Show!GateTrue
<1> QED
  BY InitShown, NextShown, <1>1, PTL DEF Spec

-----------------------------------------------------------------------------
(* Where a row is put                                                      *)

\* What an index, shared or a thread's own, may say: each filed item is where it
\* says, and it gives the new item no filed item's row.
FiledRows   == {r \in Place!Rows : sheet[r] \in Filed}
Says(known) == /\ \A i \in Filed : Place!RowOf(i) = {known[i]}
               /\ \A i \in Entries \ Filed : known[i] \notin FiledRows
FiledOK     == \A i \in Filed : \E r \in Place!Rows : Place!RowOf(i) = {r}
IndexOK     == index # Nobody => Says(index)
NextOK      == next # 0 => \A r \in FiledRows : r < next
ThreadOK(t) ==
    /\ pc[t] \in {"index", "free"} => Says(records[t])
    /\ pc[t] \notin {"out", "in", "reset"} => item[t] \in Entries
    /\ pc[t] \in {"take", "put"} => item[t] \notin Filed
    /\ pc[t] \in {"take", "put"} /\ t \in held => index \in Place!Known /\ Says(index)
    /\ pc[t] = "put" => \A r \in FiledRows : r < target[t]
    /\ pc[t] = "write" /\ item[t] \in Filed => Place!RowOf(item[t]) = {target[t]}
    /\ pc[t] \in {"put", "write"} => target[t] \in Place!Rows
    /\ pc[t] = "write" /\ item[t] \notin Filed => target[t] \notin FiledRows

PlacedInv == Place!TypeOK /\ FiledOK /\ IndexOK /\ NextOK /\ (\A t \in Threads : ThreadOK(t))

\* A bounded, nonempty set of natural numbers has a greatest member: the one whose
\* distance from the bound is least.  A CHOOSE says something only of what exists.
LEMMA MaximumExists ==
    ASSUME NEW N \in Nat, NEW T \in SUBSET (0..N), T # {}
    PROVE  \E m \in T : \A y \in T : y <= m
<1> DEFINE Less     == {q \in Nat \X Nat : q[1] < q[2]}
           Distance == {x \in 0..N : N - x \in T}
<1>1. ASSUME NEW y \in T PROVE N - y \in Distance /\ N - (N - y) = y
  BY y \in 0..N
<1>2. Distance \subseteq Nat /\ Distance # {}
  <2>1. PICK t \in T : TRUE
    OBVIOUS
  <2> QED
    BY <1>1, <2>1
<1>3. IsWellFoundedOn(Less, Nat)
  BY NatLessThanWellFounded DEF OpToRel
<1>4. PICK x \in Distance : \A y \in Distance : <<y, x>> \notin Less
  <2> HIDE DEF Distance, Less
  <2> QED
    BY <1>2, <1>3, WFMin
<1>5. ASSUME NEW y \in T PROVE y <= N - x
  <2>1. y \in 0..N /\ N - y \in Nat /\ x \in 0..N
    BY <1>1, <1>4
  <2>2. <<N - y, x>> \notin Less
    BY <1>1, <1>4
  <2>3. ~(N - y < x)
    BY <2>1, <2>2
  <2> QED
    BY <2>1, <2>3
<1> QED
  BY <1>4, <1>5

\* A read finds the last row of each item that has one.
LEMMA RecordsAre ==
    ASSUME Place!TypeOK, NEW i \in Entries
    PROVE  /\ Place!Records[i] \in Place!RowOf(i) \cup {0}
           /\ \A r \in Place!RowOf(i) : Place!Records[i] >= r
<1> USE ConstantsAssumption DEF Place!RowRaceConstants
<1> DEFINE rows == Place!RowOf(i) \cup {Place!NoRow}
<1>1. rows \in SUBSET (0..MaxRow) /\ rows # {} /\ MaxRow \in Nat
  BY DEF Place!RowOf, Place!Rows, Place!NoRow
<1>2. \E m \in rows : \A r \in rows : r <= m
  <2> HIDE DEF rows
  <2> QED
    BY <1>1, MaximumExists
<1>3. \E m \in rows : \A r \in rows : m >= r
  BY <1>1, <1>2
<1>4. Place!Records[i] \in rows /\ \A r \in rows : Place!Records[i] >= r
  BY <1>3 DEF Place!Records, Place!Max
<1> QED
  BY <1>4 DEF Place!NoRow

\* So it says where the filed items are, and gives no new one a filed item's row.
LEMMA RecordsSay ==
    ASSUME Place!TypeOK, FiledOK
    PROVE  Place!Records \in Place!Known /\ Says(Place!Records)
<1> USE ConstantsAssumption DEF Place!RowRaceConstants
<1>1. ASSUME NEW i \in Entries
      PROVE  /\ Place!Records[i] \in Place!RowOf(i) \cup {0}
             /\ \A r \in Place!RowOf(i) : Place!Records[i] >= r
  BY RecordsAre
<1>2. Place!Records \in Place!Known
  BY <1>1 DEF Place!Records, Place!Known, Place!RowOf, Place!NoRow
<1>3. ASSUME NEW i \in Filed PROVE Place!RowOf(i) = {Place!Records[i]}
  <2>1. PICK r \in Place!Rows : Place!RowOf(i) = {r}
    BY DEF FiledOK
  <2>2. i \in Entries
    OBVIOUS
  <2>3. Place!Records[i] \in {r} \cup {0} /\ Place!Records[i] >= r
    BY <1>1, <2>1, <2>2
  <2>4. r \in Nat /\ r >= 2
    BY DEF Place!Rows
  <2>5. Place!Records[i] = r
    BY <2>3, <2>4
  <2> QED
    BY <2>1, <2>5
<1>4. ASSUME NEW i \in Entries \ Filed PROVE Place!Records[i] \notin FiledRows
  BY <1>1 DEF FiledRows, Place!RowOf, Place!Rows
<1> QED
  BY <1>2, <1>3, <1>4 DEF Says

\* The next row is taken above all rows that are known.
LEMMA HighestIs ==
    ASSUME NEW known, known \in Place!Known
    PROVE  /\ Place!Highest(known) \in 1..MaxRow
           /\ \A i \in Entries : known[i] <= Place!Highest(known)
<1> USE ConstantsAssumption DEF Place!RowRaceConstants
<1> DEFINE rows == {known[i] : i \in Entries} \cup {1}
<1>1. rows \in SUBSET (0..MaxRow) /\ rows # {} /\ MaxRow \in Nat
  BY DEF Place!Known, Place!Rows, Place!NoRow
<1>2. \E m \in rows : \A r \in rows : r <= m
  <2> HIDE DEF rows
  <2> QED
    BY <1>1, MaximumExists
<1>3. \E m \in rows : \A r \in rows : m >= r
  BY <1>1, <1>2
<1>4. Place!Highest(known) \in rows /\ \A r \in rows : Place!Highest(known) >= r
  BY <1>3 DEF Place!Highest, Place!Max
<1>5. Place!Highest(known) >= 1 /\ Place!Highest(known) \in 0..MaxRow
  BY <1>1, <1>4
<1>6. ASSUME NEW i \in Entries PROVE known[i] <= Place!Highest(known)
  BY <1>1, <1>4
<1> QED
  BY <1>5, <1>6

\* What threads hold stays true while filed items stay where they are.
LEMMA OthersKeep ==
    ASSUME PlacedInv, NEW t \in Threads,
           \A u \in Threads \ {t} : /\ pc'[u] = pc[u] /\ item'[u] = item[u]
                                    /\ target'[u] = target[u] /\ records'[u] = records[u],
           \A i \in Filed : Place!RowOf(i)' = Place!RowOf(i), FiledRows' = FiledRows,
           held' \subseteq held \cup {t},
           \/ held' = {}
           \/ index \in Place!Known /\ Says(index) => index' \in Place!Known /\ Says(index)'
    PROVE  \A u \in Threads \ {t} : ThreadOK(u)'
<1> SUFFICES ASSUME NEW u \in Threads \ {t} PROVE ThreadOK(u)'
  OBVIOUS
<1>1. ThreadOK(u)
  BY DEF PlacedInv
<1>2. Says(records[u]) => Says(records[u])'
  BY DEF Says
<1> QED
  BY <1>1, <1>2 DEF ThreadOK

\* Filed rows and what a thread holds, at the start.
LEMMA InitPlaced == Init => PlacedInv
<1> SUFFICES ASSUME Init PROVE PlacedInv
  OBVIOUS
<1> USE ConstantsAssumption DEF Init, Place!Init, Place!RowRaceConstants
<1>1. Place!TypeOK
  BY DEF Place!TypeOK, Place!Known, Place!Unread, Place!NoRow, Place!Rows
<1>2. FiledOK
  BY DEF FiledOK, Place!RowOf
<1>3. IndexOK /\ NextOK /\ \A t \in Threads : ThreadOK(t)
  BY DEF IndexOK, NextOK, ThreadOK
<1> QED
  BY <1>1, <1>2, <1>3 DEF PlacedInv

\* While the sheet stays, so does what an index may say of it.
LEMMA SheetStays ==
    ASSUME PlacedInv, sheet' = sheet
    PROVE  /\ \A i \in Entries : Place!RowOf(i)' = Place!RowOf(i)
           /\ FiledRows' = FiledRows /\ FiledOK'
           /\ index' = index /\ next' = next => IndexOK' /\ NextOK'
<1> USE ConstantsAssumption DEF Place!RowRaceConstants, PlacedInv
<1>1. \A i \in Entries : Place!RowOf(i)' = Place!RowOf(i)
  BY DEF Place!RowOf
<1>2. FiledRows' = FiledRows
  BY DEF FiledRows
<1>3. FiledOK'
  BY <1>1 DEF FiledOK
<1>4. index' = index /\ next' = next => IndexOK' /\ NextOK'
  BY <1>1, <1>2 DEF IndexOK, NextOK, Says
<1> QED
  BY <1>1, <1>2, <1>3, <1>4

\* A thread comes, leaves, takes up an item, or gives one up before it wrote.
LEMMA ComesAndGoes ==
    ASSUME PlacedInv, NEW t \in Threads,
           Place!Enter(t) \/ Place!Leave(t) \/ \E i \in Entries : Place!Upsert(t, i)
    PROVE  PlacedInv'
<1> USE ConstantsAssumption DEF Place!RowRaceConstants, PlacedInv, Place!cache, Place!locals, Place!Goto
<1>1. UNCHANGED <<index, next, sheet, recorded, target, records, held, failed>>
  BY DEF Place!Enter, Place!Leave, Place!Upsert
<1>2. Place!TypeOK'
  BY DEF Place!TypeOK, Place!Enter, Place!Leave, Place!Upsert
<1>3. /\ \A u \in Threads \ {t} : pc'[u] = pc[u] /\ item'[u] = item[u]
      /\ pc'[t] \in {"in", "out"} \/ (pc'[t] \in {"read", "look"} /\ item'[t] \in Entries)
  BY DEF Place!TypeOK, Place!Enter, Place!Leave, Place!Upsert
<1>4. ThreadOK(t)'
  BY <1>3 DEF ThreadOK
<1>5. \A i \in Entries : Place!RowOf(i)' = Place!RowOf(i)
  BY <1>1, SheetStays
<1>6. FiledRows' = FiledRows
  BY <1>1, SheetStays
<1>7. index \in Place!Known /\ Says(index) => index' \in Place!Known /\ Says(index)'
  BY <1>1, <1>5, <1>6 DEF Says
<1>8. \A u \in Threads \ {t} : ThreadOK(u)'
  BY <1>1, <1>3, <1>5, <1>6, <1>7, OthersKeep
<1> QED
  BY <1>1, <1>2, <1>4, <1>8, SheetStays

\* The cache of rows is emptied, the index first; whoever has the old index in hand
\* has no longer the shared one.
LEMMA ResetPlaced ==
    ASSUME PlacedInv, NEW t \in Threads, Place!Reset(t) \/ Place!ResetNext(t) PROVE PlacedInv'
<1> USE ConstantsAssumption DEF Place!RowRaceConstants, PlacedInv, Place!locals, Place!Goto
<1>1. /\ UNCHANGED <<sheet, recorded, item, target, records>> /\ held' \subseteq held
      /\ pc' = [pc EXCEPT ![t] = pc'[t]] /\ pc'[t] \in {"in", "reset"}
  BY DEF Place!Reset, Place!ResetNext, Place!TypeOK
<1>2. \/ index' = Nobody /\ next' = next /\ held' = {}
      \/ index' = index /\ next' = 0
  BY DEF Place!Reset, Place!ResetNext
<1>3. Place!TypeOK'
  BY DEF Place!TypeOK, Place!Reset, Place!ResetNext
<1>4. (\A i \in Entries : Place!RowOf(i)' = Place!RowOf(i)) /\ FiledRows' = FiledRows /\ FiledOK'
  BY <1>1, SheetStays
<1>5. \A u \in Threads \ {t} : pc'[u] = pc[u]
  BY <1>1 DEF Place!TypeOK
<1>6. index' = index => (Says(index) => Says(index)')
  BY <1>4 DEF Says
<1>7. \A u \in Threads \ {t} : ThreadOK(u)'
  BY <1>1, <1>2, <1>4, <1>5, <1>6, OthersKeep
<1>8. ThreadOK(t)'
  BY <1>1 DEF ThreadOK
<1>9. IndexOK' /\ NextOK'
  BY <1>2, <1>4, <1>6 DEF IndexOK, NextOK
<1> QED
  BY <1>3, <1>4, <1>7, <1>8, <1>9

\* A thread reads the tab, shares what it read, and says which row is free next.
LEMMA PrimePlaced ==
    ASSUME PlacedInv, NEW t \in Threads, Place!Read(t) \/ Place!Index(t) \/ Place!Free(t)
    PROVE  PlacedInv'
<1> USE ConstantsAssumption DEF Place!RowRaceConstants, PlacedInv, Place!cache, Place!locals, Place!Goto
<1>1. UNCHANGED <<free, lock, sheet, recorded, item, target, failed>>
  BY DEF Place!Read, Place!Index, Place!Free
<1>2. (\A i \in Entries : Place!RowOf(i)' = Place!RowOf(i)) /\ FiledRows' = FiledRows /\ FiledOK'
  BY <1>1, SheetStays
<1>3. \A u \in Threads \ {t} : pc'[u] = pc[u] /\ records'[u] = records[u]
  BY DEF Place!Read, Place!Index, Place!Free, Place!TypeOK
<1>4. Place!Records \in Place!Known /\ Says(Place!Records)
  BY RecordsSay
<1>5. ThreadOK(t)
  OBVIOUS
<1>6. CASE Place!Read(t)
  <2>1. /\ UNCHANGED <<index, next, held>> /\ pc' = [pc EXCEPT ![t] = "index"] /\ pc[t] = "read"
        /\ records' = [records EXCEPT ![t] = Place!Records]
    BY <1>6 DEF Place!Read
  <2>2. Place!TypeOK'
    BY <1>1, <1>4, <2>1 DEF Place!TypeOK
  <2>3. pc'[t] = "index" /\ records'[t] = Place!Records
    BY <2>1 DEF Place!TypeOK
  <2>4. Says(records[t])'
    BY <1>2, <1>4, <2>3 DEF Says
  <2>5. ThreadOK(t)'
    BY <1>1, <1>5, <2>1, <2>3, <2>4 DEF ThreadOK
  <2>6. IndexOK' /\ NextOK'
    BY <1>1, <2>1, SheetStays
  <2>7. Says(index) => Says(index)'
    BY <1>2, <2>1 DEF Says
  <2>8. \A u \in Threads \ {t} : ThreadOK(u)'
    BY <1>1, <1>2, <1>3, <2>1, <2>7, OthersKeep
  <2> QED
    BY <1>2, <2>2, <2>5, <2>6, <2>8
<1>7. CASE Place!Index(t)
  <2>1. /\ UNCHANGED <<next, records>> /\ pc' = [pc EXCEPT ![t] = "free"] /\ pc[t] = "index"
        /\ index' = records[t] /\ held' = {}
    BY <1>7 DEF Place!Index
  <2>2. Place!TypeOK'
    BY <1>1, <2>1 DEF Place!TypeOK
  <2>3. pc'[t] = "free"
    BY <2>1 DEF Place!TypeOK
  <2>4. Says(records[t])'
    BY <1>2, <1>5, <2>1 DEF Says, ThreadOK
  <2>5. ThreadOK(t)'
    BY <1>1, <1>5, <2>1, <2>3, <2>4 DEF ThreadOK
  <2>6. IndexOK' /\ NextOK'
    BY <1>2, <2>1, <2>4 DEF IndexOK, NextOK
  <2>7. \A u \in Threads \ {t} : ThreadOK(u)'
    BY <1>1, <1>2, <1>3, <2>1, OthersKeep
  <2> QED
    BY <1>2, <2>2, <2>5, <2>6, <2>7
<1>8. CASE Place!Free(t)
  <2>1. /\ UNCHANGED <<index, held>> /\ records' = [records EXCEPT ![t] = Place!Unread] /\ pc' = [pc EXCEPT ![t] = "look"] /\ pc[t] = "free"
        /\ next' = Place!Highest(records[t]) + 1
    BY <1>8 DEF Place!Free
  <2>2. /\ records[t] \in Place!Known /\ pc'[t] = "look" /\ Says(records[t])
    BY <1>5, <2>1 DEF Place!TypeOK, ThreadOK
  <2>3. /\ Place!Highest(records[t]) \in 1..MaxRow
        /\ \A i \in Entries : records[t][i] <= Place!Highest(records[t])
    BY <2>2, HighestIs
  <2>4. Place!TypeOK'
    BY <1>1, <2>1, <2>3 DEF Place!TypeOK, Place!Known, Place!Unread, Place!NoRow
  <2>5. ThreadOK(t)'
    BY <1>1, <1>5, <2>1, <2>2 DEF ThreadOK
  <2>6. IndexOK'
    BY <1>2, <2>1 DEF IndexOK, Says
  <2>7. NextOK'
    <3>1. ASSUME NEW r \in FiledRows PROVE r < next'
      <4>1. r \in Nat /\ sheet[r] \in Filed /\ r \in Place!RowOf(sheet[r])
        BY DEF FiledRows, Place!RowOf, Place!Rows
      <4>2. r = records[t][sheet[r]] /\ sheet[r] \in Entries
        BY <2>2, <4>1 DEF Says
      <4>3. r <= Place!Highest(records[t])
        BY <2>3, <4>2
      <4> QED
        BY <2>1, <2>3, <4>1, <4>3
    <3> QED
      BY <1>2, <3>1 DEF NextOK
  <2>8. Says(index) => Says(index)'
    BY <1>2, <2>1 DEF Says
  <2>9. \A u \in Threads \ {t} : ThreadOK(u)'
    BY <1>1, <1>2, <1>3, <2>1, <2>8, OthersKeep
  <2> QED
    BY <1>2, <2>4, <2>5, <2>6, <2>7, <2>9
<1> QED
  BY <1>6, <1>7, <1>8

\* A thread looks an item up in the shared index, and takes a new row if it is not there.
LEMMA LooksUp ==
    ASSUME PlacedInv, NEW t \in Threads, Place!Look(t) \/ Place!Take(t) \/ Place!Put(t)
    PROVE  PlacedInv'
<1> USE ConstantsAssumption
    DEF Place!RowRaceConstants, PlacedInv, Place!cache, Place!locals, Place!Goto, Place!GiveUp
<1>1. UNCHANGED <<free, lock, sheet, recorded, records, failed>> /\ pc[t] \in {"look", "take", "put"}
  BY DEF Place!Look, Place!Take, Place!Put
<1>2. (\A i \in Entries : Place!RowOf(i)' = Place!RowOf(i)) /\ FiledRows' = FiledRows /\ FiledOK'
  BY <1>1, SheetStays
<1>3. \A u \in Threads \ {t} : pc'[u] = pc[u] /\ item'[u] = item[u] /\ target'[u] = target[u]
  BY DEF Place!Look, Place!Take, Place!Put, Place!TypeOK
<1>4. ThreadOK(t) /\ item[t] \in Entries
  BY <1>1 DEF ThreadOK
<1>5. CASE index' = index /\ next' = next /\ held' \subseteq held /\ pc' = [pc EXCEPT ![t] = "in"]
           /\ item' = [item EXCEPT ![t] = Nobody] /\ target' = [target EXCEPT ![t] = Place!NoRow]
  <2>1. Place!TypeOK'
    BY <1>1, <1>5 DEF Place!TypeOK, Place!NoRow
  <2>2. pc'[t] = "in"
    BY <1>5 DEF Place!TypeOK
  <2>3. ThreadOK(t)'
    BY <2>2 DEF ThreadOK
  <2>4. Says(index) => Says(index)'
    BY <1>2, <1>5 DEF Says
  <2>5. \A u \in Threads \ {t} : ThreadOK(u)'
    BY <1>1, <1>2, <1>3, <1>5, <2>4, OthersKeep
  <2> QED
    BY <1>1, <1>2, <1>5, <2>1, <2>3, <2>5, SheetStays
<1>6. CASE Place!Look(t) /\ index # Nobody /\ pc'[t] # "in"
  <2>1. /\ UNCHANGED <<index, next, item>>
        /\ \/ /\ index[item[t]] # Place!NoRow /\ pc' = [pc EXCEPT ![t] = "write"]
              /\ held' = held /\ target' = [target EXCEPT ![t] = index[item[t]]]
           \/ /\ index[item[t]] = Place!NoRow /\ pc' = [pc EXCEPT ![t] = "take"]
              /\ held' = held \cup {t} /\ target' = target
    BY <1>6 DEF Place!Look, Place!TypeOK
  <2>2. index \in Place!Known /\ Says(index)
    BY <1>6 DEF IndexOK, Place!TypeOK
  <2>3. index[item[t]] \in Place!Rows \cup {Place!NoRow} /\ Place!NoRow \notin Place!Rows
    BY <1>4, <2>2 DEF Place!Known, Place!NoRow, Place!Rows
  <2>4. Place!TypeOK'
    BY <1>1, <2>1, <2>3 DEF Place!TypeOK
  <2>5. \/ index[item[t]] # Place!NoRow /\ pc'[t] = "write" /\ target'[t] = index[item[t]]
        \/ index[item[t]] = Place!NoRow /\ pc'[t] = "take"
    BY <2>1 DEF Place!TypeOK
  <2>6. Says(index)'
    BY <1>2, <2>1, <2>2 DEF Says
  <2>7. item[t] \in Filed => index[item[t]] \in Place!Rows /\ Place!RowOf(item[t]) = {index[item[t]]}
    BY <2>2 DEF Says, Place!RowOf
  <2>8. item[t] \notin Filed => index[item[t]] \notin FiledRows
    BY <1>4, <2>2 DEF Says
  <2>9. ThreadOK(t)'
    BY <1>2, <1>4, <2>1, <2>2, <2>3, <2>5, <2>6, <2>7, <2>8 DEF ThreadOK
  <2>10. \A u \in Threads \ {t} : ThreadOK(u)'
    BY <1>1, <1>2, <1>3, <2>1, <2>6, OthersKeep
  <2> QED
    BY <1>1, <1>2, <2>1, <2>4, <2>9, <2>10, SheetStays
<1>7. CASE Place!Take(t) /\ next \in Place!Rows /\ pc'[t] # "in"
  <2>1. /\ UNCHANGED <<index, next, item, held>> /\ target' = [target EXCEPT ![t] = next]
        /\ pc' = [pc EXCEPT ![t] = "put"] /\ pc[t] = "take"
    BY <1>7 DEF Place!Take, Place!TypeOK, Place!Rows
  <2>2. Place!TypeOK'
    BY <1>1, <1>7, <2>1 DEF Place!TypeOK
  <2>3. target'[t] = next /\ pc'[t] = "put" /\ next # 0
    BY <1>7, <2>1 DEF Place!TypeOK, Place!Rows
  <2>4. Says(index) => Says(index)'
    BY <1>2, <2>1 DEF Says
  <2>5. ThreadOK(t)'
    BY <1>2, <1>4, <1>7, <2>1, <2>3, <2>4 DEF ThreadOK, NextOK
  <2>6. \A u \in Threads \ {t} : ThreadOK(u)'
    BY <1>1, <1>2, <1>3, <2>1, <2>4, OthersKeep
  <2> QED
    BY <1>1, <1>2, <2>1, <2>2, <2>5, <2>6, SheetStays
<1>8. CASE Place!Put(t)
  <2>1. /\ UNCHANGED <<item, target>> /\ held' = held \ {t} /\ next' = target[t] + 1 /\ pc' = [pc EXCEPT ![t] = "write"]
        /\ pc[t] = "put" /\ index' = IF t \in held THEN [index EXCEPT ![item[t]] = target[t]] ELSE index
    BY <1>8 DEF Place!Put, Place!After, Place!Entered
  <2>2. /\ target[t] \in Place!Rows /\ item[t] \notin Filed /\ \A r \in FiledRows : r < target[t]
        /\ t \in held => index \in Place!Known /\ Says(index)
    BY <1>4, <2>1 DEF ThreadOK
  <2>3. target[t] \notin FiledRows /\ pc'[t] = "write"
    BY <2>1, <2>2 DEF Place!TypeOK, Place!Rows
  <2>4. index \in Place!Known /\ Says(index) => index' \in Place!Known /\ Says(index)'
    <3>1. CASE t \notin held
      BY <1>2, <2>1, <3>1 DEF Says
    <3>2. CASE t \in held
      <4>1. /\ index' \in Place!Known /\ index'[item[t]] = target[t]
            /\ \A i \in Entries \ {item[t]} : index'[i] = index[i]
        BY <1>4, <2>1, <2>2, <3>2 DEF Place!Known
      <4> QED
        BY <1>2, <2>2, <2>3, <3>2, <4>1 DEF Says
    <3> QED
      BY <3>1, <3>2
  <2>5. IndexOK'
    <3>1. index # Nobody => index \in Place!Known
      BY DEF Place!TypeOK
    <3>2. t \in held => index' \in Place!Known /\ Says(index)'
      BY <2>2, <2>4
    <3> QED
      BY <2>1, <2>4, <3>1, <3>2 DEF IndexOK
  <2>6. index' \in Place!Known \cup {Nobody}
    BY <2>1, <2>2, <2>4 DEF Place!TypeOK
  <2>7. Place!TypeOK'
    BY <1>1, <2>1, <2>2, <2>6 DEF Place!TypeOK, Place!Rows
  <2>8. NextOK'
    BY <1>2, <2>1, <2>2 DEF NextOK, Place!Rows, FiledRows
  <2>9. ThreadOK(t)'
    BY <1>2, <1>4, <2>1, <2>2, <2>3 DEF ThreadOK
  <2>10. \A u \in Threads \ {t} : ThreadOK(u)'
    BY <1>1, <1>2, <1>3, <2>1, <2>4, OthersKeep
  <2> QED
    BY <1>2, <2>5, <2>7, <2>8, <2>9, <2>10
<1> QED
  BY <1>5, <1>6, <1>7, <1>8 DEF Place!Look, Place!Take, Place!TypeOK

\* A write: a filed item goes where it was, a new one over no filed item.
LEMMA WritesKeep ==
    ASSUME PlacedInv, NEW t \in Threads, pc[t] = "write", Place!Written(t)
    PROVE  /\ \A i \in Filed : Place!RowOf(i)' = Place!RowOf(i)
           /\ FiledRows' = FiledRows /\ sheet' \in [Place!Rows -> Entries \cup {Nobody}]
<1> USE ConstantsAssumption DEF Place!RowRaceConstants, PlacedInv
<1>1. ThreadOK(t)
  OBVIOUS
<1>2. /\ target[t] \in Place!Rows /\ item[t] \in Entries
      /\ item[t] \in Filed => Place!RowOf(item[t]) = {target[t]}
      /\ item[t] \notin Filed => target[t] \notin FiledRows
  BY <1>1 DEF ThreadOK
<1>3. /\ sheet' \in [Place!Rows -> Entries \cup {Nobody}] /\ sheet'[target[t]] = item[t]
      /\ \A r \in Place!Rows \ {target[t]} : sheet'[r] = sheet[r]
  BY <1>2 DEF Place!Written, Place!TypeOK
<1>4. CASE item[t] \in Filed
  <2>1. sheet[target[t]] = item[t]
    BY <1>2, <1>4 DEF Place!RowOf
  <2>2. \A r \in Place!Rows : sheet'[r] = sheet[r]
    BY <1>3, <2>1
  <2> QED
    BY <1>3, <2>2 DEF FiledRows, Place!RowOf
<1>5. CASE item[t] \notin Filed
  <2>1. sheet[target[t]] \notin Filed /\ sheet'[target[t]] \notin Filed
    BY <1>2, <1>3, <1>5 DEF FiledRows
  <2>2. FiledRows' = FiledRows
    BY <1>3, <2>1 DEF FiledRows
  <2>3. \A i \in Filed : Place!RowOf(i)' = Place!RowOf(i)
    BY <1>3, <2>1 DEF Place!RowOf
  <2> QED
    BY <1>3, <2>2, <2>3
<1> QED
  BY <1>4, <1>5

\* A row is written and its pair recorded; a call fails, a write perhaps after it got there.
LEMMA WritePlaced ==
    ASSUME PlacedInv, NEW t \in Threads, Place!Write(t) \/ Place!Record(t) \/ Place!Fail(t)
    PROVE  PlacedInv'
<1> USE ConstantsAssumption
    DEF Place!RowRaceConstants, PlacedInv, Place!cache, Place!locals, Place!Goto, Place!GiveUp
<1>1. UNCHANGED <<free, lock, index, next, records, held>> /\ pc[t] \in {"read", "write", "record"}
  BY DEF Place!Write, Place!Record, Place!Fail
<1>2. /\ \A i \in Filed : Place!RowOf(i)' = Place!RowOf(i)
      /\ FiledRows' = FiledRows /\ sheet' \in [Place!Rows -> Entries \cup {Nobody}]
  <2>1. CASE sheet' = sheet
    BY <2>1, SheetStays DEF Place!TypeOK
  <2>2. CASE pc[t] = "write" /\ Place!Written(t)
    BY <2>2, WritesKeep
  <2> QED
    BY <2>1, <2>2 DEF Place!Write, Place!Record, Place!Fail
<1>3. \A u \in Threads \ {t} : pc'[u] = pc[u] /\ item'[u] = item[u] /\ target'[u] = target[u]
  BY DEF Place!Write, Place!Record, Place!Fail, Place!TypeOK
<1>4. ThreadOK(t) /\ item[t] \in Entries
  BY <1>1 DEF ThreadOK
<1>5. Says(index) => Says(index)'
  BY <1>1, <1>2 DEF Says
<1>6. IndexOK' /\ NextOK' /\ FiledOK'
  BY <1>1, <1>2, <1>5 DEF IndexOK, NextOK, FiledOK
<1>7. \A u \in Threads \ {t} : ThreadOK(u)'
  BY <1>1, <1>2, <1>3, <1>5, OthersKeep
<1>8. Place!TypeOK'
  BY <1>1, <1>2, <1>4 DEF Place!TypeOK, Place!Write, Place!Record, Place!Fail, Place!NoRow
<1>9. ThreadOK(t)'
  <2>1. pc'[t] \in {"in", "record"} /\ (pc'[t] = "record" => item' = item)
    BY DEF Place!Write, Place!Record, Place!Fail, Place!TypeOK
  <2> QED
    BY <1>4, <2>1 DEF ThreadOK
<1> QED
  BY <1>6, <1>7, <1>8, <1>9

\* Every step keeps the filed items' rows where they are.
LEMMA NextPlaced == ASSUME PlacedInv, [Next]_vars PROVE PlacedInv'
<1>1. CASE Places
  BY <1>1, ComesAndGoes, ResetPlaced, PrimePlaced, LooksUp, WritePlaced DEF Places, Place!Next
<1>2. CASE UNCHANGED placing
  <2>1. Place!TypeOK' /\ (\A t \in Threads : ThreadOK(t)')
    BY <1>2 DEF placing, PlacedInv, Place!TypeOK, ThreadOK, Says, FiledRows, Place!RowOf
  <2> QED
    BY <1>2, <2>1, SheetStays DEF placing, PlacedInv
<1> QED
  BY <1>1, <1>2 DEF Next, Shows, vars

-----------------------------------------------------------------------------
(* ... and while every thread takes the lock                               *)

\* One row for an item, and the index, while there is one, knows it and gives no two
\* items one row; the next row is above it, but for a holder that has read it just now.
SingleRows  == \A r, q \in Place!Rows : sheet[r] = sheet[q] /\ sheet[r] # Nobody => r = q
Faithful(known) == /\ \A r \in Place!Rows : sheet[r] # Nobody => known[sheet[r]] = r
                   /\ \A i, j \in Entries : known[i] = known[j] /\ known[i] # Place!NoRow => i = j
IndexLocked == index # Nobody => Faithful(index)
NextLocked  == index # Nobody /\ (\A t \in Threads : pc[t] # "free") => \A i \in Entries : index[i] < next
Recorded    == \A i \in recorded : \E r \in Place!Rows : sheet[r] = i
HolderOK(t) ==
    /\ pc[t] # "out" => lock = t
    /\ pc[t] \in {"reset", "read", "index"} => index = Nobody
    /\ pc[t] = "index" => Faithful(records[t])
    /\ pc[t] = "free" => index = records[t]
    /\ pc[t] \in {"look", "take", "put", "write", "record"} => index # Nobody
    /\ pc[t] \in {"take", "put"} => t \in held /\ index[item[t]] = Place!NoRow
    /\ pc[t] = "put" => target[t] = next /\ target[t] \in Place!Rows
    /\ pc[t] \in {"write", "record"} => index[item[t]] = target[t] /\ target[t] \in Place!Rows
    /\ pc[t] = "record" => sheet[target[t]] = item[t]
LockedInv == /\ SingleRows /\ IndexLocked /\ NextLocked /\ Recorded
             /\ \A t \in Threads : HolderOK(t)
Exclusive == free = {} => LockedInv

\* At the start no thread is at work.
LEMMA InitLocked == Init => LockedInv
<1> SUFFICES ASSUME Init PROVE LockedInv
  OBVIOUS
<1> USE ConstantsAssumption DEF Init, Place!Init, Place!RowRaceConstants
<1>1. SingleRows
  <2> SUFFICES ASSUME NEW r \in Place!Rows, NEW q \in Place!Rows, sheet[r] = sheet[q], sheet[r] # Nobody
               PROVE  r = q
    BY DEF SingleRows
  <2>1. sheet[r] \in Filed
    OBVIOUS
  <2>2. PICK m : Place!RowOf(sheet[r]) = {m}
    BY <2>1
  <2> QED
    BY <2>2 DEF Place!RowOf
<1>2. IndexLocked /\ NextLocked /\ Recorded /\ \A t \in Threads : HolderOK(t)
  BY DEF IndexLocked, NextLocked, Recorded, HolderOK
<1> QED
  BY <1>1, <1>2 DEF LockedInv

\* The others are outside while one is inside, and what is said of them holds.
LEMMA OthersOut ==
    ASSUME free = {}, LockedInv, Place!TypeOK, NEW t \in Threads, lock = t \/ lock = Nobody,
           \A u \in Threads \ {t} : pc'[u] = pc[u]
    PROVE  \A u \in Threads \ {t} : pc[u] = "out" /\ HolderOK(u)'
<1>1. \A u \in Threads \ {t} : pc[u] = "out"
  BY ConstantsAssumption DEF LockedInv, HolderOK, Place!RowRaceConstants
<1> QED
  BY <1>1 DEF HolderOK

\* A read finds the row of every item there is.
LEMMA RecordsFaithful == ASSUME Place!TypeOK, SingleRows PROVE Faithful(Place!Records)
<1> USE ConstantsAssumption DEF Place!RowRaceConstants
<1>1. ASSUME NEW i \in Entries
      PROVE  /\ Place!Records[i] \in Place!RowOf(i) \cup {0}
             /\ \A r \in Place!RowOf(i) : Place!Records[i] >= r
  BY RecordsAre
<1>2. ASSUME NEW r \in Place!Rows, sheet[r] # Nobody PROVE Place!Records[sheet[r]] = r
  <2>1. sheet[r] \in Entries /\ r \in Place!RowOf(sheet[r]) /\ r \in Nat /\ r >= 2
    BY <1>2 DEF Place!TypeOK, Place!RowOf, Place!Rows
  <2>2. Place!RowOf(sheet[r]) = {r}
    BY <1>2, <2>1 DEF SingleRows, Place!RowOf
  <2>3. Place!Records[sheet[r]] \in {r, 0} /\ Place!Records[sheet[r]] >= r
    BY <1>1, <2>1, <2>2
  <2> QED
    BY <2>1, <2>3
<1>3. ASSUME NEW i \in Entries, NEW j \in Entries,
             Place!Records[i] = Place!Records[j], Place!Records[i] # Place!NoRow
      PROVE  i = j
  <2>1. Place!Records[i] \in Place!RowOf(i) /\ Place!Records[j] \in Place!RowOf(j)
    BY <1>1, <1>3 DEF Place!NoRow
  <2> QED
    BY <1>3, <2>1 DEF Place!RowOf
<1> QED
  BY <1>2, <1>3 DEF Faithful

\* A thread comes and leaves, empties the cache, takes up an item and reads the tab.
LEMMA PrimeLocked ==
    ASSUME free = {}, Place!TypeOK, LockedInv, NEW t \in Threads,
           \/ Place!Enter(t) \/ Place!Leave(t) \/ Place!Reset(t) \/ Place!ResetNext(t)
           \/ (\E i \in Entries : Place!Upsert(t, i))
           \/ Place!Read(t) \/ Place!Index(t) \/ Place!Free(t)
    PROVE  LockedInv'
<1> USE ConstantsAssumption DEF Place!RowRaceConstants, Place!cache, Place!locals, Place!Goto
<1>1. HolderOK(t) /\ SingleRows /\ IndexLocked /\ NextLocked /\ Recorded
  BY DEF LockedInv
<1>2. lock = t \/ lock = Nobody
  BY <1>1 DEF HolderOK, Place!Enter, Place!Leave, Place!Reset, Place!ResetNext, Place!Upsert,
              Place!Read, Place!Index, Place!Free
<1>3. UNCHANGED <<sheet, recorded>> /\ \A u \in Threads \ {t} : pc'[u] = pc[u]
  BY DEF Place!Enter, Place!Leave, Place!Reset, Place!ResetNext, Place!Upsert,
         Place!Read, Place!Index, Place!Free, Place!TypeOK
<1>4. \A u \in Threads \ {t} : pc'[u] = "out" /\ HolderOK(u)'
  BY <1>2, <1>3, OthersOut
<1>5. SingleRows' /\ Recorded'
  BY <1>1, <1>3 DEF SingleRows, Recorded
<1>6. CASE Place!Enter(t) \/ Place!Leave(t) \/ \E i \in Entries : Place!Upsert(t, i)
  <2>1. UNCHANGED <<index, next>> /\ pc[t] # "free" /\ pc'[t] # "free"
    BY <1>6 DEF Place!Enter, Place!Leave, Place!Upsert, Place!TypeOK
  <2>2. HolderOK(t)'
    BY <1>1, <1>6 DEF HolderOK, Place!Enter, Place!Leave, Place!Upsert, Place!TypeOK
  <2>3. IndexLocked' /\ NextLocked'
    BY <1>1, <1>2, <1>3, <1>4, <2>1 DEF IndexLocked, NextLocked, Faithful
  <2> QED
    BY <1>4, <1>5, <2>2, <2>3 DEF LockedInv
<1>7. CASE Place!Reset(t) \/ Place!ResetNext(t)
  <2>1. index' = Nobody
    BY <1>1, <1>7 DEF HolderOK, Place!Reset, Place!ResetNext
  <2>2. HolderOK(t)'
    BY <1>1, <1>7, <2>1 DEF HolderOK, Place!Reset, Place!ResetNext, Place!TypeOK
  <2> QED
    BY <1>4, <1>5, <2>1, <2>2 DEF LockedInv, IndexLocked, NextLocked
<1>8. CASE Place!Read(t)
  <2>1. index' = Nobody /\ pc'[t] = "index" /\ records'[t] = Place!Records /\ lock' = t
    BY <1>1, <1>8 DEF HolderOK, Place!Read, Place!TypeOK
  <2>2. HolderOK(t)'
    BY <1>1, <1>3, <2>1, RecordsFaithful DEF HolderOK, Faithful
  <2> QED
    BY <1>4, <1>5, <2>1, <2>2 DEF LockedInv, IndexLocked, NextLocked
<1>9. CASE Place!Index(t)
  <2>1. index' = records[t] /\ records' = records /\ pc'[t] = "free" /\ lock' = t /\ Faithful(records[t])
    BY <1>1, <1>9 DEF HolderOK, Place!Index, Place!TypeOK
  <2>2. HolderOK(t)' /\ IndexLocked' /\ NextLocked'
    BY <1>3, <2>1 DEF HolderOK, IndexLocked, NextLocked, Faithful
  <2> QED
    BY <1>4, <1>5, <2>2 DEF LockedInv
<1>10. CASE Place!Free(t)
  <2>1. /\ index' = index /\ index = records[t] /\ pc'[t] = "look" /\ lock' = t
        /\ next' = Place!Highest(records[t]) + 1
    BY <1>1, <1>10 DEF HolderOK, Place!Free, Place!TypeOK
  <2>2. records[t] \in Place!Known /\ index # Nobody
    BY <2>1 DEF Place!TypeOK, Place!Known, Place!Rows, Place!NoRow
  <2>3. HolderOK(t)' /\ IndexLocked'
    BY <1>1, <1>3, <2>1, <2>2 DEF HolderOK, IndexLocked, Faithful
  <2>4. NextLocked'
    <3>1. \A i \in Entries : records[t][i] <= Place!Highest(records[t]) /\ records[t][i] \in Nat
      BY <2>2, HighestIs DEF Place!Known, Place!Rows, Place!NoRow
    <3>2. Place!Highest(records[t]) \in Nat
      BY <2>2, HighestIs
    <3> QED
      BY <2>1, <3>1, <3>2 DEF NextLocked
  <2> QED
    BY <1>4, <1>5, <2>3, <2>4 DEF LockedInv
<1> QED
  BY <1>6, <1>7, <1>8, <1>9, <1>10

\* The holder looks an item up, or takes the next row for it and enters it.
LEMMA LooksLocked ==
    ASSUME free = {}, Place!TypeOK, LockedInv, NEW t \in Threads, item[t] \in Entries,
           Place!Look(t) \/ Place!Take(t) \/ Place!Put(t)
    PROVE  LockedInv'
<1> USE ConstantsAssumption DEF Place!RowRaceConstants, Place!cache, Place!locals, Place!Goto, Place!GiveUp
<1>1. HolderOK(t) /\ SingleRows /\ IndexLocked /\ NextLocked /\ Recorded
  BY DEF LockedInv
<1>2. lock = t /\ pc[t] \in {"look", "take", "put"} /\ index # Nobody /\ index \in Place!Known
  BY <1>1 DEF HolderOK, Place!Look, Place!Take, Place!Put, Place!TypeOK
<1>3. UNCHANGED <<lock, sheet, recorded>> /\ \A u \in Threads \ {t} : pc'[u] = pc[u]
  BY DEF Place!Look, Place!Take, Place!Put, Place!TypeOK
<1>4. \A u \in Threads \ {t} : pc[u] = "out" /\ pc'[u] = "out" /\ HolderOK(u)'
  BY <1>2, <1>3, OthersOut
<1>5. SingleRows' /\ Recorded'
  BY <1>1, <1>3 DEF SingleRows, Recorded
<1>6. Faithful(index) /\ next \in Nat /\ \A i \in Entries : index[i] < next
  BY <1>1, <1>2, <1>4 DEF IndexLocked, NextLocked, Place!TypeOK
<1>7. CASE (Place!Look(t) \/ Place!Take(t)) /\ index' = index /\ next' = next /\ pc'[t] # "put"
  <2>1. IndexLocked' /\ NextLocked'
    BY <1>3, <1>4, <1>6, <1>7 DEF IndexLocked, NextLocked, Faithful
  <2>2. HolderOK(t)'
    <3>1. CASE pc'[t] = "in"
      BY <1>2, <1>3, <3>1 DEF HolderOK
    <3>2. CASE Place!Look(t) /\ pc'[t] = "write"
      <4>1. target'[t] = index[item[t]] /\ item' = item /\ index[item[t]] # Place!NoRow
        BY <1>2, <3>2 DEF Place!Look, Place!TypeOK
      <4> QED
        BY <1>2, <1>3, <1>7, <3>2, <4>1 DEF HolderOK, Place!Known
    <3>3. CASE Place!Look(t) /\ pc'[t] = "take"
      <4>1. t \in held' /\ item' = item /\ index[item[t]] = Place!NoRow
        BY <1>2, <3>3 DEF Place!Look, Place!TypeOK
      <4> QED
        BY <1>2, <1>3, <1>7, <3>3, <4>1 DEF HolderOK
    <3> QED
      BY <1>7, <3>1, <3>2, <3>3 DEF Place!Look, Place!Take, Place!TypeOK
  <2> QED
    BY <1>4, <1>5, <2>1, <2>2 DEF LockedInv
<1>8. CASE Place!Take(t) /\ pc'[t] = "put"
  <2>1. /\ UNCHANGED <<index, next, item, held>> /\ target'[t] = next /\ pc[t] = "take"
        /\ next \in Place!Rows
    BY <1>8 DEF Place!Take, Place!TypeOK
  <2>2. HolderOK(t)' /\ IndexLocked' /\ NextLocked'
    BY <1>1, <1>2, <1>3, <1>4, <1>6, <1>8, <2>1 DEF HolderOK, IndexLocked, NextLocked, Faithful
  <2> QED
    BY <1>4, <1>5, <2>2 DEF LockedInv
<1>9. CASE Place!Put(t)
  <2>1. /\ UNCHANGED <<item, target>> /\ next' = next + 1 /\ pc'[t] = "write" /\ t \in held
        /\ target[t] = next /\ target[t] \in Place!Rows /\ index[item[t]] = Place!NoRow
        /\ index' = [index EXCEPT ![item[t]] = target[t]]
    BY <1>1, <1>9 DEF HolderOK, Place!Put, Place!After, Place!Entered, Place!TypeOK
  <2>2. /\ index'[item[t]] = next /\ index' \in Place!Known
        /\ \A i \in Entries \ {item[t]} : index'[i] = index[i]
    BY <1>2, <2>1 DEF Place!Known
  <2>3. index' # Nobody
    BY <2>2 DEF Place!Known, Place!Rows, Place!NoRow
  <2>4. Faithful(index)'
    <3>1. \A r \in Place!Rows : sheet'[r] # Nobody => sheet'[r] # item[t] /\ sheet'[r] \in Entries
      <4>1. Place!NoRow \notin Place!Rows
        BY DEF Place!NoRow, Place!Rows
      <4> QED
        BY <1>3, <1>6, <2>1, <4>1 DEF Faithful, Place!TypeOK
    <3>2. \A r \in Place!Rows : sheet'[r] # Nobody => index'[sheet'[r]] = r
      BY <1>3, <1>6, <2>2, <3>1 DEF Faithful
    <3>3. ASSUME NEW i \in Entries, NEW j \in Entries, index'[i] = index'[j], index'[i] # Place!NoRow
          PROVE  i = j
      <4>1. index[i] # next /\ index[j] # next
        BY <1>2, <1>6 DEF Place!Known, Place!Rows, Place!NoRow
      <4> QED
        BY <1>6, <2>2, <3>3, <4>1 DEF Faithful
    <3> QED
      BY <3>2, <3>3 DEF Faithful
  <2>5. NextLocked'
    <3>1. \A i \in Entries : index'[i] < next'
      BY <1>2, <1>6, <2>1, <2>2 DEF Place!Known, Place!Rows, Place!NoRow
    <3> QED
      BY <3>1 DEF NextLocked
  <2>6. HolderOK(t)'
    BY <1>2, <1>3, <2>1, <2>2, <2>3 DEF HolderOK
  <2> QED
    BY <1>4, <1>5, <2>4, <2>5, <2>6 DEF LockedInv, IndexLocked
<1> QED
  <2>1. CASE Place!Look(t)
    BY <1>7, <2>1 DEF Place!Look, Place!TypeOK
  <2>2. CASE Place!Take(t)
    BY <1>7, <1>8, <2>2 DEF Place!Take, Place!TypeOK
  <2> QED
    BY <1>9, <2>1, <2>2

\* The holder writes its item's row and records it; its call fails, perhaps too late.
LEMMA WriteLocked ==
    ASSUME free = {}, Place!TypeOK, LockedInv, NEW t \in Threads, item[t] \in Entries,
           Place!Write(t) \/ Place!Record(t) \/ Place!Fail(t)
    PROVE  LockedInv'
<1> USE ConstantsAssumption DEF Place!RowRaceConstants, Place!cache, Place!locals, Place!Goto, Place!GiveUp
<1>1. HolderOK(t) /\ SingleRows /\ IndexLocked /\ NextLocked /\ Recorded
  BY DEF LockedInv
<1>2. lock = t /\ pc[t] \in {"read", "write", "record"}
  BY <1>1 DEF HolderOK, Place!Write, Place!Record, Place!Fail
<1>3. UNCHANGED <<lock, index, next>> /\ \A u \in Threads \ {t} : pc'[u] = pc[u]
  BY DEF Place!Write, Place!Record, Place!Fail, Place!TypeOK
<1>4. \A u \in Threads \ {t} : pc[u] = "out" /\ pc'[u] = "out" /\ HolderOK(u)'
  BY <1>2, <1>3, OthersOut
<1>5. pc'[t] # "free"
  BY DEF Place!Write, Place!Record, Place!Fail, Place!TypeOK
<1>6. NextLocked'
  BY <1>1, <1>2, <1>3, <1>4, <1>5 DEF NextLocked
<1>7. /\ IndexLocked' /\ SingleRows'
      /\ \A i \in Entries : (\E r \in Place!Rows : sheet[r] = i) => \E r \in Place!Rows : sheet'[r] = i
  <2>1. CASE sheet' = sheet
    BY <1>1, <1>3, <2>1 DEF IndexLocked, SingleRows, Faithful
  <2>2. CASE pc[t] = "write" /\ Place!Written(t)
    <3>1. /\ target[t] \in Place!Rows /\ index[item[t]] = target[t] /\ index # Nobody /\ Faithful(index)
      BY <1>1, <2>2 DEF HolderOK, IndexLocked
    <3>2. /\ sheet'[target[t]] = item[t] /\ \A r \in Place!Rows \ {target[t]} : sheet'[r] = sheet[r]
      BY <2>2, <3>1 DEF Place!Written, Place!TypeOK
    <3>3. target[t] # Place!NoRow /\ item[t] # Nobody
      BY <3>1 DEF Place!NoRow, Place!Rows
    <3>4. sheet[target[t]] \in {Nobody, item[t]}
      BY <3>1, <3>3 DEF Faithful, Place!TypeOK
    <3>5. Faithful(index)'
      BY <1>3, <3>1, <3>2 DEF Faithful
    <3>6. SingleRows'
      <4> SUFFICES ASSUME NEW r \in Place!Rows, NEW q \in Place!Rows,
                          sheet'[r] = sheet'[q], sheet'[r] # Nobody
                   PROVE  r = q
        BY DEF SingleRows
      <4> QED
        BY <3>5 DEF Faithful
    <3> QED
      BY <3>1, <3>2, <3>4, <3>5, <3>6 DEF IndexLocked
  <2> QED
    BY <2>1, <2>2 DEF Place!Write, Place!Record, Place!Fail
<1>8. Recorded'
  <2>1. recorded' = recorded \/ (recorded' = recorded \cup {item[t]} /\ pc[t] = "record")
    BY DEF Place!Write, Place!Record, Place!Fail
  <2>2. pc[t] = "record" => \E r \in Place!Rows : sheet[r] = item[t]
    BY <1>1 DEF HolderOK
  <2>3. \A i \in recorded' : i \in Entries /\ \E r \in Place!Rows : sheet[r] = i
    BY <1>1, <2>1, <2>2 DEF Recorded, Place!TypeOK
  <2> QED
    BY <1>7, <2>3 DEF Recorded
<1>9. HolderOK(t)'
  <2>1. CASE Place!Write(t)
    <3>1. pc'[t] = "record" /\ item' = item /\ target' = target /\ pc[t] = "write"
      BY <2>1 DEF Place!Write, Place!TypeOK
    <3>2. sheet'[target[t]] = item[t]
      BY <1>1, <2>1, <3>1 DEF Place!Write, Place!Written, HolderOK, Place!TypeOK
    <3> QED
      BY <1>1, <1>2, <1>3, <3>1, <3>2 DEF HolderOK
  <2>2. CASE pc'[t] = "in"
    BY <1>2, <1>3, <2>2 DEF HolderOK
  <2> QED
    BY <2>1, <2>2 DEF Place!Record, Place!Fail, Place!TypeOK
<1> QED
  BY <1>4, <1>6, <1>7, <1>8, <1>9 DEF LockedInv

\* Every step keeps each item to one row while every thread takes the lock.
LEMMA NextExclusive == ASSUME PlacedInv, Exclusive, [Next]_vars PROVE Exclusive'
<1>1. free' = free
  BY DEF Next, Shows, Places, placing, vars, Place!Next, Place!Enter, Place!Leave, Place!Reset,
         Place!ResetNext, Place!Upsert, Place!Read, Place!Index, Place!Free, Place!Look, Place!Take,
         Place!Put, Place!Write, Place!Record, Place!Fail
<1>2. SUFFICES ASSUME free = {}, LockedInv PROVE LockedInv'
  BY <1>1 DEF Exclusive
<1>3. Place!TypeOK /\ \A t \in Threads : pc[t] \in {"look", "take", "put", "read", "write", "record"}
                                            => item[t] \in Entries
  BY DEF PlacedInv, ThreadOK
<1>4. ASSUME NEW t \in Threads, Place!Look(t) \/ Place!Take(t) \/ Place!Put(t) PROVE LockedInv'
  <2>1. item[t] \in Entries
    BY <1>3, <1>4 DEF Place!Look, Place!Take, Place!Put
  <2> QED
    BY <1>2, <1>3, <1>4, <2>1, LooksLocked
<1>5. ASSUME NEW t \in Threads, Place!Write(t) \/ Place!Record(t) \/ Place!Fail(t) PROVE LockedInv'
  <2>1. item[t] \in Entries
    BY <1>3, <1>5 DEF Place!Write, Place!Record, Place!Fail
  <2> QED
    BY <1>2, <1>3, <1>5, <2>1, WriteLocked
<1>6. CASE Places
  BY <1>2, <1>3, <1>4, <1>5, <1>6, PrimeLocked DEF Places, Place!Next
<1>7. CASE UNCHANGED placing
  BY <1>2, <1>7 DEF placing, LockedInv, SingleRows, IndexLocked, NextLocked, Recorded, HolderOK, Faithful
<1> QED
  BY <1>6, <1>7 DEF Next, Shows, vars

\* An item that has its row keeps it and gets no second one, for any number of threads
\* with and without the lock, resets and lost answers; so does one that is new while
\* every thread takes the lock (google_mirror.py, upsert_row and _prime_tab).  That a
\* new item may lose its row to another without the lock is NeverCorrupt's violation.
THEOREM RowsAreKept == Spec => []RowKept
<1>1. PlacedInv /\ Exclusive => RowKept
  <2> SUFFICES ASSUME PlacedInv, Exclusive, free = {}, NEW i \in recorded
               PROVE  \E r \in Place!Rows : Place!RowOf(i) = {r}
    BY DEF RowKept, Place!RowKept, PlacedInv, FiledOK
  <2>1. PICK r \in Place!Rows : sheet[r] = i
    BY DEF Exclusive, LockedInv, Recorded
  <2>2. i # Nobody
    BY ConstantsAssumption DEF PlacedInv, Place!TypeOK, Place!RowRaceConstants
  <2> QED
    BY <2>1, <2>2 DEF Exclusive, LockedInv, SingleRows, Place!RowOf
<1>2. Init => Exclusive
  BY InitLocked DEF Exclusive
<1> QED
  BY InitPlaced, NextPlaced, NextExclusive, <1>1, <1>2, PTL DEF Spec
=============================================================================
