------------------------------ MODULE IndexRow ------------------------------
(***************************************************************************)
(* What a row of the index sheet shows: the item's own properties, the     *)
(* names of its related items, and the link to its Doc (mirror_out.py      *)
(* _build_record, resolve.py), behind the hash of a projection that drops  *)
(* some of it (canonical.py property_projection).  A row is true of Notion *)
(* only if every page it draws on is; an item is polled for its own edits. *)
(***************************************************************************)
EXTENDS Naturals, FiniteSets

CONSTANTS Items,                      \* the areas, projects and actions
          MaxTitle, MaxDay, MaxTime,  \* titles; the due day and the time of that day
          MaxDocs, MaxMoves, MaxFaults,
          Allowed                     \* switched on: "rename", "relate", "due", "trash"

Titles == 1..MaxTitle
Docs   == 1..MaxDocs    \* in the order Drive hands them out
Null   == 0

Due  == [day : 1..MaxDay, time : 1..MaxTime]
Page == [title : Titles, rel : SUBSET Items, due : Due]

IndexRowConstants == /\ MaxTitle \in Nat \ {0} /\ MaxDay \in Nat \ {0} /\ MaxTime \in Nat \ {0}
                     /\ Null \notin Items

VARIABLES notion,    \* [Items -> Page]
          changed,   \* the items edited since the watermark
          trashed,   \* Docs in the trash
          docs,      \* Docs handed out so far
          row,       \* [Items -> a row, or NoRow]
          pair,      \* [Items -> [known, title, doc, hash]], the ledger
          eng,       \* [pc, job, page, names, todo, cur, record]
          moves, faults,
          torn       \* history: the items whose row was written last without its hash

vars == <<notion, changed, trashed, docs, row, pair, eng, moves, faults, torn>>

NoRow  == [name |-> Null, names |-> {}, due |-> [day |-> Null, time |-> Null], doc |-> Null]
NoPair == [known |-> FALSE, title |-> Null, doc |-> Null, hash |-> <<>>]
Plain  == [i \in Items |-> [title |-> 1, rel |-> {}, due |-> [day |-> 1, time |-> 1]]]
Idle   == [pc |-> "idle", job |-> "none", page |-> Plain, names |-> [i \in Items |-> Null],
           todo |-> {}, cur |-> Null, record |-> NoRow]

Init == /\ notion = [i \in Items |-> [Plain[i] EXCEPT !.rel = Items \ {i}]]
        /\ changed = Items /\ trashed = {} /\ docs = 0
        /\ row = [i \in Items |-> NoRow] /\ pair = [i \in Items |-> NoPair]
        /\ eng = Idle /\ moves = 0 /\ faults = 0 /\ torn = {}

Outside == UNCHANGED <<notion, changed, trashed, moves, faults>>   \* the users' part

-----------------------------------------------------------------------------
(* A record, its projection and its hash                                   *)

LedgerNames == [i \in Items |-> IF pair[i].known THEN pair[i].title ELSE Null]
CrawlNames  == [i \in Items |-> notion[i].title]     \* extra: what the crawl just read

NamesFor(ids, names) == {names[i] : i \in ids} \ {Null}     \* unknown ids dropped
Built(p, names, doc) ==
    [name |-> p.title, names |-> NamesFor(p.rel, names), due |-> p.due, doc |-> doc]

NoNames(r) == <<r.name, r.due.day>>                  \* mutant: relations are not hashed
Hash(r)    == <<r.name, r.names, r.due.day>>         \* no Doc, no "_" column, the day alone

-----------------------------------------------------------------------------
(* The jobs                                                                *)

Begin(job, todo) ==
    /\ eng.pc = "idle"
    /\ eng' = [Idle EXCEPT !.pc = "pick", !.job = job, !.page = notion, !.todo = todo,
                           !.names = IF job = "full" THEN CrawlNames ELSE @]
    /\ UNCHANGED <<notion, trashed, docs, row, pair, moves, faults, torn>>
BeginFull == Begin("full", Items) /\ UNCHANGED changed
BeginPoll == Begin("poll", changed) /\ changed' = {}

NextItem(e) == [e EXCEPT !.pc = "pick", !.cur = Null, !.record = NoRow]

Live(d) == d # Null /\ d \notin trashed
Stored(i) == pair[i].doc
Reused(i) == Live(pair[i].doc)

Pick ==      \* the indexes of a poll are built item by item; _resolve_doc
    /\ eng.pc = "pick"
    /\ \E i \in eng.todo :
         LET names == IF eng.job = "full" THEN eng.names ELSE LedgerNames
             doc   == IF Reused(i) THEN Stored(i) ELSE docs + 1
         IN  /\ Reused(i) \/ docs < MaxDocs
             /\ docs' = IF Reused(i) THEN docs ELSE docs + 1
             /\ eng' = [eng EXCEPT !.pc = "pair", !.cur = i, !.todo = @ \ {i},
                                   !.record = Built(eng.page[i], names, doc)]
    /\ UNCHANGED <<row, pair, torn>> /\ Outside

Fields(i)   == [pair EXCEPT ![i].known = TRUE, ![i].title = eng.record.name,
                            ![i].doc = eng.record.doc]
WithHash(i) == [Fields(i) EXCEPT ![i].hash = Hash(eng.record)]    \* mutant: before the row
Upserted(i) == Fields(i)

UpsertPair == /\ eng.pc = "pair" /\ pair' = Upserted(eng.cur)
              /\ eng' = [eng EXCEPT !.pc = "gate"]
              /\ UNCHANGED <<docs, row, torn>> /\ Outside

Gate == /\ eng.pc = "gate"
        /\ eng' = IF pair[eng.cur].hash = Hash(eng.record) THEN NextItem(eng)
                  ELSE [eng EXCEPT !.pc = "row"]
        /\ UNCHANGED <<docs, row, pair, torn>> /\ Outside

UpsertRow == /\ eng.pc = "row" /\ row' = [row EXCEPT ![eng.cur] = eng.record]
             /\ eng' = [eng EXCEPT !.pc = "record"]
             /\ UNCHANGED <<docs, pair, torn>> /\ Outside

RecordSource == /\ eng.pc = "record"
                /\ pair' = [pair EXCEPT ![eng.cur].hash = Hash(eng.record)]
                /\ eng' = NextItem(eng) /\ torn' = torn \ {eng.cur}
                /\ UNCHANGED <<docs, row>> /\ Outside

End == /\ eng.pc = "pick" /\ eng.todo = {}
       /\ eng' = Idle
       /\ UNCHANGED <<docs, row, pair, torn>> /\ Outside

FailItem ==     \* "mirror failed; skipping", the row perhaps written: the job goes on
    /\ eng.cur # Null
    /\ faults < MaxFaults /\ faults' = faults + 1
    /\ torn' = IF eng.pc = "record" THEN torn \cup {eng.cur} ELSE torn
    /\ eng' = NextItem(eng)
    /\ UNCHANGED <<notion, changed, trashed, docs, row, pair, moves>>

-----------------------------------------------------------------------------
(* The users                                                               *)

Moved(kind) == /\ kind \in Allowed /\ moves < MaxMoves /\ moves' = moves + 1
               /\ UNCHANGED <<docs, row, pair, eng, faults, torn>>
Edit(i, kind, p) == /\ Moved(kind) /\ p # notion[i]
                    /\ notion' = [notion EXCEPT ![i] = p] /\ changed' = changed \cup {i}
                    /\ UNCHANGED trashed

Rename(i)     == \E x \in Titles : x > notion[i].title /\ Edit(i, "rename", [notion[i] EXCEPT !.title = x])
Relate(i)     == \E r \in SUBSET Items : Edit(i, "relate", [notion[i] EXCEPT !.rel = r])
Reschedule(i) == \E d \in Due : Edit(i, "due", [notion[i] EXCEPT !.due = d])
TrashDoc(d)   == /\ Moved("trash") /\ d <= docs /\ Live(d) /\ trashed' = trashed \cup {d}
                 /\ UNCHANGED <<notion, changed>>

Work == Pick \/ UpsertPair \/ Gate \/ UpsertRow \/ RecordSource \/ End
Env  == (\E i \in Items : Rename(i) \/ Relate(i) \/ Reschedule(i)) \/ \E d \in Docs : TrashDoc(d)
Next == BeginFull \/ BeginPoll \/ Work \/ FailItem \/ Env

\* Jobs go on once begun, and the reconcile gets its turn between the polls.
Fairness == WF_vars(Work) /\ SF_vars(BeginFull)
Spec == Init /\ [][Next]_vars /\ Fairness

-----------------------------------------------------------------------------
(* What is promised                                                        *)

TypeOK == /\ notion \in [Items -> Page] /\ changed \subseteq Items
          /\ docs \in 0..MaxDocs /\ trashed \subseteq 1..docs
          /\ \A i \in Items : /\ row[i].name \in Titles \cup {Null} /\ row[i].names \subseteq Titles
                              /\ pair[i].known = (pair[i].title # Null)
                              /\ pair[i].doc \in 0..docs
                              /\ pair[i].hash # <<>> => pair[i].known
          /\ (eng.cur = Null) = (eng.pc \in {"idle", "pick"}) /\ torn \subseteq Items

Current(i) == Built(notion[i], CrawlNames, row[i].doc)
Shows(i)   == /\ row[i].name = notion[i].title /\ row[i].names = Current(i).names
              /\ row[i].due.day = notion[i].due.day

\* What the gate takes for up to date is so, whichever job wrote the row last, from
\* the crawl's names or from the ledger's, and whichever item failed at which step,
\* but for the items whose row was written last without its hash: upsert_row and
\* record_source are two steps (mirror_out.py), and a hash recorded before the
\* older of two rows says nothing of the newer one.
GateTrue == \A i \in Items : pair[i].hash # <<>> /\ pair[i].hash = Hash(Current(i)) =>
               \/ Hash(row[i]) = pair[i].hash
               \/ eng.pc = "record" /\ eng.cur = i
               \/ i \in torn

\* "Both sides agree" (canonical.py): every row comes to show its item, its due day
\* and the names its related items have now, though none of them was edited, and
\* goes on showing them: no poll writes an older name over a newer one for good.
\* The one row that may stay wrong is one that was written without its hash while
\* Notion went back to what the old hash says (see RowsHeal).
Stuck(i) == i \in torn /\ pair[i].hash = Hash(Current(i))
RowsInTheEnd == <>[](\A i \in Items : Shows(i) \/ Stuck(i))

\* "Skipped items are counted and healed by the next poll/reconcile" (mirror_out.py):
\* every row comes to show its item whatever failed.  The code does not keep this.
RowsHeal == <>[](\A i \in Items : Shows(i))

\* "Projection ignores Doc/_* columns, so hashing the record is correct"
\* (mirror_out.py): the link of a row opens the Doc the ledger has for the item.
DocLinks == <>[](\A i \in Items : row[i].doc = pair[i].doc)

\* "Reflect every Notion page changed since the watermark" (jobs.py), whatever
\* of the page changed: the row shows when the item is due.
DueShown == <>[](\A i \in Items : row[i].due = notion[i].due)
=============================================================================
