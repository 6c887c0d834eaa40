------------------------------- MODULE Homes -------------------------------
(***************************************************************************)
(* The objects the mirror finds by name and heals when they are gone: the  *)
(* root folder, the _Notion Index sheet and a generated Doc (_Dashboard,   *)
(* _Commands, _Intray), with the hash gates in front of the Doc and of a   *)
(* sheet row (google_mirror.py ensure_root, ensure_index_sheet, ensure_doc;*)
(* mirror_out.py refresh_intray, _write_doc_if_changed, the row gate).     *)
(* One Doc and one row stand for all: what they show is a version.         *)
(***************************************************************************)
EXTENDS Naturals, FiniteSets

CONSTANTS Threads, Locked,   \* the callers, and those that take the mirror lock
          NamedRoot,         \* the configured folder is "Notion Mirror" in My Drive
          Allowed,           \* what may happen: "trash", "blink", "revert", "unfetched"
          MaxObjs, MaxVersion, MaxMoves, MaxFaults   \* bounds

Objs     == 1..MaxObjs
Root     == 1          \* GOOGLE_DRIVE_MIRROR_FOLDER_ID
Sheet    == 2          \* GOOGLE_INDEX_SHEET_ID
Versions == 1..MaxVersion
None     == 0          \* no object, no text, no hash, no holder

ASSUME HomesAssumption == /\ Locked \subseteq Threads /\ None \notin Threads
                          /\ NamedRoot \in BOOLEAN /\ MaxObjs \in Nat \ {0, 1}
                          /\ MaxVersion \in Nat \ {0}

VARIABLES want,     \* [doc, row]: what the Doc and the row should show
          drive,    \* [Objs -> [type, in, trashed, text]]
          rt,       \* the GoogleMirror: [root, sheet]
          hash,     \* "doc_hash:<id>" in the ledger: [Objs -> version]
          rowHash,  \* notion_prop_hash of the row's pair
          lock,     \* the holder of _MIRROR_LOCK
          t,        \* [Threads -> [pc, job, ret, row, md, obj]]
          moves, faults,
          misread   \* history: a root that was live was once taken for trashed

vars == <<want, drive, rt, hash, rowHash, lock, t, moves, faults, misread>>

Idle == [pc |-> "idle", job |-> "item", ret |-> "idle", row |-> None, md |-> None, obj |-> None]
Configured == [root |-> Root, sheet |-> Sheet]
Made(type, in) == [type |-> type, in |-> in, trashed |-> FALSE, text |-> None]

Init == /\ want = [doc |-> 1, row |-> 1]
        /\ drive = [o \in Objs |-> CASE o = Root -> Made("folder", None)
                                     [] o = Sheet -> Made("sheet", Root)
                                     [] OTHER -> Made("free", None)]
        /\ rt = Configured
        /\ hash = [o \in Objs |-> None] /\ rowHash = None
        /\ lock = None /\ t = [i \in Threads |-> Idle]
        /\ moves = 0 /\ faults = 0 /\ misread = FALSE

Live(o)  == drive[o].type # "free" /\ ~drive[o].trashed /\
            (drive[o].in # None => ~drive[drive[o].in].trashed)
Fresh    == {o \in Objs : drive[o].type = "free" /\ \A x \in 1..(o - 1) : drive[x].type # "free"}
Roots    == {o \in Objs : drive[o].type = "folder" /\ Live(o)}
Named    == {o \in Roots : o = Root => NamedRoot}     \* what a search for the name finds
In(f, type) == {o \in Objs : drive[o].type = type /\ Live(o) /\ drive[o].in = f}
AllOf(type) == UNION {In(f, type) : f \in Objs}

-----------------------------------------------------------------------------
(* A job: a reconcile ("full"), a poll, or the refresh after a command     *)

At(i, pc) == t[i].pc = pc
Goto(i, pc) == t' = [t EXCEPT ![i].pc = pc]
Fault(kind) == kind \in Allowed /\ faults < MaxFaults /\ faults' = faults + 1

Takes(i)  == IF i \in Locked THEN lock = None /\ lock' = i ELSE UNCHANGED lock

Begin(i) ==
    /\ At(i, "idle") /\ Takes(i)
    /\ \E job \in IF i \in Locked THEN {"full", "poll"} ELSE {"item"} :
         t' = [t EXCEPT ![i] = [Idle EXCEPT
                 !.job = job, !.row = IF job = "item" THEN None ELSE want.row,
                 !.pc  = CASE job = "full" -> "root" [] job = "poll" -> "row" [] OTHER -> "fetch",
                 !.ret = "sheet"]]     \* ensure_index_structure heals the root first
    /\ UNCHANGED <<want, drive, rt, hash, rowHash, moves, faults, misread>>

Released(i) == lock' = IF lock = i THEN None ELSE lock

RootLive(i) ==       \* ensure_root: _is_live reads any HttpError as trashed
    /\ At(i, "root")
    /\ \/ Live(rt.root) /\ t' = [t EXCEPT ![i].pc = t[i].ret, ![i].obj = rt.root]
                        /\ UNCHANGED <<faults, misread>>
       \/ ~Live(rt.root) /\ Goto(i, "findroot") /\ UNCHANGED <<faults, misread>>
       \/ Live(rt.root) /\ Goto(i, "findroot") /\ Fault("blink") /\ misread' = TRUE
    /\ UNCHANGED <<want, drive, rt, hash, rowHash, lock, moves>>

Repointed(i, o) == /\ rt' = [rt EXCEPT !.root = o]
                   /\ t' = [t EXCEPT ![i].pc = t[i].ret, ![i].obj = o]

FindRoot(i) ==       \* ensure_folder("Notion Mirror", "root")
    /\ At(i, "findroot")
    /\ IF Named = {} THEN Goto(i, "makeroot") /\ UNCHANGED rt
       ELSE \E o \in Named : Repointed(i, o)
    /\ UNCHANGED <<want, drive, hash, rowHash, lock, moves, faults, misread>>

MakeRoot(i) ==
    /\ At(i, "makeroot")
    /\ \E o \in Fresh : Repointed(i, o) /\ drive' = [drive EXCEPT ![o] = Made("folder", None)]
    /\ UNCHANGED <<want, hash, rowHash, lock, moves, faults, misread>>

SheetLive(i) ==      \* ensure_index_sheet, which asks for the root once more
    /\ At(i, "sheet")
    /\ \/ Live(rt.sheet) /\ Goto(i, "row") /\ UNCHANGED faults
       \/ /\ \/ ~Live(rt.sheet) /\ UNCHANGED faults
             \/ Live(rt.sheet) /\ Fault("blink")
          /\ t' = [t EXCEPT ![i].pc = "root", ![i].ret = "findsheet"]
    /\ UNCHANGED <<want, drive, rt, hash, rowHash, lock, moves, misread>>

FindSheet(i) ==
    /\ At(i, "findsheet")
    /\ IF In(t[i].obj, "sheet") = {} THEN Goto(i, "makesheet") /\ UNCHANGED rt
       ELSE \E o \in In(t[i].obj, "sheet") : rt' = [rt EXCEPT !.sheet = o] /\ Goto(i, "row")
    /\ UNCHANGED <<want, drive, hash, rowHash, lock, moves, faults, misread>>

MakeSheet(i) ==
    /\ At(i, "makesheet")
    /\ \E o \in Fresh : /\ drive' = [drive EXCEPT ![o] = Made("sheet", t[i].obj)]
                        /\ rt' = [rt EXCEPT !.sheet = o]
    /\ Goto(i, "row")
    /\ UNCHANGED <<want, hash, rowHash, lock, moves, faults, misread>>

RowGate(i) ==        \* the hash and the row key, not the sheet they are of
    /\ At(i, "row")
    /\ IF rowHash = t[i].row THEN Goto(i, "fetch") /\ UNCHANGED drive
       ELSE Goto(i, "rowhash") /\ drive' = [drive EXCEPT ![rt.sheet].text = t[i].row]
    /\ UNCHANGED <<want, rt, hash, rowHash, lock, moves, faults, misread>>

RecordRow(i) == /\ At(i, "rowhash") /\ rowHash' = t[i].row /\ Goto(i, "fetch")
                /\ UNCHANGED <<want, drive, rt, hash, lock, moves, faults, misread>>

Fetch(i) ==          \* fetch_intray; a failure skips the Doc
    /\ At(i, "fetch")
    /\ \/ /\ t' = [t EXCEPT ![i].pc = "root", ![i].ret = "doc", ![i].md = want.doc]
          /\ UNCHANGED <<lock, faults>>
       \/ Fault("unfetched") /\ t' = [t EXCEPT ![i] = Idle] /\ Released(i)
    /\ UNCHANGED <<want, drive, rt, hash, rowHash, moves, misread>>

NoneByName(f) == {}                         \* mutant: create_doc for a standing Doc
ByName(f) == In(f, "doc")

FindDoc(i) ==        \* ensure_doc: find_child ...
    /\ At(i, "doc")
    /\ IF ByName(t[i].obj) = {} THEN Goto(i, "makedoc")
       ELSE \E o \in ByName(t[i].obj) : t' = [t EXCEPT ![i].pc = "gate", ![i].obj = o]
    /\ UNCHANGED <<want, drive, rt, hash, rowHash, lock, moves, faults, misread>>

MakeDoc(i) ==        \* ... or create_doc, in a folder that may be in the trash by now
    /\ At(i, "makedoc")
    /\ \E o \in Fresh : /\ drive' = [drive EXCEPT ![o] = [Made("doc", t[i].obj) EXCEPT
                                                            !.trashed = drive[t[i].obj].trashed]]
                        /\ t' = [t EXCEPT ![i].pc = "gate", ![i].obj = o]
    /\ UNCHANGED <<want, rt, hash, rowHash, lock, moves, faults, misread>>

NameKey(o) == CHOOSE x \in Objs : TRUE      \* mutant: the hash is kept by name
Key(o)     == o

RecordFirst(i) == [hash EXCEPT ![Key(t[i].obj)] = t[i].md]   \* mutant: before the write
Gated(i)       == hash
DocGate(i) ==
    /\ At(i, "gate")
    /\ IF hash[Key(t[i].obj)] = t[i].md
       THEN t' = [t EXCEPT ![i] = Idle] /\ Released(i) /\ UNCHANGED hash
       ELSE Goto(i, "write") /\ hash' = Gated(i) /\ UNCHANGED lock
    /\ UNCHANGED <<want, drive, rt, rowHash, moves, faults, misread>>

WriteDoc(i) == /\ At(i, "write") /\ drive' = [drive EXCEPT ![t[i].obj].text = t[i].md]
               /\ Goto(i, "hash") /\ UNCHANGED <<want, rt, hash, rowHash, lock, moves, faults, misread>>

RecordDoc(i) == /\ At(i, "hash") /\ hash' = [hash EXCEPT ![Key(t[i].obj)] = t[i].md]
                /\ t' = [t EXCEPT ![i] = Idle] /\ Released(i)
                /\ UNCHANGED <<want, drive, rt, rowHash, moves, faults, misread>>

Fails(i) ==          \* an exception: logged, best effort
    /\ t[i].pc # "idle" /\ Fault("fails")
    /\ t' = [t EXCEPT ![i] = Idle] /\ Released(i)
    /\ UNCHANGED <<want, drive, rt, hash, rowHash, moves, misread>>

Crash ==             \* a restart: the process knows the configured ids again
    /\ Fault("fails") /\ t' = [i \in Threads |-> Idle] /\ lock' = None /\ rt' = Configured
    /\ UNCHANGED <<want, drive, hash, rowHash, moves, misread>>

-----------------------------------------------------------------------------
(* The environment                                                         *)

Moved == moves < MaxMoves /\ moves' = moves + 1

Change(what, v) ==   \* the in-tray or the item changes; back again, if "revert"
    /\ Moved /\ v # want[what] /\ (v > want[what] \/ "revert" \in Allowed)
    /\ want' = [want EXCEPT ![what] = v]
    /\ UNCHANGED <<drive, rt, hash, rowHash, lock, t, faults, misread>>

Trash(o) ==          \* by hand: the root, the sheet or the Doc
    /\ Moved /\ "trash" \in Allowed /\ Live(o)
    /\ drive' = [drive EXCEPT ![o].trashed = TRUE]
    /\ UNCHANGED <<want, rt, hash, rowHash, lock, t, faults, misread>>

Work(i) == \/ RootLive(i) \/ FindRoot(i) \/ MakeRoot(i) \/ SheetLive(i) \/ FindSheet(i)
           \/ MakeSheet(i) \/ RowGate(i) \/ RecordRow(i) \/ Fetch(i) \/ FindDoc(i)
           \/ MakeDoc(i) \/ DocGate(i) \/ WriteDoc(i) \/ RecordDoc(i)
Env == \/ \E what \in {"doc", "row"}, v \in Versions : Change(what, v)
       \/ \E o \in Objs : Trash(o)
Next == (\E i \in Threads : Begin(i) \/ Work(i) \/ Fails(i)) \/ Crash \/ Env

\* The scheduler goes on starting jobs, and a job that runs goes on.
Fairness == /\ WF_vars(\E i \in Locked : Begin(i))
            /\ \A i \in Threads : WF_vars(Work(i))
Spec == Init /\ [][Next]_vars /\ Fairness

-----------------------------------------------------------------------------
(* What is promised                                                        *)

TypeOK == /\ want \in [{"doc", "row"} -> Versions]
          /\ drive \in [Objs -> [type : {"free", "folder", "sheet", "doc"}, in : Objs \cup {None},
                                 trashed : BOOLEAN, text : Versions \cup {None}]]
          /\ rt \in [{"root", "sheet"} -> Objs] /\ drive[rt.root].type = "folder"
          /\ drive[rt.sheet].type = "sheet"
          /\ hash \in [Objs -> Versions \cup {None}] /\ rowHash \in Versions \cup {None}
          /\ lock \in Locked \cup {None} /\ misread \in BOOLEAN
          /\ \A i \in Threads : t[i].pc # "idle" /\ i \in Locked => lock = i

\* "idempotent by name": whatever was trashed, misread, half done or restarted in
\* between, two folders never bear the root's name, no folder has two generated Docs
\* or two index sheets; and unless a live root was taken for trashed there is one
\* root, with or without the name, one such Doc and one sheet in all of the Drive.
OneOfEach == /\ Cardinality(Named) <= 1
             /\ \A f \in Objs : Cardinality(In(f, "doc")) <= 1 /\ Cardinality(In(f, "sheet")) <= 1
             /\ misread \/ /\ Cardinality(Roots) <= 1
                           /\ Cardinality(AllOf("doc")) <= 1 /\ Cardinality(AllOf("sheet")) <= 1

\* "Return a live mirror root folder id, recreating it if missing/trashed"
\* (google_mirror.py ensure_root), and only then: one root at a time.  The code does
\* not keep this: a check that fails counts as trashed, and a configured folder of
\* another name is not found again, so a second mirror grows beside the first.
OneHome == Cardinality(Roots) <= 1

\* The gate in front of a generated Doc never suppresses a write that is needed:
\* a Doc recorded with what it should show now shows it.
GateTrue == \A o \in Objs : drive[o].type = "doc" /\ hash[Key(o)] = want.doc =>
               \/ drive[o].text = want.doc
               \/ \E i \in Threads : t[i].pc = "write" /\ t[i].obj = o

\* The Doc under the root the mirror uses ends up showing what it should: no
\* trashed root, new root, failed fetch or old hash "freezing it forever".
CopyInTheEnd == <>[](\E o \in In(rt.root, "doc") : drive[o].text = want.doc)

\* "Root folder + index sheet self-heal if deleted" (docs/HOW_IT_WORKS.md): past
\* the rows of a reconcile a sheet is there that shows the item it read.
RowsHealed == \A i \in Threads : t[i].job = "full" /\ t[i].pc = "fetch" /\ Live(rt.sheet) =>
                 drive[rt.sheet].text = t[i].row

=============================================================================
