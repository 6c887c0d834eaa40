------------------------------- MODULE Mirror -------------------------------
(***************************************************************************)
(* The mirror engine (app/engines/mirror_out.py) with the ledger it keeps  *)
(* and the Drive objects and sheet rows it writes.  One engine runs at a   *)
(* time here (the mirror lock; module SyncJobs has the lock itself), and   *)
(* Notion, the user and the network act between any two of its steps: a    *)
(* step is one remote call, or one run of local code between two of them.  *)
(*                                                                         *)
(* A page's body and its property record are version numbers; a hash is    *)
(* the version it was computed from.                                       *)
(***************************************************************************)
EXTENDS Naturals, FiniteSets

CONSTANTS Pages,       \* Notion page ids
          Kind,        \* [Pages -> kind]; "loose" is a root of LOOSE_PAGES
          Home,        \* [Pages -> Pages \cup {Null}]: Area relation or parent page
          Nested,      \* child pages whose Notion parent is a block of Home[p]
          Archivable,  \* the pages the user may archive
          Root, AreasFolder, Unsorted, SectionFolder,   \* the standing folders
          Null,        \* no page, no id, no hash, no row (Python's None)
          Empty,       \* the text of a Doc just created
          Unreadable,  \* the placeholder body
          HandEdited,  \* what a user typed into a mirror Doc
          Allowed,     \* the environment's moves that are switched on
          MaxObjs,     \* bound on the item folders and Docs ever created
          MaxVersion, MaxMoves, MaxFaults   \* bounds on edits, moves and faults

Kinds    == {"area", "project", "action", "loose", "page"}
Spine    == {p \in Pages : Kind[p] \in {"area", "project", "action"}}
TopLevel == {p \in Pages : Kind[p] # "page"}
Objs     == 1..MaxObjs   \* ids in the order Drive hands them out
Fixed    == {Root, AreasFolder, Unsorted, SectionFolder}
Versions == 1..MaxVersion
Text     == Versions \cup {Empty, Unreadable, HandEdited}
Hashes   == Versions \cup {Unreadable, Null}

ASSUME KindAssumption   == Kind \in [Pages -> Kinds]
ASSUME HomeAssumption   == Home \in [Pages -> Pages \cup {Null}]
ASSUME NullAssumption   == /\ Null \notin Pages /\ Null \notin Objs
                           /\ {Empty, Unreadable, HandEdited} \cap Versions = {}
                           /\ Null \notin {Empty, Unreadable, HandEdited}
                           /\ Null \notin Fixed /\ Null \notin Versions
ASSUME FixedAssumption  == Fixed \cap Objs = {}
ASSUME BoundAssumption  == /\ MaxObjs \in Nat
                           /\ MaxVersion \in Nat \ {0}
                           /\ MaxMoves \in Nat
                           /\ MaxFaults \in Nat
                           /\ Nested \subseteq Pages
                           /\ Archivable \subseteq Pages

VARIABLES notion,   \* what Notion holds: [Pages -> [alive, body, prop, parent]]
          drive,    \* Drive objects: [Objs -> [type, parent, trashed, text]]
          sheet,    \* the row of a page in the index sheet, Null when blank
          ledger,   \* the SyncPair rows: [Pages -> SyncPair]
          eng,      \* the running MirrorOut and the job that drives it
          moves,    \* environment moves so far
          faults,   \* failed calls and crashes so far
          calm      \* no move and no fault since the job began

vars == <<notion, drive, sheet, ledger, eng, moves, faults, calm>>

Notion == [alive : BOOLEAN, body : Versions, prop : Versions,
           parent : Pages \cup {Null}]
File   == [type : {"free", "folder", "doc"}, parent : Objs \cup Fixed,
           trashed : BOOLEAN, text : Text]
SyncPair == [known : BOOLEAN, tombstone : BOOLEAN, folder : Objs \cup {Null},
             doc : Objs \cup {Null}, parent : Objs \cup Fixed \cup {Null},
             body : Hashes, prop : Hashes, row : BOOLEAN]
Engine == [pc : {"idle", "pick", "folder", "doc", "body", "write", "record",
                 "row", "rowrecord", "remove", "rmdoc", "rmfolder", "rmrow",
                 "tombstone", "prune", "done"},
           job : {"full", "poll", "item"}, todo : SUBSET Pages,
           grow : SUBSET Pages, seen : SUBSET Pages, rem : SUBSET Pages,
           under : Pages \cup {Null}, cur : Pages \cup {Null},
           prop : [Pages -> Versions], area : [Pages -> Pages \cup {Null}],
           folderOf : [Pages -> Objs \cup {Null}], kids : [Pages -> (SUBSET Pages) \cup {Null}],
           parent : Objs \cup Fixed, fid : Objs \cup {Null},
           did : Objs \cup {Null}, md : Text]

NoRow == [known |-> FALSE, tombstone |-> FALSE, folder |-> Null, doc |-> Null,
          parent |-> Null, body |-> Null, prop |-> Null, row |-> FALSE]
Idle  == [pc |-> "idle", job |-> "item", todo |-> {}, grow |-> {}, seen |-> {},
          rem |-> {}, under |-> Null, cur |-> Null,
          prop |-> [p \in Pages |-> 1], area |-> [p \in Pages |-> Null],
          folderOf |-> [p \in Pages |-> Null], kids |-> [p \in Pages |-> Null],
          parent |-> Root, fid |-> Null, did |-> Null, md |-> Empty]

Init ==
    /\ notion = [p \in Pages |-> [alive |-> TRUE, body |-> 1, prop |-> 1,
                                  parent |-> Home[p]]]
    /\ drive  = [o \in Objs |-> [type |-> "free", parent |-> Root,
                                 trashed |-> FALSE, text |-> Empty]]
    /\ sheet  = [p \in Pages |-> Null]
    /\ ledger = [p \in Pages |-> NoRow]
    /\ eng = Idle
    /\ moves = 0 /\ faults = 0 /\ calm = TRUE

-----------------------------------------------------------------------------
(* Drive: an object is trashed with the folder it is in.                   *)

IsLive(o) == o \in Objs /\ drive[o].type # "free" /\ ~drive[o].trashed
Under(o)  ==   \* o and everything below it
    LET below[n \in 0..MaxObjs] ==
            IF n = 0 THEN {o}
            ELSE LET up == below[n - 1]
                 IN  up \cup {x \in Objs : drive[x].type # "free" /\ drive[x].parent \in up}
    IN  below[MaxObjs]
Trashed(os) ==   \* drive once the objects in os have been trashed
    [x \in Objs |-> IF \E o \in os : x \in Under(o)
                    THEN [drive[x] EXCEPT !.trashed = TRUE] ELSE drive[x]]
Fresh == {o \in Objs : /\ drive[o].type = "free"
                       /\ \A x \in 1..(o - 1) : drive[x].type # "free"}
InTrash(f)  == f \in Objs /\ drive[f].trashed
Created(o, type, parent) ==
    [drive EXCEPT ![o] = [type |-> type, parent |-> parent,
                          trashed |-> InTrash(parent), text |-> Empty]]

MovedTo(o, f) ==
    [x \in Objs |->
        [drive[x] EXCEPT !.parent  = IF x = o THEN f ELSE @,
                         !.trashed = @ \/ (x \in Under(o) /\ InTrash(f))]]

-----------------------------------------------------------------------------
(* Starting a job                                                          *)

Quiet   == UNCHANGED <<notion, moves, faults, calm>>
Alive   == {p \in Pages : notion[p].alive}
Tracked == {p \in Pages : ledger[p].known /\ ~ledger[p].tombstone}
InScope(p) == \/ p \in TopLevel
              \/ ledger[p].known
              \/ /\ p \notin Nested /\ notion[p].parent # Null
                 /\ ledger[notion[p].parent].known

Start(job, ps) ==
    /\ eng.pc = "idle"
    /\ eng' = [Idle EXCEPT
                 !.pc = "pick", !.job = job, !.todo = ps,
                 !.seen = IF job = "full" THEN ps ELSE {},
                 !.grow = IF job = "full" THEN {p \in ps : Kind[p] # "action"} ELSE {},
                 !.prop = [p \in Pages |-> notion[p].prop],
                 !.area = [p \in Pages |-> notion[p].parent]]
    /\ calm' = TRUE
    /\ UNCHANGED <<notion, drive, sheet, ledger, moves, faults>>

\* sync_all: spine_items and loose_items (a loose root is fetched by its id,
\* archived or not) are the items to mirror and the first pages seen.
StartFull == Start("full", (Spine \cap Alive) \cup {p \in Pages : Kind[p] = "loose"})

\* poll_incremental: the changed pages in scope, here at most one a cycle.
StartPoll == \E ps \in {{}} \cup {{p} : p \in {q \in Alive : InScope(q)}} : Start("poll", ps)

\* _reflect after a command, or a webhook: whatever page the call named.
StartItem == \E p \in Pages : (p \in Alive \/ "late" \in Allowed) /\ Start("item", {p})

Rank(p) == CASE Kind[p] = "area" -> 1 [] Kind[p] = "project" -> 2
             [] Kind[p] = "action" -> 3 [] Kind[p] = "loose" -> 4 [] OTHER -> 5

Pick(p) ==   \* the next item, areas before projects before actions ...
    /\ eng.pc = "pick" /\ p \in eng.todo
    /\ \A q \in eng.todo : Rank(p) <= Rank(q)
    /\ eng' = [eng EXCEPT !.pc = IF Kind[p] = "action" THEN "row" ELSE "folder",
                          !.cur = p, !.todo = @ \ {p},
                          \* get_item(child_id): a child is fetched when it is met
                          !.prop[p] = IF Kind[p] = "page" THEN notion[p].prop ELSE @,
                          !.area[p] = IF Kind[p] = "page" THEN notion[p].parent ELSE @]
    /\ Quiet /\ UNCHANGED <<drive, sheet, ledger>>

Children(p) == {c \in Alive : Kind[c] = "page" /\ notion[c].parent = p}

Listed(p) == IF eng.kids[p] = Null THEN Children(p) ELSE eng.kids[p]
VisitAll(p) == Listed(p)   \* mutant: no look at whether the parent was mirrored
ToVisit(p) == IF eng.folderOf[p] = Null THEN {} ELSE Listed(p)

Recurse(p) ==   \* one turn of the stack of _recurse_all_children
    LET kids == ToVisit(p) IN
    /\ eng.pc = "pick" /\ eng.todo = {} /\ p \in eng.grow
    /\ eng' = [eng EXCEPT !.grow = @ \ {p}, !.under = p, !.todo = kids,
                          !.seen = @ \cup kids]
    /\ Quiet /\ UNCHANGED <<drive, sheet, ledger>>

ListingFails(p) ==   \* "could not list child pages; skipping subtree": the page failed
                     \* after it had its folder and before its body was read, and
                     \* what failed it may fail child_page_ids too
    /\ eng.pc = "pick" /\ eng.todo = {} /\ p \in eng.grow
    /\ eng.folderOf[p] # Null /\ eng.kids[p] = Null
    /\ eng' = [eng EXCEPT !.grow = @ \ {p}] /\ calm' = FALSE
    /\ UNCHANGED <<notion, drive, sheet, ledger, moves, faults>>

-----------------------------------------------------------------------------
(* Mirroring eng.cur                                                       *)

AreaFolder(p) ==      \* _area_folder_for: no look at trash or tombstone
    LET a == eng.area[p] IN
    IF a = Null THEN Unsorted
    ELSE IF eng.folderOf[a] # Null THEN eng.folderOf[a]
    ELSE IF ledger[a].folder # Null THEN ledger[a].folder ELSE Unsorted

PageFolder(p) ==      \* _section_folder_for a generic page
    LET q == eng.area[p] IN
    IF q # Null /\ p \notin Nested /\ ledger[q].folder # Null
    THEN ledger[q].folder ELSE Root

ParentFolder(p) ==
    CASE Kind[p] = "area"    -> AreasFolder
      [] Kind[p] = "project" -> AreaFolder(p)
      [] Kind[p] = "loose"   -> IF eng.job = "item" THEN PageFolder(p) ELSE SectionFolder
      [] OTHER -> IF eng.job = "full" THEN eng.folderOf[eng.under] ELSE PageFolder(p)

FolderByName(p) ==    \* mutant: find-or-create by name, as for section folders
    LET same == {o \in Objs : IsLive(o) /\ drive[o].type = "folder"
                              /\ drive[o].parent = ParentFolder(p)}
    IN  IF same = {} THEN Null ELSE CHOOSE o \in same : TRUE
KnownFolder(p) == ledger[p].folder

NeverMoves(p, home) == FALSE   \* mutant: a moved item keeps its place
Moves(p, home) == ledger[p].parent # Null /\ ledger[p].parent # home

\* _resolve_folder.  "blink" is is_live reading any HttpError as trashed.
ResolveFolder ==
    LET p == eng.cur
        f == KnownFolder(p)
        home == ParentFolder(p)
    IN
    /\ eng.pc = "folder"
    /\ \/ /\ IsLive(f)
          /\ drive' = IF Moves(p, home) THEN MovedTo(f, home) ELSE drive
          /\ eng' = [eng EXCEPT !.pc = "doc", !.parent = home, !.fid = f]
          /\ UNCHANGED <<faults, calm>>
       \/ /\ \/ ~IsLive(f) /\ UNCHANGED <<faults, calm>>
             \/ /\ IsLive(f) /\ "blink" \in Allowed /\ faults < MaxFaults
                /\ faults' = faults + 1 /\ calm' = FALSE
          /\ \E o \in Fresh :
                /\ drive' = Created(o, "folder", home)
                /\ eng' = [eng EXCEPT !.pc = "doc", !.parent = home, !.fid = o]
    /\ UNCHANGED <<notion, sheet, ledger, moves>>

ResolveDoc ==         \* _resolve_doc; the folder is then remembered for nesting
    LET p == eng.cur
        d == ledger[p].doc
        next(o) == [eng EXCEPT !.pc = "body", !.did = o, !.folderOf[p] = eng.fid]
    IN
    /\ eng.pc = "doc"
    /\ \/ IsLive(d) /\ drive' = drive /\ eng' = next(d) /\ UNCHANGED <<faults, calm>>
       \/ /\ \/ ~IsLive(d) /\ UNCHANGED <<faults, calm>>
             \/ /\ IsLive(d) /\ "blink" \in Allowed /\ faults < MaxFaults
                /\ faults' = faults + 1 /\ calm' = FALSE
          /\ \E o \in Fresh :
                drive' = Created(o, "doc", eng.fid) /\ eng' = next(o)
    /\ UNCHANGED <<notion, sheet, ledger, moves>>

RecordedEarly(p, md) ==    \* mutant: the hash is recorded before the write
    [ledger[p] EXCEPT !.known = TRUE, !.folder = eng.fid, !.doc = eng.did,
                      !.parent = eng.parent, !.body = md]
Upserted(p, md) == [ledger[p] EXCEPT !.known = TRUE, !.folder = eng.fid,
                                     !.doc = eng.did, !.parent = eng.parent]

FetchBody ==          \* body_and_child_ids, then upsert_pair and the body gate
    LET p == eng.cur IN
    /\ eng.pc = "body"
    /\ \E md \in {notion[p].body, Unreadable} :
        /\ \/ md # Unreadable /\ UNCHANGED <<faults, calm>>
           \/ /\ md = Unreadable /\ "unreadable" \in Allowed /\ faults < MaxFaults
              /\ faults' = faults + 1 /\ calm' = FALSE
        /\ ledger' = [ledger EXCEPT ![p] = Upserted(p, md)]
        /\ eng' = [eng EXCEPT
                     !.md = md,
                     !.kids[p] = IF md = Unreadable THEN {} ELSE Children(p),
                     !.pc = IF ledger[p].body # md THEN "write" ELSE "row"]
    /\ UNCHANGED <<notion, drive, sheet, moves>>

WriteDoc ==
    /\ eng.pc = "write"
    /\ drive' = [drive EXCEPT ![eng.did].text = eng.md]
    /\ eng' = [eng EXCEPT !.pc = "record"]
    /\ Quiet /\ UNCHANGED <<sheet, ledger>>

RecordBody ==         \* record_source
    /\ eng.pc = "record" /\ ledger[eng.cur].known
    /\ ledger' = [ledger EXCEPT ![eng.cur].body = eng.md]
    /\ eng' = [eng EXCEPT !.pc = "row"]
    /\ Quiet /\ UNCHANGED <<drive, sheet>>

Finished(done) ==     \* a child that was mirrored has its own children visited
    IF eng.job = "item" THEN Idle
    ELSE [eng EXCEPT !.pc = "pick", !.cur = Null, !.fid = Null, !.did = Null,
                     !.md = Empty, !.parent = Root,
                     !.grow = IF done /\ eng.job = "full" /\ Kind[eng.cur] = "page"
                              THEN @ \cup {eng.cur} ELSE @]

Row ==                \* the property gate, then upsert_row
    LET p == eng.cur
        same == ledger[p].prop = eng.prop[p] /\ ledger[p].row
    IN
    /\ eng.pc = "row"
    /\ IF p \notin Spine \/ same
       THEN eng' = Finished(TRUE) /\ sheet' = sheet
       ELSE /\ sheet' = [sheet EXCEPT ![p] = eng.prop[p]]
            /\ eng' = [eng EXCEPT !.pc = "rowrecord"]
    /\ Quiet /\ UNCHANGED <<drive, ledger>>

RecordRow ==          \* upsert_pair with the row key, then record_source
    LET p == eng.cur IN
    /\ eng.pc = "rowrecord"
    /\ ledger' = [ledger EXCEPT ![p].known = TRUE, ![p].row = TRUE,
                                ![p].prop = eng.prop[p]]
    /\ eng' = Finished(TRUE)
    /\ Quiet /\ UNCHANGED <<drive, sheet>>

ItemFails ==          \* an exception: the item is logged and skipped
    /\ eng.pc \in {"folder", "doc", "body", "write", "record", "row", "rowrecord"}
    /\ \/ /\ faults < MaxFaults /\ faults' = faults + 1 /\ calm' = FALSE
       \/ /\ eng.pc = "record" /\ ~ledger[eng.cur].known   \* the row is gone
          /\ UNCHANGED <<faults, calm>>
    /\ eng' = Finished(FALSE)
    /\ UNCHANGED <<notion, drive, sheet, ledger, moves>>

-----------------------------------------------------------------------------
(* Removal: _remove_unseen, after sync_all and in reconcile_spine          *)

BeginRemove ==
    /\ eng.pc = "pick" /\ eng.todo = {} /\ eng.grow = {} /\ eng.job # "item"
    /\ eng' = [eng EXCEPT !.pc = "remove",
                 !.rem = IF eng.job = "full" THEN Tracked \ eng.seen
                         ELSE (Tracked \cap Spine) \ Alive]
    /\ Quiet /\ UNCHANGED <<drive, sheet, ledger>>

Unseen(p) == TRUE     \* mutant: whatever the crawl missed is removed
Gone(p) == ~notion[p].alive

Refetch(p) ==         \* any exception counts as "gone"
    /\ eng.pc = "remove" /\ p \in eng.rem
    /\ \/ /\ notion[p].alive
          /\ eng' = [eng EXCEPT !.rem = @ \ {p}]
          /\ UNCHANGED <<faults, calm>>
       \/ /\ Gone(p)
          /\ eng' = [eng EXCEPT !.rem = @ \ {p}, !.cur = p, !.pc = "rmdoc"]
          /\ UNCHANGED <<faults, calm>>
       \/ /\ "refetch" \in Allowed /\ faults < MaxFaults
          /\ eng' = [eng EXCEPT !.rem = @ \ {p}, !.cur = p, !.pc = "rmdoc"]
          /\ faults' = faults + 1 /\ calm' = FALSE
    /\ UNCHANGED <<notion, drive, sheet, ledger, moves>>

RemoveFile(pc, o, next) ==
    /\ eng.pc = pc
    /\ drive' = IF IsLive(o) THEN Trashed({o}) ELSE drive
    /\ eng' = [eng EXCEPT !.pc = next]
    /\ Quiet /\ UNCHANGED <<sheet, ledger>>

RemoveDoc    == RemoveFile("rmdoc", ledger[eng.cur].doc, "rmfolder")
RemoveFolder == RemoveFile("rmfolder", ledger[eng.cur].folder, "rmrow")

SpareFile ==          \* is_live misread here too: the object stays, the removal goes on
    /\ \/ eng.pc = "rmdoc" /\ IsLive(ledger[eng.cur].doc)
          /\ eng' = [eng EXCEPT !.pc = "rmfolder"]
       \/ eng.pc = "rmfolder" /\ IsLive(ledger[eng.cur].folder)
          /\ eng' = [eng EXCEPT !.pc = "rmrow"]
    /\ "blink" \in Allowed /\ faults < MaxFaults /\ faults' = faults + 1
    /\ calm' = FALSE
    /\ UNCHANGED <<notion, drive, sheet, ledger, moves>>

ClearRow ==
    /\ eng.pc = "rmrow"
    /\ sheet' = IF ledger[eng.cur].row THEN [sheet EXCEPT ![eng.cur] = Null] ELSE sheet
    /\ eng' = [eng EXCEPT !.pc = "tombstone"]
    /\ Quiet /\ UNCHANGED <<drive, ledger>>

RemoveFails ==        \* logged; the pair is tombstoned all the same
    /\ eng.pc \in {"rmdoc", "rmfolder", "rmrow"}
    /\ "clear" \in Allowed /\ faults < MaxFaults
    /\ faults' = faults + 1 /\ calm' = FALSE
    /\ eng' = [eng EXCEPT !.pc = "tombstone"]
    /\ UNCHANGED <<notion, drive, sheet, ledger, moves>>

TombstonePair ==
    /\ eng.pc = "tombstone" /\ ledger[eng.cur].known
    /\ ledger' = [ledger EXCEPT ![eng.cur].tombstone = TRUE]
    /\ eng' = [eng EXCEPT !.pc = "remove", !.cur = Null]
    /\ Quiet /\ UNCHANGED <<drive, sheet>>

EndRemove ==
    /\ eng.pc = "remove" /\ eng.rem = {}
    /\ eng' = IF eng.job = "full" THEN [eng EXCEPT !.pc = "prune"] ELSE Idle
    /\ Quiet /\ UNCHANGED <<drive, sheet, ledger>>

-----------------------------------------------------------------------------
(* Pruning: _prune_untracked                                               *)

Keep == UNION {{ledger[p].folder, ledger[p].doc} : p \in Tracked}

OrphanDocs ==       \* mutant: folders are never pruned
    {o \in Objs : IsLive(o) /\ drive[o].type = "doc" /\ o \notin Keep}
UntrackedObjs ==    \* mutant: an untracked folder goes, whatever it holds
    {o \in Objs : IsLive(o) /\ drive[o].parent # Root /\ o \notin Keep}
Orphans ==   \* depth 1 spares all but an empty unknown folder; below it, a
             \* folder goes when nothing in its subtree is tracked
    {o \in Objs :
        /\ IsLive(o)
        /\ IF drive[o].parent = Root
           THEN /\ drive[o].type = "folder"
                /\ \A x \in Under(o) \ {o} : ~IsLive(x)
           ELSE \A x \in Under(o) : IsLive(x) => x \notin Keep}

Prune ==
    /\ eng.pc = "prune"
    /\ \E spared \in SUBSET Orphans :    \* whose trashing failed
          /\ \/ spared = {} /\ UNCHANGED <<faults, calm>>
             \/ /\ spared # {} /\ faults < MaxFaults
                /\ faults' = faults + 1 /\ calm' = FALSE
          /\ drive' = Trashed(Orphans \ spared)
    /\ eng' = [eng EXCEPT !.pc = "done"]
    /\ UNCHANGED <<notion, sheet, ledger, moves>>

EndFull ==   \* full_reconcile ends with purge_expired: the pairs past their grace
    /\ eng.pc = "done"
    /\ \E old \in SUBSET {p \in Pages : ledger[p].tombstone} :
          ledger' = [p \in Pages |-> IF p \in old THEN NoRow ELSE ledger[p]]
    /\ eng' = Idle
    /\ Quiet /\ UNCHANGED <<drive, sheet>>

Crash ==     \* the process dies, or an exception no handler takes ends the job
    /\ \/ eng.pc # "idle" /\ faults < MaxFaults /\ faults' = faults + 1 /\ calm' = FALSE
       \/ /\ eng.pc = "tombstone" /\ ~ledger[eng.cur].known    \* the row is gone
          /\ UNCHANGED <<faults, calm>>
    /\ eng' = Idle
    /\ UNCHANGED <<notion, drive, sheet, ledger, moves>>

-----------------------------------------------------------------------------
(* The environment                                                         *)

Move(kind) == /\ kind \in Allowed /\ moves < MaxMoves
              /\ moves' = moves + 1 /\ calm' = FALSE
              /\ UNCHANGED <<sheet, eng, faults>>

Older(new, old) == "revert" \in Allowed /\ new < old

EditBody == \E p \in Alive, new \in Versions :
    /\ Move("edit") /\ UNCHANGED <<drive, ledger>>
    /\ new > notion[p].body \/ Older(new, notion[p].body)
    /\ notion' = [notion EXCEPT ![p].body = new]

EditProp == \E p \in Alive \cap Spine, new \in Versions :
    /\ Move("edit") /\ UNCHANGED <<drive, ledger>>
    /\ new > notion[p].prop \/ Older(new, notion[p].prop)
    /\ notion' = [notion EXCEPT ![p].prop = new]

Archive == \E p \in Alive \cap Archivable :
    /\ Move("archive") /\ UNCHANGED <<drive, ledger>>
    /\ notion' = [notion EXCEPT ![p].alive = FALSE]

Restore == \E p \in Pages \ Alive :
    /\ Move("restore") /\ UNCHANGED <<drive, ledger>>
    /\ notion' = [notion EXCEPT ![p].alive = TRUE]

Reparent == \E p \in Alive, q \in Alive \cup {Null} :
    /\ Move("reparent") /\ UNCHANGED <<drive, ledger>>
    /\ Kind[p] \in {"project", "page"}
    /\ q # Null => Kind[q] \in IF Kind[p] = "project" THEN {"area"}
                               ELSE {"area", "project", "loose"}
    /\ notion[p].parent # q
    /\ notion[p].parent = Home[p] \/ "revert" \in Allowed
    /\ notion' = [notion EXCEPT ![p].parent = q]

TrashByHand == \E o \in Objs :
    /\ Move("trash") /\ UNCHANGED <<notion, ledger>>
    /\ IsLive(o) /\ drive' = Trashed({o})

EditDocByHand == \E o \in Objs :
    /\ Move("handedit") /\ UNCHANGED <<notion, ledger>>
    /\ IsLive(o) /\ drive[o].type = "doc"
    /\ drive' = [drive EXCEPT ![o].text = HandEdited]

ResetLedger ==   \* /admin/reset-ledger, at any moment: it takes no lock
    /\ Move("reset") /\ UNCHANGED <<notion, drive>>
    /\ ledger' = [p \in Pages |-> NoRow]

Environment == \/ EditBody \/ EditProp \/ Archive \/ Restore \/ Reparent
               \/ TrashByHand \/ EditDocByHand \/ ResetLedger

MirrorPage == ResolveFolder \/ ResolveDoc \/ FetchBody \/ WriteDoc \/ RecordBody
              \/ Row \/ RecordRow
Remove == BeginRemove \/ RemoveDoc \/ RemoveFolder \/ ClearRow \/ TombstonePair
          \/ EndRemove \/ (\E p \in Pages : Refetch(p))
Faults == ItemFails \/ RemoveFails \/ SpareFile \/ Crash
          \/ (\E p \in Pages : ListingFails(p))

-----------------------------------------------------------------------------
(* What the mirror promises                                                *)

TypeOK == /\ notion \in [Pages -> Notion]
          /\ drive  \in [Objs -> File]
          /\ sheet  \in [Pages -> Versions \cup {Null}]
          /\ ledger \in [Pages -> SyncPair]
          /\ eng \in Engine
          /\ moves \in Nat /\ faults \in Nat /\ calm \in BOOLEAN

\* No Drive object belongs to two pages, and a page's folder and Doc are a
\* folder and a Doc ("two same-named items get distinct folders instead of
\* colliding"), whatever was renamed, moved, trashed or half done.
OwnObjects ==
    /\ \A p, q \in Pages : p # q =>
         {ledger[p].folder, ledger[p].doc} \cap {ledger[q].folder, ledger[q].doc}
            \subseteq {Null}
    /\ \A p \in Pages : /\ ledger[p].folder # Null => drive[ledger[p].folder].type = "folder"
                        /\ ledger[p].doc # Null => drive[ledger[p].doc].type = "doc"

\* The change gate never skips a write that is needed: when the recorded hash
\* is that of the page's present body, the page's Doc holds that body.
GateSafe == \A p \in Alive :
    ledger[p].body = notion[p].body => drive[ledger[p].doc].text = notion[p].body

Shown(p) ==      \* the page's body is in its live Doc, its record in its row
    /\ ledger[p].known
    /\ Kind[p] # "action" => /\ IsLive(ledger[p].folder) /\ IsLive(ledger[p].doc)
                             /\ drive[ledger[p].doc].text = notion[p].body
    /\ p \in Spine => sheet[p] = notion[p].prop

Placed(p) ==     \* its folder is where the page is in Notion
    LET q == notion[p].parent IN
    Kind[p] # "action" =>
        drive[ledger[p].folder].parent =
            CASE Kind[p] = "area" -> AreasFolder
              [] Kind[p] = "loose" -> SectionFolder
              [] OTHER -> IF q = Null THEN Unsorted ELSE ledger[q].folder

\* A full reconcile that nothing disturbs leaves every page of Notion shown
\* with its present body and row in its place, whatever failed before it.
Converges == eng.pc = "done" /\ calm => \A p \in Alive : Shown(p) /\ Placed(p)

\* "a moved item relocates instead of orphaning" (_resolve_folder): after such a
\* reconcile every page's folder is in its parent's.
Relocated == eng.pc = "done" /\ calm => \A p \in Alive : Placed(p)

\* "Skipped items are counted and healed by the next poll/reconcile" (sync_all):
\* what a failed call spoilt, a reconcile that nothing disturbs puts right.
Healed == eng.pc = "done" /\ calm => \A p \in Alive : Shown(p)

\* "Full crawl + mirror of the entire workspace" (sync_all): every page of Notion,
\* one that was removed and brought back too, ends in a live folder.
WholeWorkspace == eng.pc = "done" /\ calm =>
    \A p \in Alive : Kind[p] # "action" => IsLive(ledger[p].folder)

\* "drift heal" (the README's scheduler table): after a reconcile a live Doc
\* holds its page's body, whatever was typed into it since the last write.
DriftHealed == eng.pc = "done" /\ calm =>
    \A p \in Alive : IsLive(ledger[p].doc) => drive[ledger[p].doc].text = notion[p].body

\* ... and nothing else: a page gone from Notion has no live folder or Doc,
\* and below a section folder no live object is left that no page tracks (an
\* orphan folder of the root itself goes only once it is empty).
NothingElse == eng.pc = "done" /\ calm =>
    \A o \in Objs : IsLive(o) /\ drive[o].parent # Root =>
        \E p \in Alive : o \in {ledger[p].folder, ledger[p].doc}

\* _remove_unseen never drops a page that is still in Notion.
VerifiedDelete == \A p \in Alive : ~ledger[p].tombstone

\* Pruning never trashes what a live pair tracks, directly or by a folder above
\* it (folders of the root itself apart: an empty one goes, tracked or not).
TrackedKept == [][eng.pc = "prune" /\ eng'.pc = "done" =>
    \A p \in Tracked : \A o \in {ledger[p].folder, ledger[p].doc} :
        IsLive(o) /\ drive[o].parent # Root => ~drive'[o].trashed]_vars

-----------------------------------------------------------------------------
Next == \/ StartFull \/ StartPoll \/ StartItem
        \/ \E p \in Pages : Pick(p) \/ Recurse(p)
        \/ MirrorPage \/ Remove \/ Prune \/ EndFull \/ Faults \/ Environment

Spec == Init /\ [][Next]_vars

=============================================================================
