---------------------------- MODULE MirrorProofs ----------------------------
(***************************************************************************)
(* Proofs about Mirror, for every set of pages, every bound and every      *)
(* combination of faults and environment moves.                            *)
(***************************************************************************)
EXTENDS Mirror, WellFoundedInduction, TLAPS

ItemSteps   == {"folder", "doc", "body", "write", "record", "row", "rowrecord"}
RemoveSteps == {"rmdoc", "rmfolder", "rmrow", "tombstone"}

\* o is no object of a page other than p.
Unclaimed(o, p) == \A q \in Pages \ {p} : o \notin {ledger[q].folder, ledger[q].doc}

\* What the engine carries between its remote calls: the item in hand, the
\* folder and the Doc it has resolved for it, which no other page holds, and
\* the mirrored parent of the pages it visits.
CurOK == eng.pc \in ItemSteps \cup RemoveSteps => eng.cur \in Pages
FolderOK == eng.pc \in {"doc", "body"} =>
    /\ eng.fid \in Objs /\ drive[eng.fid].type = "folder" /\ Unclaimed(eng.fid, eng.cur)
DocOK == eng.pc = "body" =>
    /\ eng.did \in Objs /\ drive[eng.did].type = "doc" /\ Unclaimed(eng.did, eng.cur)
TextOK == eng.pc \in {"write", "record"} => eng.md \in Versions \cup {Unreadable}
UnderOK ==
    /\ eng.pc = "folder" => Kind[eng.cur] # "action"
    /\ eng.job = "full" =>
         \A p \in Pages : (p \in eng.todo \/ (eng.pc = "folder" /\ p = eng.cur))
                           /\ Kind[p] = "page"
            => eng.under \in Pages /\ eng.folderOf[eng.under] # Null

IInv == TypeOK /\ OwnObjects /\ CurOK /\ FolderOK /\ DocOK /\ TextOK /\ UnderOK

-----------------------------------------------------------------------------
(* What the operators on Drive leave alone                                 *)

\* Trashing changes nothing of an object but its trashed flag, whatever is
\* below it (drive.py trash: files.update with trashed = true).
LEMMA TrashedKeeps ==
    ASSUME drive \in [Objs -> File], NEW os
    PROVE  /\ Trashed(os) \in [Objs -> File]
           /\ \A x \in Objs : Trashed(os)[x].type = drive[x].type
  BY DEF Trashed, File

\* Moving an object changes no type and lands it in the folder asked for.
LEMMA MovedKeeps ==
    ASSUME drive \in [Objs -> File], NEW o \in Objs, NEW f \in Objs \cup Fixed
    PROVE  /\ MovedTo(o, f) \in [Objs -> File]
           /\ \A x \in Objs : MovedTo(o, f)[x].type = drive[x].type
  BY DEF MovedTo, File, InTrash

\* A new object takes an id that had none and leaves the others alone.
LEMMA CreatedKeeps ==
    ASSUME drive \in [Objs -> File], NEW o \in Fresh,
           NEW type \in {"folder", "doc"}, NEW f \in Objs \cup Fixed
    PROVE  /\ o \in Objs /\ drive[o].type = "free"
           /\ Created(o, type, f) \in [Objs -> File]
           /\ Created(o, type, f)[o].type = type
           /\ \A x \in Objs \ {o} : Created(o, type, f)[x] = drive[x]
  BY DEF Created, File, InTrash, Fresh, Text

\* The engine at rest, and a blank SyncPair row, are well typed.
LEMMA IdleType == Idle \in Engine /\ NoRow \in SyncPair
  BY BoundAssumption DEF Idle, NoRow, Engine, SyncPair, Versions, Text, Fixed, Hashes

-----------------------------------------------------------------------------
(* The invariant holds initially and every action preserves it             *)

\* At startup nothing is mirrored, so nothing is claimed (main.lifespan).
LEMMA InitInv == Init => IInv
<1> SUFFICES ASSUME Init PROVE IInv
  OBVIOUS
<1>1. TypeOK
  <2>1. notion \in [Pages -> Notion]
    BY HomeAssumption, BoundAssumption DEF Init, Notion, Versions
  <2>2. drive \in [Objs -> File]
    BY DEF Init, File, Fixed, Text
  <2>3. ledger \in [Pages -> SyncPair] /\ eng \in Engine
    BY IdleType DEF Init
  <2> QED
    BY <2>1, <2>2, <2>3 DEF Init, TypeOK
<1>2. OwnObjects
  BY DEF Init, OwnObjects, NoRow
<1>3. CurOK /\ FolderOK /\ DocOK /\ TextOK /\ UnderOK
  BY DEF Init, Idle, CurOK, FolderOK, DocOK, TextOK, UnderOK, ItemSteps, RemoveSteps
<1> QED
  BY <1>1, <1>2, <1>3 DEF IInv

\* Starting a job reads Notion and the ledger and writes neither.
LEMMA StartInv ==
    ASSUME IInv, NEW job \in {"full", "poll", "item"}, NEW ps \in SUBSET Pages,
           Start(job, ps), job = "full" => ps \subseteq TopLevel
    PROVE  IInv'
<1> USE DEF IInv
<1>1. eng' \in Engine
  <2>1. [p \in Pages |-> notion[p].prop] \in [Pages -> Versions]
    BY DEF TypeOK, Notion
  <2>2. [p \in Pages |-> notion[p].parent] \in [Pages -> Pages \cup {Null}]
    BY DEF TypeOK, Notion
  <2>3. (IF job = "full" THEN ps ELSE {}) \in SUBSET Pages
    OBVIOUS
  <2>4. (IF job = "full" THEN {p \in ps : Kind[p] # "action"} ELSE {}) \in SUBSET Pages
    OBVIOUS
  <2> HIDE DEF IInv
  <2>5. SUFFICES ASSUME NEW prop \in [Pages -> Versions],
                        NEW area \in [Pages -> Pages \cup {Null}],
                        NEW seen \in SUBSET Pages, NEW grow \in SUBSET Pages
                 PROVE  [Idle EXCEPT !.pc = "pick", !.job = job, !.todo = ps,
                           !.seen = seen, !.grow = grow, !.prop = prop,
                           !.area = area] \in Engine
    BY <2>1, <2>2, <2>3, <2>4 DEF Start
  <2> QED
    BY IdleType DEF Engine
<1>2. TypeOK'
  BY <1>1 DEF TypeOK, Start
<1>3. OwnObjects'
  BY DEF OwnObjects, Start
<1>4. (CurOK /\ FolderOK /\ DocOK /\ TextOK /\ UnderOK)'
  BY DEF Start, Idle, CurOK, FolderOK, DocOK, TextOK, UnderOK, ItemSteps, RemoveSteps, TopLevel
<1> QED
  BY <1>2, <1>3, <1>4

-----------------------------------------------------------------------------
(* Frames: what a step that adds no claim to an object preserves           *)

\* No SyncPair row names an object it did not name, and an object keeps its type.
NoNewClaim ==
    /\ \A p \in Pages : /\ ledger'[p].folder \in {ledger[p].folder, Null}
                        /\ ledger'[p].doc \in {ledger[p].doc, Null}
    /\ \A o \in Objs : drive[o].type # "free" => drive'[o].type = drive[o].type

\* Ownership survives a step that claims no object and changes no type.
LEMMA OwnObjectsKept ==
    ASSUME TypeOK, OwnObjects, NoNewClaim
    PROVE  OwnObjects'
<1>1. \A p \in Pages : /\ ledger[p].folder \in Objs \cup {Null}
                       /\ ledger[p].doc \in Objs \cup {Null}
  BY DEF TypeOK, SyncPair
<1>2. ASSUME NEW p \in Pages, NEW q \in Pages, p # q
      PROVE  {ledger'[p].folder, ledger'[p].doc} \cap {ledger'[q].folder, ledger'[q].doc}
                \subseteq {Null}
  BY <1>2 DEF OwnObjects, NoNewClaim
<1>3. ASSUME NEW p \in Pages
      PROVE  /\ ledger'[p].folder # Null => drive'[ledger'[p].folder].type = "folder"
             /\ ledger'[p].doc # Null => drive'[ledger'[p].doc].type = "doc"
  BY <1>1, <1>3 DEF OwnObjects, NoNewClaim
<1> QED
  BY <1>2, <1>3 DEF OwnObjects

\* The environment's moves and the steps that end an item change nothing the
\* engine holds but drop it.
LEMMA HeldKept ==
    ASSUME IInv, NoNewClaim, eng' = eng
    PROVE  (CurOK /\ FolderOK /\ DocOK /\ TextOK /\ UnderOK)'
<1>1. CurOK' /\ TextOK' /\ UnderOK'
  BY DEF IInv, CurOK, TextOK, UnderOK
<1>2. ASSUME NEW o \in Objs, eng.cur \in Pages, Unclaimed(o, eng.cur)
      PROVE  Unclaimed(o, eng.cur)'
  BY <1>2, NullAssumption DEF Unclaimed, NoNewClaim
<1>3. FolderOK' /\ DocOK'
  BY <1>2 DEF IInv, FolderOK, DocOK, NoNewClaim, CurOK, ItemSteps
<1> QED
  BY <1>1, <1>3

\* The item in hand is done with: the engine holds nothing afterwards.
LEMMA RestHeld ==
    ASSUME IInv, eng'.pc \in {"idle", "pick", "remove", "prune", "done"},
           eng'.job = "full" => /\ eng.job = "full" /\ eng'.todo = eng.todo
                                /\ eng'.under = eng.under /\ eng'.folderOf = eng.folderOf
    PROVE  (CurOK /\ FolderOK /\ DocOK /\ TextOK /\ UnderOK)'
  BY DEF IInv, CurOK, FolderOK, DocOK, TextOK, UnderOK, ItemSteps, RemoveSteps

\* A step counts at most one fault.
Counted == \/ faults' = faults /\ calm' = calm
           \/ faults' = faults + 1 /\ calm' = FALSE

\* The fault counter and the calm flag keep their types when a fault is counted.
LEMMA CountedType ==
    ASSUME TypeOK, Counted
    PROVE  faults' \in Nat /\ calm' \in BOOLEAN
<1>1. faults' \in Nat
  BY DEF TypeOK, Counted
<1>2. calm' \in BOOLEAN
  BY Zenon DEF TypeOK, Counted
<1> QED
  BY <1>1, <1>2

\* The engine between two items.
LEMMA BetweenType ==
    ASSUME eng \in Engine, NEW grow \in SUBSET Pages
    PROVE  [eng EXCEPT !.pc = "pick", !.cur = Null, !.fid = Null, !.did = Null,
                       !.md = Empty, !.parent = Root, !.grow = grow] \in Engine
<1>1. Root \in Fixed /\ Empty \in Text
  BY DEF Fixed, Text
<1> QED
  BY <1>1 DEF Engine

\* The engine between two items, or idle after a job of one item.
LEMMA FinishedType ==
    ASSUME eng \in Engine, eng.cur \in Pages, NEW done \in BOOLEAN
    PROVE  /\ Finished(done) \in Engine
           /\ Finished(done).pc \in {"idle", "pick"}
           /\ Finished(done).job = "full" =>
                /\ eng.job = "full" /\ Finished(done).todo = eng.todo
                /\ Finished(done).under = eng.under
                /\ Finished(done).folderOf = eng.folderOf
<1> SUFFICES ASSUME NEW e, e = Finished(done)
             PROVE  /\ e \in Engine /\ e.pc \in {"idle", "pick"}
                    /\ e.job = "full" =>
                         /\ eng.job = "full" /\ e.todo = eng.todo
                         /\ e.under = eng.under /\ e.folderOf = eng.folderOf
  OBVIOUS
<1>1. CASE eng.job = "item"
  BY <1>1, IdleType DEF Finished, Idle
<1>2. CASE eng.job # "item"
  <2> DEFINE grow == IF done /\ eng.job = "full" /\ Kind[eng.cur] = "page"
                     THEN eng.grow \cup {eng.cur} ELSE eng.grow
  <2>1. grow \in SUBSET Pages
    BY DEF Engine
  <2>2. e = [eng EXCEPT !.pc = "pick", !.cur = Null, !.fid = Null,
                            !.did = Null, !.md = Empty, !.parent = Root, !.grow = grow]
    BY <1>2 DEF Finished
  <2> HIDE DEF grow
  <2>4. e \in Engine
    BY <2>1, <2>2, BetweenType
  <2>5. /\ e.pc = "pick" /\ e.job = eng.job /\ e.todo = eng.todo
        /\ e.under = eng.under /\ e.folderOf = eng.folderOf
    BY <2>2 DEF Engine
  <2> QED
    BY <2>4, <2>5
<1> QED
  BY <1>1, <1>2

-----------------------------------------------------------------------------
(* The crawl                                                               *)

\* Taking the next item.
LEMMA PickInv ==
    ASSUME IInv, NEW p \in Pages, Pick(p)
    PROVE  IInv'
<1> DEFINE prop == [eng.prop EXCEPT ![p] = IF Kind[p] = "page" THEN notion[p].prop ELSE @]
           area == [eng.area EXCEPT ![p] = IF Kind[p] = "page" THEN notion[p].parent ELSE @]
           pc == IF Kind[p] = "action" THEN "row" ELSE "folder"
<1>1. eng \in Engine /\ notion \in [Pages -> Notion]
  BY DEF IInv, TypeOK
<1>2. prop \in [Pages -> Versions] /\ area \in [Pages -> Pages \cup {Null}]
  BY <1>1 DEF Engine, Notion
<1>3. eng' = [eng EXCEPT !.pc = pc, !.cur = p, !.todo = eng.todo \ {p},
                         !.prop = prop, !.area = area]
  BY <1>1 DEF Pick, Engine
<1> HIDE DEF prop, area
<1>4. eng' \in Engine /\ eng'.cur = p /\ eng'.todo = eng.todo \ {p} /\ eng'.pc = pc
      /\ eng'.job = eng.job /\ eng'.under = eng.under /\ eng'.folderOf = eng.folderOf
  BY <1>1, <1>2, <1>3 DEF Engine
<1>5. TypeOK'
  BY <1>4 DEF IInv, TypeOK, Pick, Quiet
<1>6. OwnObjects'
  BY DEF IInv, OwnObjects, Pick
<1>7. (CurOK /\ FolderOK /\ DocOK /\ TextOK /\ UnderOK)'
  BY <1>4 DEF IInv, Pick, CurOK, FolderOK, DocOK, TextOK, UnderOK, ItemSteps, RemoveSteps
<1> QED
  BY <1>5, <1>6, <1>7 DEF IInv

\* Visiting the children of a mirrored page.
LEMMA RecurseInv ==
    ASSUME IInv, NEW p \in Pages, Recurse(p)
    PROVE  IInv'
<1>1. eng \in Engine
  BY DEF IInv, TypeOK
<1>2. ToVisit(p) \in SUBSET Pages
  BY <1>1 DEF ToVisit, Listed, Children, Alive, Engine
<1>3. /\ eng' \in Engine /\ eng'.under = p /\ eng'.todo = ToVisit(p) /\ eng'.pc = "pick"
      /\ eng'.job = eng.job /\ eng'.folderOf = eng.folderOf
  <2>1. eng' = [eng EXCEPT !.grow = eng.grow \ {p}, !.under = p, !.todo = ToVisit(p),
                           !.seen = eng.seen \cup ToVisit(p)]
    BY DEF Recurse
  <2>2. eng.grow \ {p} \in SUBSET Pages /\ eng.seen \cup ToVisit(p) \in SUBSET Pages
    BY <1>1, <1>2 DEF Engine
  <2>3. eng.pc = "pick"
    BY DEF Recurse
  <2> QED
    BY <1>1, <1>2, <2>1, <2>2, <2>3 DEF Engine
<1>4. TypeOK'
  BY <1>3 DEF IInv, TypeOK, Recurse, Quiet
<1>5. OwnObjects'
  BY DEF IInv, OwnObjects, Recurse
<1>6. (CurOK /\ FolderOK /\ DocOK /\ TextOK)'
  BY <1>3 DEF CurOK, FolderOK, DocOK, TextOK, ItemSteps, RemoveSteps
<1>7. UnderOK'
  BY <1>3 DEF UnderOK, ToVisit
<1> QED
  BY <1>4, <1>5, <1>6, <1>7 DEF IInv

-----------------------------------------------------------------------------
(* Mirroring the item in hand                                              *)

\* Where an item goes is always a folder: the area, parent or section folder
\* found, or one of the standing ones.
LEMMA ParentFolderType ==
    ASSUME IInv, eng.pc = "folder"
    PROVE  ParentFolder(eng.cur) \in Objs \cup Fixed
<1> DEFINE p == eng.cur
<1>1. p \in Pages /\ Kind[p] \in Kinds \ {"action"}
  BY KindAssumption DEF IInv, CurOK, UnderOK, ItemSteps
<1>2. eng \in Engine /\ ledger \in [Pages -> SyncPair]
  BY DEF IInv, TypeOK
<1>3. AreaFolder(p) \in Objs \cup Fixed
  BY <1>1, <1>2 DEF AreaFolder, Engine, SyncPair, Fixed
<1>4. PageFolder(p) \in Objs \cup Fixed
  BY <1>1, <1>2 DEF PageFolder, Engine, SyncPair, Fixed
<1>5. AreasFolder \in Fixed /\ SectionFolder \in Fixed
  BY DEF Fixed
<1>6. ASSUME Kind[p] = "page", eng.job = "full"
      PROVE  eng.folderOf[eng.under] \in Objs
  BY <1>1, <1>2, <1>6 DEF IInv, UnderOK, Engine
<1> QED
  BY <1>1, <1>3, <1>4, <1>5, <1>6 DEF ParentFolder, Kinds

\* After _resolve_folder the engine holds a live folder that is this page's own
\* or did not exist: that is why two pages never end up with one folder.
LEMMA ResolveFolderInv ==
    ASSUME IInv, ResolveFolder
    PROVE  IInv'
<1> DEFINE p == eng.cur
           home == ParentFolder(p)
           old == ledger[p].folder
<1>1. /\ p \in Pages /\ home \in Objs \cup Fixed /\ eng \in Engine
      /\ drive \in [Objs -> File] /\ ledger \in [Pages -> SyncPair]
  BY ParentFolderType DEF ResolveFolder, IInv, TypeOK, CurOK, ItemSteps
<1> DEFINE Resolved(f) ==
              /\ f \in Objs /\ drive'[f].type = "folder" /\ Unclaimed(f, p)
              /\ drive' \in [Objs -> File]
              /\ \A x \in Objs : drive[x].type # "free" => drive'[x].type = drive[x].type
              /\ eng' = [eng EXCEPT !.pc = "doc", !.parent = home, !.fid = f]
<1> HIDE DEF home
<1>2. PICK f : Resolved(f)
  <2>1. ASSUME IsLive(old), drive' = (IF Moves(p, home) THEN MovedTo(old, home) ELSE drive),
               eng' = [eng EXCEPT !.pc = "doc", !.parent = home, !.fid = old]
        PROVE  Resolved(old)
    <3>1. old \in Objs /\ drive[old].type = "folder" /\ Unclaimed(old, p)
      BY <1>1, <2>1, NullAssumption DEF IsLive, IInv, OwnObjects, Unclaimed
    <3>2. drive' \in [Objs -> File] /\ \A x \in Objs : drive'[x].type = drive[x].type
      BY <1>1, <2>1, <3>1, MovedKeeps
    <3> QED
      BY <2>1, <3>1, <3>2
  <2>2. ASSUME NEW o \in Fresh, drive' = Created(o, "folder", home),
               eng' = [eng EXCEPT !.pc = "doc", !.parent = home, !.fid = o]
        PROVE  Resolved(o)
    <3>1. /\ o \in Objs /\ drive[o].type = "free" /\ drive' \in [Objs -> File]
          /\ drive'[o].type = "folder" /\ \A x \in Objs \ {o} : drive'[x] = drive[x]
      BY <1>1, <2>2, CreatedKeeps
    <3>2. Unclaimed(o, p)
      BY <3>1, NullAssumption DEF Unclaimed, IInv, OwnObjects
    <3> QED
      BY <2>2, <3>1, <3>2
  <2> HIDE DEF Resolved
  <2> QED
    BY <2>1, <2>2 DEF ResolveFolder, KnownFolder, home
<1>3. eng' \in Engine /\ eng'.pc = "doc" /\ eng'.fid = f /\ eng'.cur = p
      /\ eng'.todo = eng.todo /\ eng'.job = eng.job /\ eng'.under = eng.under
      /\ eng'.folderOf = eng.folderOf
  BY <1>1, <1>2 DEF Engine
<1>4. /\ ledger' = ledger /\ notion' = notion /\ sheet' = sheet /\ moves' = moves
      /\ faults' \in Nat /\ calm' \in BOOLEAN
  <2>1. Counted
    BY DEF ResolveFolder, Counted
  <2> QED
    BY <2>1, CountedType DEF ResolveFolder, IInv
<1>5. TypeOK'
  BY <1>2, <1>3, <1>4 DEF IInv, TypeOK
<1>6. OwnObjects'
  BY <1>2, <1>4, OwnObjectsKept DEF IInv, NoNewClaim
<1>7. (CurOK /\ FolderOK /\ DocOK /\ TextOK)'
  BY <1>1, <1>2, <1>3, <1>4 DEF CurOK, FolderOK, DocOK, TextOK, Unclaimed
<1>8. UnderOK'
  BY <1>3 DEF IInv, UnderOK
<1> QED
  BY <1>5, <1>6, <1>7, <1>8 DEF IInv

\* Finding or creating the Doc of the item in hand.
LEMMA ResolveDocInv ==
    ASSUME IInv, ResolveDoc
    PROVE  IInv'
<1> DEFINE p == eng.cur
           old == ledger[p].doc
           Resolved(d) ==
              /\ d \in Objs /\ drive'[d].type = "doc" /\ Unclaimed(d, p)
              /\ drive' \in [Objs -> File]
              /\ \A x \in Objs : drive[x].type # "free" => drive'[x].type = drive[x].type
              /\ eng' = [eng EXCEPT !.pc = "body", !.did = d, !.folderOf[p] = eng.fid]
<1>1. /\ p \in Pages /\ eng \in Engine /\ drive \in [Objs -> File]
      /\ ledger \in [Pages -> SyncPair]
      /\ eng.fid \in Objs /\ drive[eng.fid].type = "folder" /\ Unclaimed(eng.fid, p)
  BY DEF ResolveDoc, IInv, TypeOK, CurOK, FolderOK, ItemSteps
<1>2. PICK d : Resolved(d)
  <2>1. ASSUME IsLive(old), drive' = drive,
               eng' = [eng EXCEPT !.pc = "body", !.did = old, !.folderOf[p] = eng.fid]
        PROVE  Resolved(old)
    <3>1. old \in Objs /\ drive[old].type = "doc" /\ Unclaimed(old, p)
      BY <1>1, <2>1, NullAssumption DEF IsLive, IInv, OwnObjects, Unclaimed
    <3> QED
      BY <1>1, <2>1, <3>1
  <2>2. ASSUME NEW o \in Fresh, drive' = Created(o, "doc", eng.fid),
               eng' = [eng EXCEPT !.pc = "body", !.did = o, !.folderOf[p] = eng.fid]
        PROVE  Resolved(o)
    <3>1. /\ o \in Objs /\ drive[o].type = "free" /\ drive' \in [Objs -> File]
          /\ drive'[o].type = "doc" /\ \A x \in Objs \ {o} : drive'[x] = drive[x]
      BY <1>1, <2>2, CreatedKeeps
    <3>2. Unclaimed(o, p)
      BY <3>1, NullAssumption DEF Unclaimed, IInv, OwnObjects
    <3> QED
      BY <2>2, <3>1, <3>2
  <2> HIDE DEF Resolved
  <2> QED
    BY <2>1, <2>2 DEF ResolveDoc
<1> DEFINE folders == [eng.folderOf EXCEPT ![p] = eng.fid]
<1>3. folders \in [Pages -> Objs \cup {Null}]
  BY <1>1 DEF Engine
<1>4. /\ \A q \in Pages : eng.folderOf[q] # Null => folders[q] # Null
      /\ eng' = [eng EXCEPT !.pc = "body", !.did = d, !.folderOf = folders]
  BY <1>1, <1>2, NullAssumption DEF Engine
<1> HIDE DEF folders
<1>5. eng' \in Engine /\ eng'.pc = "body" /\ eng'.fid = eng.fid /\ eng'.did = d
      /\ eng'.cur = p /\ eng'.todo = eng.todo /\ eng'.job = eng.job
      /\ eng'.under = eng.under /\ eng'.folderOf = folders
  BY <1>1, <1>2, <1>3, <1>4 DEF Engine
<1>6. /\ ledger' = ledger /\ notion' = notion /\ sheet' = sheet /\ moves' = moves
      /\ faults' \in Nat /\ calm' \in BOOLEAN
  <2>1. Counted
    BY DEF ResolveDoc, Counted
  <2> QED
    BY <2>1, CountedType DEF ResolveDoc, IInv
<1>7. TypeOK'
  BY <1>2, <1>5, <1>6 DEF IInv, TypeOK
<1>8. OwnObjects'
  BY <1>2, <1>6, OwnObjectsKept DEF IInv, NoNewClaim
<1>9. (CurOK /\ FolderOK /\ DocOK /\ TextOK)'
  BY <1>1, <1>2, <1>5, <1>6 DEF CurOK, FolderOK, DocOK, TextOK, Unclaimed
<1>10. UnderOK'
  BY <1>4, <1>5 DEF IInv, UnderOK, ResolveDoc
<1> QED
  BY <1>7, <1>8, <1>9, <1>10 DEF IInv

\* upsert_pair: the page claims the folder and the Doc the engine holds for it,
\* which nothing else claims.
LEMMA FetchBodyInv ==
    ASSUME IInv, FetchBody
    PROVE  IInv'
<1> DEFINE p == eng.cur
           f == eng.fid
           d == eng.did
<1>1. /\ p \in Pages /\ eng \in Engine /\ drive \in [Objs -> File]
      /\ ledger \in [Pages -> SyncPair] /\ notion \in [Pages -> Notion]
      /\ f \in Objs /\ drive[f].type = "folder" /\ Unclaimed(f, p)
      /\ d \in Objs /\ drive[d].type = "doc" /\ Unclaimed(d, p)
  BY DEF FetchBody, IInv, TypeOK, CurOK, FolderOK, DocOK, ItemSteps
<1>2. PICK md \in {notion[p].body, Unreadable} :
         /\ ledger' = [ledger EXCEPT ![p] = Upserted(p, md)]
         /\ eng' = [eng EXCEPT
                      !.md = md,
                      !.kids[p] = IF md = Unreadable THEN {} ELSE Children(p),
                      !.pc = IF ledger[p].body # md THEN "write" ELSE "row"]
  BY DEF FetchBody
<1>3. md \in Versions \cup {Unreadable}
  BY <1>1, <1>2 DEF Notion
<1> DEFINE kids == [eng.kids EXCEPT ![p] = IF md = Unreadable THEN {} ELSE Children(p)]
           pc == IF ledger[p].body # md THEN "write" ELSE "row"
<1>4. kids \in [Pages -> (SUBSET Pages) \cup {Null}] /\ pc \in {"write", "row"}
  BY <1>1 DEF Engine, Children, Alive
<1>5. eng' = [eng EXCEPT !.md = md, !.kids = kids, !.pc = pc]
  BY <1>1, <1>2 DEF Engine
<1> HIDE DEF kids, pc
<1>6. eng' \in Engine /\ eng'.pc = pc /\ eng'.md = md /\ eng'.cur = p
      /\ eng'.todo = eng.todo /\ eng'.job = eng.job /\ eng'.under = eng.under
      /\ eng'.folderOf = eng.folderOf
  BY <1>1, <1>3, <1>4, <1>5 DEF Engine, Text
<1>7. /\ ledger' \in [Pages -> SyncPair]
      /\ ledger'[p].folder = f /\ ledger'[p].doc = d
      /\ \A q \in Pages \ {p} : ledger'[q] = ledger[q]
  <2>1. eng.parent \in Objs \cup Fixed /\ ledger[p] \in SyncPair
    BY <1>1 DEF Engine
  <2>2. /\ Upserted(p, md) \in SyncPair
        /\ Upserted(p, md).folder = f /\ Upserted(p, md).doc = d
    BY <1>1, <2>1 DEF Upserted, SyncPair
  <2> QED
    BY <1>1, <1>2, <2>2
<1>8. /\ drive' = drive /\ notion' = notion /\ sheet' = sheet /\ moves' = moves
      /\ faults' \in Nat /\ calm' \in BOOLEAN
  <2>1. Counted
    BY DEF FetchBody, Counted
  <2> QED
    BY <2>1, CountedType DEF FetchBody, IInv
<1>9. TypeOK'
  BY <1>6, <1>7, <1>8 DEF IInv, TypeOK
<1>10. OwnObjects'
  <2>1. f # d
    BY <1>1
  <2>2. ASSUME NEW q \in Pages, NEW r \in Pages, q # r
        PROVE  {ledger'[q].folder, ledger'[q].doc} \cap {ledger'[r].folder, ledger'[r].doc}
                  \subseteq {Null}
    <3>1. CASE q = p
      BY <1>1, <1>7, <2>2, <3>1 DEF Unclaimed
    <3>2. CASE r = p
      BY <1>1, <1>7, <2>2, <3>2 DEF Unclaimed
    <3>3. CASE q # p /\ r # p
      BY <1>7, <2>2, <3>3 DEF IInv, OwnObjects
    <3> QED
      BY <3>1, <3>2, <3>3
  <2>3. ASSUME NEW q \in Pages
        PROVE  /\ ledger'[q].folder # Null => drive'[ledger'[q].folder].type = "folder"
               /\ ledger'[q].doc # Null => drive'[ledger'[q].doc].type = "doc"
    BY <1>1, <1>7, <1>8, <2>3 DEF IInv, OwnObjects
  <2> QED
    BY <2>2, <2>3 DEF OwnObjects
<1>11. (CurOK /\ FolderOK /\ DocOK /\ TextOK)'
  BY <1>1, <1>3, <1>4, <1>6 DEF CurOK, FolderOK, DocOK, TextOK
<1>12. UnderOK'
  BY <1>4, <1>6 DEF IInv, UnderOK, FetchBody
<1> QED
  BY <1>9, <1>10, <1>11, <1>12 DEF IInv

\* Rewriting the Doc the item in hand holds.
LEMMA WriteDocInv ==
    ASSUME IInv, WriteDoc
    PROVE  IInv'
<1>1. eng \in Engine /\ drive \in [Objs -> File]
  BY DEF IInv, TypeOK
<1>2. eng' \in Engine /\ eng'.pc = "record" /\ eng'.md = eng.md /\ eng'.cur = eng.cur
      /\ eng'.todo = eng.todo /\ eng'.job = eng.job /\ eng'.under = eng.under
      /\ eng'.folderOf = eng.folderOf
  BY <1>1 DEF WriteDoc, Engine
<1>3. drive' \in [Objs -> File] /\ \A o \in Objs : drive'[o].type = drive[o].type
  <2>1. eng.md \in Text /\ drive' = [drive EXCEPT ![eng.did].text = eng.md]
    BY <1>1 DEF WriteDoc, Engine
  <2>2. CASE eng.did \in Objs
    BY <1>1, <2>1, <2>2 DEF File
  <2>3. CASE eng.did \notin Objs
    BY <1>1, <2>1, <2>3 DEF File
  <2> QED
    BY <2>2, <2>3
<1>4. TypeOK'
  BY <1>2, <1>3 DEF IInv, TypeOK, WriteDoc, Quiet
<1>5. OwnObjects'
  <2>1. NoNewClaim
    BY <1>3 DEF NoNewClaim, WriteDoc
  <2> QED
    BY <2>1, OwnObjectsKept DEF IInv
<1>6. (CurOK /\ FolderOK /\ DocOK /\ TextOK /\ UnderOK)'
  BY <1>2 DEF IInv, WriteDoc, CurOK, FolderOK, DocOK, TextOK, UnderOK, ItemSteps
<1> QED
  BY <1>4, <1>5, <1>6 DEF IInv

\* Recording the body hash: the ledger claims no further object.
LEMMA RecordBodyInv ==
    ASSUME IInv, RecordBody
    PROVE  IInv'
<1>1. /\ eng \in Engine /\ ledger \in [Pages -> SyncPair] /\ eng.cur \in Pages
      /\ eng.md \in Versions \cup {Unreadable}
  BY DEF IInv, TypeOK, CurOK, TextOK, RecordBody, ItemSteps
<1>2. eng' \in Engine /\ eng'.pc = "row" /\ eng'.cur = eng.cur
      /\ eng'.todo = eng.todo /\ eng'.job = eng.job /\ eng'.under = eng.under
      /\ eng'.folderOf = eng.folderOf
  BY <1>1 DEF RecordBody, Engine
<1>3. /\ ledger' \in [Pages -> SyncPair]
      /\ \A q \in Pages : ledger'[q].folder = ledger[q].folder /\ ledger'[q].doc = ledger[q].doc
  BY <1>1 DEF RecordBody, SyncPair, Hashes
<1>4. TypeOK'
  BY <1>2, <1>3 DEF IInv, TypeOK, RecordBody, Quiet
<1>5. OwnObjects'
  <2>1. NoNewClaim
    BY <1>3 DEF NoNewClaim, RecordBody
  <2> QED
    BY <2>1, OwnObjectsKept DEF IInv
<1>6. (CurOK /\ FolderOK /\ DocOK /\ TextOK /\ UnderOK)'
  BY <1>2 DEF IInv, RecordBody, CurOK, FolderOK, DocOK, TextOK, UnderOK, ItemSteps
<1> QED
  BY <1>4, <1>5, <1>6 DEF IInv

\* The property gate and the sheet row.
LEMMA RowInv ==
    ASSUME IInv, Row
    PROVE  IInv'
<1> DEFINE p == eng.cur
<1>1. eng \in Engine /\ p \in Pages /\ sheet \in [Pages -> Versions \cup {Null}]
  BY DEF IInv, TypeOK, CurOK, Row, ItemSteps
<1>2. eng' \in Engine
  <2>1. Finished(TRUE) \in Engine
    BY <1>1, FinishedType
  <2>2. [eng EXCEPT !.pc = "rowrecord"] \in Engine
    BY <1>1 DEF Engine
  <2>3. eng' = Finished(TRUE) \/ eng' = [eng EXCEPT !.pc = "rowrecord"]
    BY DEF Row
  <2> QED
    BY <2>1, <2>2, <2>3
<1>3. sheet' \in [Pages -> Versions \cup {Null}]
  <2>1. eng.prop[p] \in Versions
    BY <1>1 DEF Engine
  <2>2. sheet' = sheet \/ sheet' = [sheet EXCEPT ![p] = eng.prop[p]]
    BY DEF Row
  <2> QED
    BY <1>1, <2>1, <2>2
<1>4. TypeOK'
  BY <1>2, <1>3 DEF IInv, TypeOK, Row, Quiet
<1>5. OwnObjects'
  BY DEF IInv, OwnObjects, Row
<1>6. (CurOK /\ FolderOK /\ DocOK /\ TextOK /\ UnderOK)'
  <2>1. CASE eng' = Finished(TRUE)
    BY <1>1, <2>1, FinishedType, RestHeld
  <2>2. CASE eng' = [eng EXCEPT !.pc = "rowrecord"]
    <3>1. eng'.pc = "rowrecord" /\ eng'.cur = p /\ eng'.todo = eng.todo
          /\ eng'.job = eng.job /\ eng'.under = eng.under /\ eng'.folderOf = eng.folderOf
      BY <1>1, <2>2 DEF Engine
    <3> QED
      BY <1>1, <3>1 DEF IInv, CurOK, FolderOK, DocOK, TextOK, UnderOK, Row
  <2> QED
    BY <2>1, <2>2 DEF Row
<1> QED
  BY <1>4, <1>5, <1>6 DEF IInv

\* Recording the row key and the property hash.
LEMMA RecordRowInv ==
    ASSUME IInv, RecordRow
    PROVE  IInv'
<1>1. /\ eng \in Engine /\ eng.cur \in Pages /\ ledger \in [Pages -> SyncPair]
  BY DEF IInv, TypeOK, CurOK, RecordRow, ItemSteps
<1>2. eng' = Finished(TRUE) /\ eng' \in Engine
  BY <1>1, FinishedType DEF RecordRow
<1>3. /\ ledger' \in [Pages -> SyncPair]
      /\ \A q \in Pages : ledger'[q].folder = ledger[q].folder /\ ledger'[q].doc = ledger[q].doc
  <2>1. eng.prop[eng.cur] \in Hashes
    BY <1>1 DEF Engine, Hashes
  <2> DEFINE pair == [ledger[eng.cur] EXCEPT !.known = TRUE, !.row = TRUE,
                                             !.prop = eng.prop[eng.cur]]
  <2>2. /\ pair \in SyncPair
        /\ pair.folder = ledger[eng.cur].folder /\ pair.doc = ledger[eng.cur].doc
    BY <1>1, <2>1 DEF SyncPair
  <2>3. ledger' = [ledger EXCEPT ![eng.cur] = pair]
    BY <1>1 DEF RecordRow, SyncPair
  <2> HIDE DEF pair
  <2> QED
    BY <1>1, <2>2, <2>3
<1>4. TypeOK'
  BY <1>2, <1>3 DEF IInv, TypeOK, RecordRow, Quiet
<1>5. OwnObjects'
  <2>1. NoNewClaim
    BY <1>3 DEF NoNewClaim, RecordRow
  <2> QED
    BY <2>1, OwnObjectsKept DEF IInv
<1>6. (CurOK /\ FolderOK /\ DocOK /\ TextOK /\ UnderOK)'
  BY <1>1, <1>2, FinishedType, RestHeld
<1> QED
  BY <1>4, <1>5, <1>6 DEF IInv

\* A failed item lets go of what it held; an object it created is unclaimed.
LEMMA ItemFailsInv ==
    ASSUME IInv, ItemFails
    PROVE  IInv'
<1>1. eng \in Engine /\ eng.cur \in Pages
  BY DEF IInv, TypeOK, CurOK, ItemFails, ItemSteps
<1>2. eng' = Finished(FALSE) /\ eng' \in Engine
  BY <1>1, FinishedType DEF ItemFails
<1>3. faults' \in Nat /\ calm' \in BOOLEAN
  <2>1. Counted
    BY DEF ItemFails, Counted
  <2> QED
    BY <2>1, CountedType DEF IInv
<1>4. TypeOK'
  BY <1>2, <1>3 DEF IInv, TypeOK, ItemFails
<1>5. OwnObjects'
  BY DEF IInv, OwnObjects, ItemFails
<1>6. (CurOK /\ FolderOK /\ DocOK /\ TextOK /\ UnderOK)'
  BY <1>1, <1>2, FinishedType, RestHeld
<1> QED
  BY <1>4, <1>5, <1>6 DEF IInv

-----------------------------------------------------------------------------
(* Removal, pruning and the end of a job                                   *)

\* A step that touches neither the ledger nor the type of an object.
LEMMA UntouchedClaims ==
    ASSUME IInv, ledger' = ledger,
           drive' = drive \/ \E os : drive' = Trashed(os)
    PROVE  drive' \in [Objs -> File] /\ NoNewClaim /\ OwnObjects'
<1>1. drive' \in [Objs -> File] /\ \A o \in Objs : drive'[o].type = drive[o].type
  BY TrashedKeeps DEF IInv, TypeOK
<1>2. NoNewClaim
  BY <1>1 DEF NoNewClaim
<1> QED
  BY <1>1, <1>2, OwnObjectsKept DEF IInv

\* Listing the candidates for removal.
LEMMA BeginRemoveInv ==
    ASSUME IInv, BeginRemove
    PROVE  IInv'
<1>1. eng \in Engine
  BY DEF IInv, TypeOK
<1> DEFINE rem == IF eng.job = "full" THEN Tracked \ eng.seen
                  ELSE (Tracked \cap Spine) \ Alive
<1>2. rem \in SUBSET Pages
  BY DEF Tracked
<1>3. eng' = [eng EXCEPT !.pc = "remove", !.rem = rem]
  BY DEF BeginRemove
<1> HIDE DEF rem
<1>4. eng' \in Engine /\ eng'.pc = "remove" /\ eng'.job = eng.job
      /\ eng'.todo = eng.todo /\ eng'.under = eng.under /\ eng'.folderOf = eng.folderOf
  BY <1>1, <1>2, <1>3 DEF Engine
<1>5. TypeOK' /\ OwnObjects'
  BY <1>4 DEF IInv, TypeOK, OwnObjects, BeginRemove, Quiet
<1>6. (CurOK /\ FolderOK /\ DocOK /\ TextOK /\ UnderOK)'
  BY <1>4, RestHeld
<1> QED
  BY <1>5, <1>6 DEF IInv

\* Fetching a candidate again.
LEMMA RefetchInv ==
    ASSUME IInv, NEW p \in Pages, Refetch(p)
    PROVE  IInv'
<1>1. eng \in Engine /\ eng.pc = "remove"
  BY DEF IInv, TypeOK, Refetch
<1> DEFINE rem == eng.rem \ {p}
<1>2. rem \in SUBSET Pages
  BY <1>1 DEF Engine
<1>3. \/ eng' = [eng EXCEPT !.rem = rem]
      \/ eng' = [eng EXCEPT !.rem = rem, !.cur = p, !.pc = "rmdoc"]
  BY DEF Refetch
<1> HIDE DEF rem
<1>4. /\ eng' \in Engine /\ eng'.job = eng.job /\ eng'.todo = eng.todo
      /\ eng'.under = eng.under /\ eng'.folderOf = eng.folderOf
      /\ eng'.pc = "remove" \/ (eng'.pc = "rmdoc" /\ eng'.cur = p)
  <2>1. CASE eng' = [eng EXCEPT !.rem = rem]
    BY <1>1, <1>2, <2>1 DEF Engine
  <2>2. CASE eng' = [eng EXCEPT !.rem = rem, !.cur = p, !.pc = "rmdoc"]
    BY <1>1, <1>2, <2>2 DEF Engine
  <2> QED
    BY <1>3, <2>1, <2>2
<1>5. faults' \in Nat /\ calm' \in BOOLEAN
  <2>1. Counted
    BY DEF Refetch, Counted
  <2> QED
    BY <2>1, CountedType DEF IInv
<1>6. TypeOK' /\ OwnObjects'
  BY <1>4, <1>5 DEF IInv, TypeOK, OwnObjects, Refetch
<1>7. (CurOK /\ FolderOK /\ DocOK /\ TextOK /\ UnderOK)'
  BY <1>4 DEF IInv, CurOK, FolderOK, DocOK, TextOK, UnderOK, ItemSteps, RemoveSteps
<1> QED
  BY <1>6, <1>7 DEF IInv

\* One step of removing a page leads to the next.
LEMMA RemoveStepHeld ==
    ASSUME IInv, eng.pc \in RemoveSteps, NEW pc \in RemoveSteps,
           eng' = [eng EXCEPT !.pc = pc]
    PROVE  eng' \in Engine /\ (CurOK /\ FolderOK /\ DocOK /\ TextOK /\ UnderOK)'
<1>1. eng \in Engine
  BY DEF IInv, TypeOK
<1>2. eng' \in Engine /\ eng'.pc = pc /\ eng'.cur = eng.cur /\ eng'.todo = eng.todo
      /\ eng'.job = eng.job /\ eng'.under = eng.under /\ eng'.folderOf = eng.folderOf
  BY <1>1 DEF Engine, RemoveSteps
<1> QED
  BY <1>2 DEF IInv, CurOK, FolderOK, DocOK, TextOK, UnderOK, ItemSteps, RemoveSteps

\* Trashing the folder or the Doc of a removed page.
LEMMA RemoveFileInv ==
    ASSUME IInv, RemoveDoc \/ RemoveFolder
    PROVE  IInv'
<1>1. PICK next \in RemoveSteps : eng' = [eng EXCEPT !.pc = next]
  BY DEF RemoveDoc, RemoveFolder, RemoveFile, RemoveSteps
<1>2. eng.pc \in RemoveSteps /\ ledger' = ledger
      /\ notion' = notion /\ sheet' = sheet /\ moves' = moves /\ faults' = faults /\ calm' = calm
  BY DEF RemoveDoc, RemoveFolder, RemoveFile, RemoveSteps, Quiet
<1>3. drive' = drive \/ \E os : drive' = Trashed(os)
  BY DEF RemoveDoc, RemoveFolder, RemoveFile
<1>4. drive' \in [Objs -> File] /\ OwnObjects'
  BY <1>2, <1>3, UntouchedClaims
<1>5. eng' \in Engine /\ (CurOK /\ FolderOK /\ DocOK /\ TextOK /\ UnderOK)'
  BY <1>1, <1>2, RemoveStepHeld
<1>6. TypeOK'
  BY <1>2, <1>4, <1>5 DEF IInv, TypeOK
<1> QED
  BY <1>4, <1>5, <1>6 DEF IInv

\* Clearing the row of a removed page.
LEMMA ClearRowInv ==
    ASSUME IInv, ClearRow
    PROVE  IInv'
<1>1. eng' \in Engine /\ (CurOK /\ FolderOK /\ DocOK /\ TextOK /\ UnderOK)'
  BY RemoveStepHeld DEF ClearRow, RemoveSteps
<1>2. sheet' \in [Pages -> Versions \cup {Null}]
  BY DEF IInv, TypeOK, ClearRow
<1>3. TypeOK' /\ OwnObjects'
  BY <1>1, <1>2 DEF IInv, TypeOK, OwnObjects, ClearRow, Quiet
<1> QED
  BY <1>1, <1>3 DEF IInv

\* A removal that fails half-way.
LEMMA RemoveFailsInv ==
    ASSUME IInv, RemoveFails
    PROVE  IInv'
<1>1. eng' \in Engine /\ (CurOK /\ FolderOK /\ DocOK /\ TextOK /\ UnderOK)'
  BY RemoveStepHeld DEF RemoveFails, RemoveSteps
<1>2. faults' \in Nat /\ calm' \in BOOLEAN
  BY CountedType DEF RemoveFails, Counted, IInv
<1>3. TypeOK' /\ OwnObjects'
  BY <1>1, <1>2 DEF IInv, TypeOK, OwnObjects, RemoveFails
<1> QED
  BY <1>1, <1>3 DEF IInv

\* A look that fails: at the children of a page, or at an object to be removed.
Skips == SpareFile \/ \E p \in Pages : ListingFails(p)

\* It costs the job what was not seen, and touches nothing else.
LEMMA SkipsIs ==
    ASSUME IInv, Skips
    PROVE  /\ UNCHANGED <<notion, drive, sheet, ledger, moves>> /\ ~calm'
           /\ eng' \in Engine /\ eng'.grow \subseteq eng.grow
           /\ eng'.job = eng.job /\ eng'.todo = eng.todo /\ eng'.seen = eng.seen
           /\ eng'.rem = eng.rem /\ eng'.under = eng.under /\ eng'.cur = eng.cur
           /\ eng'.prop = eng.prop /\ eng'.area = eng.area
           /\ eng'.folderOf = eng.folderOf /\ eng'.kids = eng.kids
           /\ eng'.parent = eng.parent /\ eng'.fid = eng.fid /\ eng'.did = eng.did
           /\ eng'.md = eng.md
           /\ \/ eng.pc = "pick" /\ eng'.pc = "pick" /\ faults' = faults
              \/ eng.pc \in RemoveSteps /\ eng'.pc \in RemoveSteps /\ faults' = faults + 1
<1>1. eng \in Engine
  BY DEF IInv, TypeOK
<1>2. CASE SpareFile
  <2>1. PICK next \in RemoveSteps : eng' = [eng EXCEPT !.pc = next]
    BY <1>2 DEF SpareFile, RemoveSteps
  <2>2. eng.pc \in RemoveSteps
    BY <1>2 DEF SpareFile, RemoveSteps
  <2>3. next \in {"rmdoc", "rmfolder", "rmrow", "tombstone"}
    BY DEF RemoveSteps
  <2> QED
    BY <1>1, <1>2, <2>1, <2>2, <2>3 DEF SpareFile, Engine
<1>3. ASSUME NEW p \in Pages, ListingFails(p)
      PROVE  /\ eng' = [eng EXCEPT !.grow = eng.grow \ {p}] /\ eng.pc = "pick"
             /\ UNCHANGED <<notion, drive, sheet, ledger, moves, faults>> /\ ~calm'
  BY <1>3 DEF ListingFails
<1> QED
  BY <1>1, <1>2, <1>3 DEF Skips, Engine

LEMMA SkipsInv ==
    ASSUME IInv, Skips
    PROVE  IInv'
<1>1. faults' \in Nat /\ calm' \in BOOLEAN
  <2>1. faults \in Nat /\ faults + 1 \in Nat
    BY DEF IInv, TypeOK
  <2>2. calm' = FALSE
    BY DEF Skips, SpareFile, ListingFails
  <2>3. faults' = faults \/ faults' = faults + 1
    BY SkipsIs
  <2>4. faults' \in Nat
    BY <2>1, <2>3
  <2> QED
    BY <2>2, <2>4
<1>2. TypeOK' /\ OwnObjects'
  BY <1>1, SkipsIs DEF IInv, TypeOK, OwnObjects
<1>3. (CurOK /\ FolderOK /\ DocOK /\ TextOK /\ UnderOK)'
  BY SkipsIs DEF IInv, CurOK, FolderOK, DocOK, TextOK, UnderOK, ItemSteps, RemoveSteps
<1> QED
  BY <1>2, <1>3 DEF IInv

\* Tombstoning the pair: what it claims stays claimed.
LEMMA TombstonePairInv ==
    ASSUME IInv, TombstonePair
    PROVE  IInv'
<1>1. /\ eng \in Engine /\ eng.cur \in Pages /\ ledger \in [Pages -> SyncPair]
  BY DEF IInv, TypeOK, CurOK, TombstonePair, RemoveSteps
<1>2. eng' \in Engine /\ eng'.pc = "remove" /\ eng'.job = eng.job
      /\ eng'.todo = eng.todo /\ eng'.under = eng.under /\ eng'.folderOf = eng.folderOf
  BY <1>1 DEF TombstonePair, Engine
<1>3. /\ ledger' \in [Pages -> SyncPair]
      /\ \A q \in Pages : ledger'[q].folder = ledger[q].folder /\ ledger'[q].doc = ledger[q].doc
  <2> DEFINE pair == [ledger[eng.cur] EXCEPT !.tombstone = TRUE]
  <2>1. /\ pair \in SyncPair
        /\ pair.folder = ledger[eng.cur].folder /\ pair.doc = ledger[eng.cur].doc
    BY <1>1 DEF SyncPair
  <2>2. ledger' = [ledger EXCEPT ![eng.cur] = pair]
    BY <1>1 DEF TombstonePair
  <2> HIDE DEF pair
  <2> QED
    BY <1>1, <2>1, <2>2
<1>4. TypeOK'
  BY <1>2, <1>3 DEF IInv, TypeOK, TombstonePair, Quiet
<1>5. OwnObjects'
  <2>1. NoNewClaim
    BY <1>3 DEF NoNewClaim, TombstonePair
  <2> QED
    BY <2>1, OwnObjectsKept DEF IInv
<1>6. (CurOK /\ FolderOK /\ DocOK /\ TextOK /\ UnderOK)'
  BY <1>2, RestHeld
<1> QED
  BY <1>4, <1>5, <1>6 DEF IInv

\* The end of removal.
LEMMA EndRemoveInv ==
    ASSUME IInv, EndRemove
    PROVE  IInv'
<1>1. eng \in Engine
  BY DEF IInv, TypeOK
<1>2. /\ eng' \in Engine /\ eng'.pc \in {"idle", "prune"}
      /\ eng'.job = "full" =>
           /\ eng.job = "full" /\ eng'.todo = eng.todo
           /\ eng'.under = eng.under /\ eng'.folderOf = eng.folderOf
  <2>1. CASE eng.job = "full"
    <3>1. eng' = [eng EXCEPT !.pc = "prune"]
      BY <2>1 DEF EndRemove
    <3> QED
      BY <1>1, <2>1, <3>1 DEF Engine
  <2>2. CASE eng.job # "full"
    BY <2>2, IdleType DEF EndRemove, Idle
  <2> QED
    BY <2>1, <2>2
<1>3. TypeOK' /\ OwnObjects'
  BY <1>2 DEF IInv, TypeOK, OwnObjects, EndRemove, Quiet
<1>4. (CurOK /\ FolderOK /\ DocOK /\ TextOK /\ UnderOK)'
  BY <1>2, RestHeld
<1> QED
  BY <1>3, <1>4 DEF IInv

\* Pruning changes no type and no claim.
LEMMA PruneInv ==
    ASSUME IInv, Prune
    PROVE  IInv'
<1>1. eng \in Engine
  BY DEF IInv, TypeOK
<1>2. /\ eng' \in Engine /\ eng'.pc = "done" /\ eng'.job = eng.job
      /\ eng'.todo = eng.todo /\ eng'.under = eng.under /\ eng'.folderOf = eng.folderOf
  BY <1>1 DEF Prune, Engine
<1>3. /\ ledger' = ledger /\ notion' = notion /\ sheet' = sheet /\ moves' = moves
      /\ \E os : drive' = Trashed(os)
  BY DEF Prune
<1>4. drive' \in [Objs -> File] /\ OwnObjects'
  BY <1>3, UntouchedClaims
<1>5. faults' \in Nat /\ calm' \in BOOLEAN
  <2>1. Counted
    BY DEF Prune, Counted
  <2> QED
    BY <2>1, CountedType DEF IInv
<1>6. TypeOK'
  BY <1>2, <1>3, <1>4, <1>5 DEF IInv, TypeOK
<1>7. (CurOK /\ FolderOK /\ DocOK /\ TextOK /\ UnderOK)'
  BY <1>2, RestHeld
<1> QED
  BY <1>4, <1>6, <1>7 DEF IInv

\* Purging tombstones only gives claims up.
LEMMA EndFullInv ==
    ASSUME IInv, EndFull
    PROVE  IInv'
<1>1. eng' \in Engine /\ eng'.pc = "idle" /\ eng'.job = "item"
  BY IdleType DEF EndFull, Idle
<1>2. PICK old \in SUBSET Pages :
         ledger' = [p \in Pages |-> IF p \in old THEN NoRow ELSE ledger[p]]
  BY DEF EndFull
<1>3. ledger' \in [Pages -> SyncPair]
  BY <1>2, IdleType DEF IInv, TypeOK
<1>4. NoNewClaim
  BY <1>2 DEF EndFull, NoNewClaim, NoRow
<1>5. TypeOK'
  BY <1>1, <1>3 DEF IInv, TypeOK, EndFull, Quiet
<1>6. OwnObjects'
  BY <1>4, OwnObjectsKept DEF IInv
<1>7. (CurOK /\ FolderOK /\ DocOK /\ TextOK /\ UnderOK)'
  BY <1>1, RestHeld
<1> QED
  BY <1>5, <1>6, <1>7 DEF IInv

\* A crash forgets the engine and keeps ledger, Drive and sheet.
LEMMA CrashInv ==
    ASSUME IInv, Crash
    PROVE  IInv'
<1>1. eng' \in Engine /\ eng'.pc = "idle" /\ eng'.job = "item"
  BY IdleType DEF Crash, Idle
<1>2. faults' \in Nat /\ calm' \in BOOLEAN
  <2>1. Counted
    BY DEF Crash, Counted
  <2> QED
    BY <2>1, CountedType DEF IInv
<1>3. TypeOK' /\ OwnObjects'
  BY <1>1, <1>2 DEF IInv, TypeOK, OwnObjects, Crash
<1>4. (CurOK /\ FolderOK /\ DocOK /\ TextOK /\ UnderOK)'
  BY <1>1, RestHeld
<1> QED
  BY <1>3, <1>4 DEF IInv

-----------------------------------------------------------------------------
(* The environment                                                         *)

\* Whatever Notion, the user and the admin endpoints do in between.
LEMMA EnvironmentInv ==
    ASSUME IInv, Environment
    PROVE  IInv'
<1>1. /\ sheet' = sheet /\ eng' = eng /\ faults' = faults
      /\ moves' = moves + 1 /\ calm' = FALSE
  BY DEF Environment, EditBody, EditProp, Archive, Restore, Reparent, TrashByHand,
         EditDocByHand, ResetLedger, Move
<1>2. notion' \in [Pages -> Notion]
  <2>1. notion \in [Pages -> Notion]
    BY DEF IInv, TypeOK
  <2>2. CASE EditBody
    BY <2>1, <2>2 DEF EditBody, Notion
  <2>3. CASE EditProp
    BY <2>1, <2>3 DEF EditProp, Notion
  <2>4. CASE Archive
    BY <2>1, <2>4 DEF Archive, Notion
  <2>5. CASE Restore
    BY <2>1, <2>5 DEF Restore, Notion
  <2>6. CASE Reparent
    BY <2>1, <2>6 DEF Reparent, Notion, Alive
  <2>7. CASE TrashByHand \/ EditDocByHand \/ ResetLedger
    BY <2>1, <2>7 DEF TrashByHand, EditDocByHand, ResetLedger
  <2> QED
    BY <2>2, <2>3, <2>4, <2>5, <2>6, <2>7 DEF Environment
<1>3. ledger' \in [Pages -> SyncPair] /\ drive' \in [Objs -> File] /\ NoNewClaim
  <2>1. CASE EditBody \/ EditProp \/ Archive \/ Restore \/ Reparent
    <3>1. ledger' = ledger /\ drive' = drive
      BY <2>1 DEF EditBody, EditProp, Archive, Restore, Reparent
    <3> QED
      BY <3>1 DEF IInv, TypeOK, NoNewClaim
  <2>2. CASE TrashByHand
    <3>1. ledger' = ledger /\ \E os : drive' = Trashed(os)
      BY <2>2 DEF TrashByHand
    <3> QED
      BY <3>1, UntouchedClaims DEF IInv, TypeOK
  <2>3. CASE EditDocByHand
    <3>1. ledger' = ledger /\ drive \in [Objs -> File] /\ HandEdited \in Text
      BY <2>3 DEF EditDocByHand, IInv, TypeOK, Text
    <3>2. drive' \in [Objs -> File] /\ \A o \in Objs : drive'[o].type = drive[o].type
      BY <2>3, <3>1 DEF EditDocByHand, File
    <3> QED
      BY <3>1, <3>2 DEF IInv, TypeOK, NoNewClaim
  <2>4. CASE ResetLedger
    BY <2>4, IdleType DEF ResetLedger, IInv, TypeOK, NoNewClaim, NoRow
  <2> QED
    BY <2>1, <2>2, <2>3, <2>4 DEF Environment
<1>4. moves' \in Nat /\ calm' \in BOOLEAN
  <2>1. moves' \in Nat
    BY <1>1 DEF IInv, TypeOK
  <2>2. calm' \in BOOLEAN
    BY <1>1, Zenon
  <2> QED
    BY <2>1, <2>2
<1>5. TypeOK'
  BY <1>1, <1>2, <1>3, <1>4 DEF IInv, TypeOK
<1>6. OwnObjects'
  BY <1>3, OwnObjectsKept DEF IInv
<1>7. (CurOK /\ FolderOK /\ DocOK /\ TextOK /\ UnderOK)'
  BY <1>1, <1>3, HeldKept
<1> QED
  BY <1>5, <1>6, <1>7 DEF IInv

-----------------------------------------------------------------------------
\* Every step keeps the invariant, action by action.
LEMMA NextInv ==
    ASSUME IInv, [Next]_vars
    PROVE  IInv'
<1>1. CASE StartFull
  <2>1. Start("full", (Spine \cap Alive) \cup {p \in Pages : Kind[p] = "loose"})
    BY <1>1 DEF StartFull
  <2>2. (Spine \cap Alive) \cup {p \in Pages : Kind[p] = "loose"} \subseteq TopLevel
    BY DEF Spine, TopLevel
  <2>3. TopLevel \subseteq Pages
    BY DEF TopLevel
  <2> QED
    BY <2>1, <2>2, <2>3, StartInv
<1>2. CASE StartPoll
  <2>1. PICK ps \in SUBSET Pages : Start("poll", ps)
    BY <1>2 DEF StartPoll, Alive
  <2> QED
    BY <2>1, StartInv
<1>3. CASE StartItem
  <2>1. PICK p \in Pages : Start("item", {p})
    BY <1>3 DEF StartItem
  <2> QED
    BY <2>1, StartInv
<1>4. CASE \E p \in Pages : Pick(p) \/ Recurse(p)
  BY <1>4, PickInv, RecurseInv
<1>5. CASE MirrorPage
  BY <1>5, ResolveFolderInv, ResolveDocInv, FetchBodyInv, WriteDocInv, RecordBodyInv,
     RowInv, RecordRowInv DEF MirrorPage
<1>6. CASE Remove
  BY <1>6, BeginRemoveInv, RefetchInv, RemoveFileInv, ClearRowInv, TombstonePairInv,
     EndRemoveInv DEF Remove
<1>7. CASE Prune \/ EndFull \/ Faults
  BY <1>7, PruneInv, EndFullInv, ItemFailsInv, RemoveFailsInv, CrashInv, SkipsInv
     DEF Faults, Skips
<1>8. CASE Environment
  BY <1>8, EnvironmentInv
<1>9. CASE UNCHANGED vars
  <2>1. NoNewClaim /\ eng' = eng
    BY <1>9 DEF vars, NoNewClaim
  <2>2. TypeOK' /\ OwnObjects'
    BY <1>9 DEF IInv, TypeOK, OwnObjects, vars
  <2> QED
    BY <2>1, <2>2, HeldKept DEF IInv
<1> QED
  BY <1>1, <1>2, <1>3, <1>4, <1>5, <1>6, <1>7, <1>8, <1>9 DEF Next

\* The inductive invariant holds in every reachable state of the mirror engine,
\* for every set of pages, every bound and every choice of environment moves.
THEOREM Invariant == Spec => []IInv
<1>1. Init => IInv
  BY InitInv
<1>2. IInv /\ [Next]_vars => IInv'
  BY NextInv
<1> QED
  BY <1>1, <1>2, PTL DEF Spec

\* Every variable keeps its type, whatever fails, moves or is reset.
THEOREM Types == Spec => []TypeOK
  BY Invariant, PTL DEF IInv

\* No Drive object is ever two pages' (mirror_out.py, _resolve_folder and
\* _resolve_doc keyed by the stored id): for every set of pages and every fault.
THEOREM ObjectsAreOwned == Spec => []OwnObjects
  BY Invariant, PTL DEF IInv

-----------------------------------------------------------------------------
(* Pruning                                                                 *)

\* An orphan has nothing tracked below it, and is not tracked itself unless it
\* lies in the root: trashing orphans spares what a live pair tracks.
LEMMA PruneSpares ==
    ASSUME TypeOK, Prune, NEW o \in Keep, IsLive(o), drive[o].parent # Root
    PROVE  ~drive'[o].trashed
<1>1. PICK spared \in SUBSET Orphans : drive' = Trashed(Orphans \ spared)
  BY DEF Prune
<1>2. o \in Objs /\ ~drive[o].trashed
  BY DEF IsLive
<1>3. ASSUME NEW x \in Orphans, o \in Under(x)
      PROVE  FALSE
  <2>1. CASE drive[x].parent = Root
    BY <1>3, <2>1 DEF Orphans
  <2>2. CASE drive[x].parent # Root
    BY <1>3, <2>2 DEF Orphans
  <2> QED
    BY <2>1, <2>2
<1> QED
  BY <1>1, <1>2, <1>3 DEF Trashed

\* _prune_untracked never trashes a folder or Doc a live pair tracks, nor a
\* folder above one, whatever failed before it (folders of the root apart).
THEOREM PruneKeepsTheTracked == Spec => TrackedKept
<1> DEFINE Kept == eng.pc = "prune" /\ eng'.pc = "done" =>
              \A p \in Tracked : \A o \in {ledger[p].folder, ledger[p].doc} :
                 IsLive(o) /\ drive[o].parent # Root => ~drive'[o].trashed
<1>1. IInv /\ [Next]_vars => [Kept]_vars
  <2> SUFFICES ASSUME IInv, Next, eng.pc = "prune", eng'.pc = "done"
               PROVE  Kept
    BY DEF vars
  <2>1. Prune
    <3>1. ~Environment
      BY DEF Environment, EditBody, EditProp, Archive, Restore, Reparent, TrashByHand,
             EditDocByHand, ResetLedger, Move
    <3>2. ~Faults
      BY DEF Faults, ItemFails, RemoveFails, SpareFile, ListingFails, Crash, Idle
    <3>3. ~MirrorPage /\ ~Remove /\ ~EndFull
      BY DEF MirrorPage, Remove, EndFull, ResolveFolder, ResolveDoc, FetchBody, WriteDoc,
             RecordBody, Row, RecordRow, BeginRemove, RemoveDoc, RemoveFolder, RemoveFile,
             ClearRow, TombstonePair, EndRemove, Refetch
    <3>4. ~StartFull /\ ~StartPoll /\ ~StartItem
      BY DEF StartFull, StartPoll, StartItem, Start
    <3>5. ~\E p \in Pages : Pick(p) \/ Recurse(p)
      BY DEF Pick, Recurse
    <3> QED
      BY <3>1, <3>2, <3>3, <3>4, <3>5 DEF Next
  <2>2. ASSUME NEW p \in Tracked, NEW o \in {ledger[p].folder, ledger[p].doc}
        PROVE  o \in Keep
    BY DEF Keep
  <2> QED
    BY <2>1, <2>2, PruneSpares DEF IInv
<1>2. TrackedKept <=> [][Kept]_vars
  BY DEF TrackedKept
<1> HIDE DEF Kept
<1> QED
  BY <1>1, <1>2, Invariant, PTL DEF Spec

-----------------------------------------------------------------------------
(* Removal                                                                 *)

\* Every candidate was found gone when it was fetched again.
Verified == eng.pc \in RemoveSteps => ~notion[eng.cur].alive

\* With no restore and no failing refetch, no step tombstones a page that is alive.
LEMMA VerifiedStep ==
    ASSUME "refetch" \notin Allowed, "restore" \notin Allowed,
           IInv, VerifiedDelete, Verified, [Next]_vars
    PROVE  VerifiedDelete' /\ Verified'
<1>1. eng \in Engine /\ ledger \in [Pages -> SyncPair] /\ notion \in [Pages -> Notion]
  BY DEF IInv, TypeOK
<1>2. ASSUME ledger' = ledger \/ \A p \in Pages : ledger'[p].tombstone => ledger[p].tombstone,
             notion' = notion, eng'.pc \notin RemoveSteps
      PROVE  VerifiedDelete' /\ Verified'
  BY <1>2 DEF VerifiedDelete, Verified, Alive
<1>3. CASE StartFull \/ StartPoll \/ StartItem
  <2>1. ledger' = ledger /\ notion' = notion /\ eng'.pc = "pick"
    <3>1. PICK job, ps : Start(job, ps)
      BY <1>3 DEF StartFull, StartPoll, StartItem
    <3> QED
      BY <3>1 DEF Start, Idle
  <2> QED
    BY <1>2, <2>1 DEF RemoveSteps
<1>4. ASSUME NEW p \in Pages, Pick(p) \/ Recurse(p)
      PROVE  VerifiedDelete' /\ Verified'
  <2>1. ledger' = ledger /\ notion' = notion /\ eng'.pc \in {"pick", "row", "folder"}
    BY <1>1, <1>4 DEF Pick, Recurse, Quiet, Engine
  <2> QED
    BY <1>2, <2>1 DEF RemoveSteps
<1>5. CASE MirrorPage
  <2>1. notion' = notion
    BY <1>5 DEF MirrorPage, ResolveFolder, ResolveDoc, FetchBody, WriteDoc, RecordBody,
                Row, RecordRow, Quiet
  <2>2. eng.cur \in Pages
    BY <1>5 DEF MirrorPage, ResolveFolder, ResolveDoc, FetchBody, WriteDoc, RecordBody,
                Row, RecordRow, IInv, CurOK, ItemSteps
  <2>3. eng'.pc \notin RemoveSteps
    <3>1. Finished(TRUE).pc \in {"idle", "pick"}
      BY <1>1, <2>2, FinishedType
    <3>2. CASE Row \/ RecordRow
      <4>1. eng' = Finished(TRUE) \/ eng' = [eng EXCEPT !.pc = "rowrecord"]
        BY <3>2 DEF Row, RecordRow
      <4>2. [eng EXCEPT !.pc = "rowrecord"].pc = "rowrecord"
        BY <1>1 DEF Engine
      <4> QED
        BY <3>1, <4>1, <4>2 DEF RemoveSteps
    <3>3. CASE ResolveFolder
      <4>1. PICK f, home : eng' = [eng EXCEPT !.pc = "doc", !.parent = home, !.fid = f]
        BY <3>3 DEF ResolveFolder
      <4> QED
        BY <1>1, <4>1 DEF Engine, RemoveSteps
    <3>4. CASE ResolveDoc
      <4>1. PICK d : eng' = [eng EXCEPT !.pc = "body", !.did = d,
                                        !.folderOf[eng.cur] = eng.fid]
        BY <3>4 DEF ResolveDoc
      <4> QED
        BY <1>1, <4>1 DEF Engine, RemoveSteps
    <3>5. CASE FetchBody
      <4>1. PICK md : eng' = [eng EXCEPT !.md = md,
                 !.kids[eng.cur] = IF md = Unreadable THEN {} ELSE Children(eng.cur),
                 !.pc = IF ledger[eng.cur].body # md THEN "write" ELSE "row"]
        BY <3>5 DEF FetchBody
      <4> QED
        BY <1>1, <4>1 DEF Engine, RemoveSteps
    <3>6. CASE WriteDoc \/ RecordBody
      BY <1>1, <3>6 DEF WriteDoc, RecordBody, RemoveSteps, Engine
    <3> QED
      BY <1>5, <3>2, <3>3, <3>4, <3>5, <3>6 DEF MirrorPage
  <2>4. \A p \in Pages : ledger'[p].tombstone = ledger[p].tombstone
    <3>1. CASE FetchBody
      BY <1>1, <3>1 DEF FetchBody, Upserted, SyncPair
    <3>2. CASE RecordBody
      BY <1>1, <3>2 DEF RecordBody, SyncPair
    <3>3. CASE RecordRow
      BY <1>1, <3>3 DEF RecordRow, SyncPair
    <3>4. CASE ResolveFolder \/ ResolveDoc \/ WriteDoc \/ Row
      BY <3>4 DEF ResolveFolder, ResolveDoc, WriteDoc, Row
    <3> QED
      BY <1>5, <3>1, <3>2, <3>3, <3>4 DEF MirrorPage
  <2> QED
    BY <1>2, <2>1, <2>3, <2>4
<1>6. CASE BeginRemove \/ EndRemove
  <2>1. ledger' = ledger /\ notion' = notion /\ eng'.pc \in {"remove", "prune", "idle"}
    <3>1. CASE BeginRemove
      BY <1>1, <3>1 DEF BeginRemove, Quiet, Engine
    <3>2. CASE EndRemove
      <4>1. eng' = [eng EXCEPT !.pc = "prune"] \/ eng' = Idle
        BY <3>2 DEF EndRemove
      <4>2. [eng EXCEPT !.pc = "prune"].pc = "prune" /\ Idle.pc = "idle"
        BY <1>1 DEF Engine, Idle
      <4> QED
        BY <3>2, <4>1, <4>2 DEF EndRemove, Quiet
    <3> QED
      BY <1>6, <3>1, <3>2
  <2> QED
    BY <1>2, <2>1 DEF RemoveSteps
<1>7. ASSUME NEW p \in Pages, Refetch(p)
      PROVE  VerifiedDelete' /\ Verified'
  <2>1. ledger' = ledger /\ notion' = notion
    BY <1>7 DEF Refetch
  <2>2. VerifiedDelete'
    BY <2>1 DEF VerifiedDelete, Alive
  <2>3. CASE eng' = [eng EXCEPT !.rem = eng.rem \ {p}] /\ eng.pc = "remove"
    <3>1. eng'.pc = "remove"
      BY <1>1, <2>3 DEF Engine
    <3> QED
      BY <2>2, <3>1 DEF Verified, RemoveSteps
  <2>4. CASE eng' = [eng EXCEPT !.rem = eng.rem \ {p}, !.cur = p, !.pc = "rmdoc"]
             /\ ~notion[p].alive
    <3>1. eng'.cur = p
      BY <1>1, <2>4 DEF Engine
    <3> QED
      BY <2>1, <2>2, <2>4, <3>1 DEF Verified
  <2> QED
    BY <1>7, <2>2, <2>3, <2>4 DEF Refetch, Gone
<1>8. CASE RemoveDoc \/ RemoveFolder \/ ClearRow \/ RemoveFails \/ Skips
  <2>1. /\ ledger' = ledger /\ notion' = notion /\ eng'.cur = eng.cur
        /\ eng.pc \in RemoveSteps \/ eng'.pc \notin RemoveSteps
    <3>1. CASE Skips
      BY <3>1, SkipsIs DEF RemoveSteps
    <3> QED
      BY <1>1, <1>8, <3>1 DEF RemoveDoc, RemoveFolder, RemoveFile, ClearRow, RemoveFails,
                              Quiet, RemoveSteps, Engine
  <2> QED
    BY <2>1 DEF VerifiedDelete, Verified, Alive
<1>9. CASE TombstonePair
  <2>1. /\ eng.cur \in Pages /\ ~notion[eng.cur].alive
        /\ notion' = notion /\ eng'.pc = "remove"
    BY <1>1, <1>9 DEF TombstonePair, Verified, IInv, CurOK, RemoveSteps, Quiet, Engine
  <2>2. \A p \in Pages \ {eng.cur} : ledger'[p] = ledger[p]
    BY <1>1, <1>9 DEF TombstonePair
  <2> QED
    BY <2>1, <2>2 DEF VerifiedDelete, Verified, Alive, RemoveSteps
<1>10. CASE Prune \/ EndFull \/ Crash \/ ItemFails
  <2>1. /\ notion' = notion
        /\ \A p \in Pages : ledger'[p].tombstone => ledger[p].tombstone
    BY <1>10 DEF Prune, EndFull, Crash, ItemFails, Quiet, NoRow
  <2>2. eng'.pc \notin RemoveSteps
    <3>1. CASE ItemFails
      BY <1>1, <3>1, FinishedType DEF ItemFails, RemoveSteps, IInv, CurOK, ItemSteps
    <3>2. CASE Prune \/ EndFull \/ Crash
      BY <1>1, <3>2 DEF Prune, EndFull, Crash, Idle, RemoveSteps, Engine
    <3> QED
      BY <1>10, <3>1, <3>2
  <2> QED
    BY <1>2, <2>1, <2>2
<1>11. CASE Environment
  <2>1. eng' = eng /\ ~Restore
    BY <1>11 DEF Environment, EditBody, EditProp, Archive, Restore, Reparent, TrashByHand,
                EditDocByHand, ResetLedger, Move
  <2>2. \A p \in Pages : ledger'[p].tombstone => ledger[p].tombstone
    <3>1. ResetLedger \/ ledger' = ledger
      BY <1>11 DEF Environment, EditBody, EditProp, Archive, Restore, Reparent, TrashByHand,
                  EditDocByHand
    <3>2. CASE ResetLedger
      BY <3>2 DEF ResetLedger, NoRow
    <3> QED
      BY <3>1, <3>2
  <2>3. \A p \in Pages : notion'[p].alive => notion[p].alive
    <3>1. CASE EditBody
      BY <1>1, <3>1 DEF EditBody, Notion
    <3>2. CASE EditProp
      BY <1>1, <3>2 DEF EditProp, Notion
    <3>3. CASE Archive
      BY <1>1, <3>3 DEF Archive, Notion
    <3>4. CASE Reparent
      BY <1>1, <3>4 DEF Reparent, Notion
    <3>5. CASE TrashByHand \/ EditDocByHand \/ ResetLedger
      BY <3>5 DEF TrashByHand, EditDocByHand, ResetLedger
    <3> QED
      BY <1>11, <2>1, <3>1, <3>2, <3>3, <3>4, <3>5 DEF Environment
  <2>4. VerifiedDelete'
    BY <2>2, <2>3 DEF VerifiedDelete, Alive
  <2>5. Verified'
    BY <2>1, <2>3 DEF Verified, IInv, CurOK
  <2> QED
    BY <2>4, <2>5
<1>12. CASE UNCHANGED vars
  BY <1>12 DEF vars, VerifiedDelete, Verified, Alive
<1> QED
  BY <1>3, <1>4, <1>5, <1>6, <1>7, <1>8, <1>9, <1>10, <1>11, <1>12
     DEF Next, Remove, Faults, Skips

\* While no verification fetch fails and no page comes back from the archive,
\* _remove_unseen drops no page that is still in Notion: both conditions are
\* needed (the run mirror_verify drops the first).
THEOREM OnlyTheGoneAreDropped ==
    ASSUME "refetch" \notin Allowed, "restore" \notin Allowed
    PROVE  Spec => []VerifiedDelete
<1>1. Init => VerifiedDelete /\ Verified
  BY DEF Init, VerifiedDelete, Verified, NoRow, Idle, RemoveSteps, Alive
<1>2. IInv /\ VerifiedDelete /\ Verified /\ [Next]_vars => VerifiedDelete' /\ Verified'
  BY VerifiedStep
<1> QED
  BY <1>1, <1>2, Invariant, PTL DEF Spec

-----------------------------------------------------------------------------
(* Under(o): o and everything below it                                     *)

Less == {p \in Nat \X Nat : p[1] < p[2]}

\* There is no endless descent in the natural numbers: what fails for some depth
\* fails for a least one.
LEMMA LessIsWellFounded == IsWellFoundedOn(Less, Nat)
  BY NatLessThanWellFounded DEF OpToRel, Less

\* The levels that Under(o) adds up, k steps down the tree.
Down(os) == os \cup {x \in Objs : drive[x].type # "free" /\ drive[x].parent \in os}
Levels(o, k, g) == g = [n \in 0..k |-> IF n = 0 THEN {o} ELSE Down(g[n - 1])]

\* However deep the tree, its levels can be added up: the least depth at which
\* they could not would have those of the depth before it.
LEMMA LevelsExist == ASSUME NEW o PROVE \E g : Levels(o, MaxObjs, g)
<1> DEFINE Bad == {k \in 0..MaxObjs : ~ \E g : Levels(o, k, g)}
<1>1. SUFFICES ASSUME Bad # {} PROVE FALSE
  BY BoundAssumption
<1>2. PICK k \in Bad : \A j \in Bad : <<j, k>> \notin Less
  <2>1. Bad \subseteq Nat
    OBVIOUS
  <2> HIDE DEF Bad
  <2> QED
    BY <1>1, <2>1, LessIsWellFounded, WFMin
<1>3. CASE k = 0
  <2> DEFINE g == [n \in 0..0 |-> {o}]
  <2>1. g = [n \in 0..0 |-> IF n = 0 THEN {o} ELSE Down(g[n - 1])]
    OBVIOUS
  <2>2. Levels(o, 0, g)
    BY <2>1 DEF Levels
  <2> QED
    BY <1>3, <2>2
<1>4. CASE k # 0
  <2>1. k \in 0..MaxObjs /\ k - 1 \in 0..MaxObjs /\ k - 1 < k
    BY <1>4, BoundAssumption
  <2>2. <<k - 1, k>> \in Less
    BY <2>1 DEF Less
  <2>3. k - 1 \notin Bad
    BY <1>2, <2>2
  <2>4. PICK f : Levels(o, k - 1, f)
    BY <2>1, <2>3
  <2> DEFINE g == [n \in 0..k |-> IF n < k THEN f[n] ELSE Down(f[k - 1])]
             h == [n \in 0..k |-> IF n = 0 THEN {o} ELSE Down(g[n - 1])]
  <2>5. ASSUME NEW n \in 0..k PROVE g[n] = h[n]
    <3>1. \A m \in 0..(k - 1) : f[m] = IF m = 0 THEN {o} ELSE Down(f[m - 1])
      BY <2>4, <2>1 DEF Levels
    <3>2. CASE n = 0
      BY <3>1, <3>2, <2>1, <1>4
    <3>3. CASE n # 0 /\ n < k
      <4>1. n \in 0..(k - 1) /\ n - 1 \in 0..k /\ n - 1 < k
        BY <3>3, <2>1
      <4>2. g[n] = f[n] /\ g[n - 1] = f[n - 1]
        BY <3>3, <4>1
      <4>3. f[n] = Down(f[n - 1])
        BY <3>1, <3>3, <4>1
      <4> QED
        BY <3>3, <4>2, <4>3
    <3>4. CASE n = k
      <4>1. g[n] = Down(f[k - 1]) /\ k - 1 \in 0..k /\ g[k - 1] = f[k - 1]
        BY <3>4, <2>1
      <4>2. h[n] = Down(g[k - 1])
        BY <3>4, <1>4
      <4> QED
        BY <4>1, <4>2
    <3>5. n = 0 \/ (n # 0 /\ n < k) \/ n = k
      BY <2>1
    <3> QED
      BY <3>2, <3>3, <3>4, <3>5
  <2>6. g = h
    <3> HIDE DEF h
    <3>1. h = [n \in 0..k |-> h[n]]
      BY DEF h
    <3>2. g = [n \in 0..k |-> g[n]]
      OBVIOUS
    <3> HIDE DEF g
    <3> QED
      BY <2>5, <3>1, <3>2
  <2>7. Levels(o, k, g)
    BY <2>6 DEF Levels
  <2> QED
    BY <2>7
<1> QED
  BY <1>3, <1>4

\* Under(o) is the last of the levels.
LEMMA UnderIs == ASSUME NEW o PROVE \E g : Levels(o, MaxObjs, g) /\ Under(o) = g[MaxObjs]
<1>1. Under(o) = (CHOOSE g : Levels(o, MaxObjs, g))[MaxObjs]
  BY DEF Under, Levels, Down
<1>2. Levels(o, MaxObjs, CHOOSE g : Levels(o, MaxObjs, g))
  <2>1. \E g : Levels(o, MaxObjs, g)
    BY LevelsExist
  <2> HIDE DEF Levels
  <2> QED
    BY <2>1
<1> QED
  BY <1>1, <1>2

\* What is below o is in every set that has o and, with a folder, all that is in it.
LEMMA UnderClosed ==
    ASSUME NEW o, NEW S, o \in S,
           \A x \in Objs : drive[x].type # "free" /\ drive[x].parent \in S => x \in S
    PROVE  Under(o) \subseteq S
<1>1. PICK g : Levels(o, MaxObjs, g) /\ Under(o) = g[MaxObjs]
  BY UnderIs
<1> DEFINE Bad == {k \in 0..MaxObjs : ~(g[k] \subseteq S)}
<1>2. SUFFICES ASSUME Bad # {} PROVE FALSE
  BY <1>1, BoundAssumption
<1>3. PICK k \in Bad : \A j \in Bad : <<j, k>> \notin Less
  <2>1. Bad \subseteq Nat
    OBVIOUS
  <2> HIDE DEF Bad
  <2> QED
    BY <1>2, <2>1, LessIsWellFounded, WFMin
<1>4. k # 0
  BY <1>1, BoundAssumption DEF Levels
<1>5. k \in 0..MaxObjs /\ k - 1 \in 0..MaxObjs /\ k - 1 < k
  BY <1>4, BoundAssumption
<1>6. g[k] = Down(g[k - 1])
  BY <1>1, <1>4, <1>5 DEF Levels
<1>7. <<k - 1, k>> \in Less
  BY <1>5 DEF Less
<1>8. g[k - 1] \subseteq S
  BY <1>3, <1>5, <1>7
<1> QED
  BY <1>6, <1>8 DEF Down

\* What lies in o is below it, when there is an object at all.
LEMMA ChildIsUnder ==
    ASSUME NEW o, NEW x \in Objs, drive[x].type # "free", drive[x].parent = o
    PROVE  x \in Under(o)
<1>1. PICK g : Levels(o, MaxObjs, g) /\ Under(o) = g[MaxObjs]
  BY UnderIs
<1>2. MaxObjs >= 1
  BY BoundAssumption DEF Objs
<1> DEFINE Bad == {k \in 1..MaxObjs : ~({o, x} \subseteq g[k])}
<1>3. SUFFICES ASSUME Bad # {} PROVE FALSE
  BY <1>1, <1>2, BoundAssumption
<1>4. PICK k \in Bad : \A j \in Bad : <<j, k>> \notin Less
  <2>1. Bad \subseteq Nat
    OBVIOUS
  <2> HIDE DEF Bad
  <2> QED
    BY <1>3, <2>1, LessIsWellFounded, WFMin
<1>5. k \in 0..MaxObjs /\ k - 1 \in 0..MaxObjs /\ k - 1 < k /\ k # 0
  BY BoundAssumption
<1>6. g[k] = Down(g[k - 1])
  BY <1>1, <1>5 DEF Levels
<1>7. o \in g[k - 1]
  <2>1. CASE k = 1
    BY <1>1, <1>5, <2>1 DEF Levels
  <2>2. CASE k # 1
    <3>1. <<k - 1, k>> \in Less /\ k - 1 \in 1..MaxObjs
      BY <1>5, <2>2 DEF Less
    <3> QED
      BY <1>4, <3>1
  <2> QED
    BY <2>1, <2>2
<1> QED
  BY <1>6, <1>7 DEF Down

-----------------------------------------------------------------------------
(* The change gate: what holds besides                                     *)

\* No move and no failure spoils a Doc behind the ledger's back (each of these does:
\* the runs heal, anything and drift have them), and no page that may be archived is
\* the home of another.
Unspoilt ==
    /\ {"blink", "trash", "handedit", "restore", "refetch", "unreadable", "revert"}
          \cap Allowed = {}
    /\ \A p \in Pages : Home[p] \notin Archivable
    /\ "reparent" \in Allowed => \A p \in Archivable : Kind[p] \in {"action", "page"}

\* What lies in what: a Doc holds nothing, the folder of a page that may be archived
\* holds no folder.
InHand(p) == eng.pc \in {"doc", "body"} /\ eng.cur = p
Leaf(f)   == \E p \in Archivable : f = ledger[p].folder \/ (InHand(p) /\ f = eng.fid)
TreeOK    == \A x \in Objs : drive[x].type # "free" =>
                \/ drive[x].parent \in Fixed
                \/ drive[x].parent \in Objs /\ drive[drive[x].parent].type = "folder"
LeafOK    == \A x \in Objs : drive[x].type = "folder" => ~Leaf(drive[x].parent)

\* Such a page is above no other: not in Notion, and not in what the engine has read.
NotionOK == /\ \A p \in Pages \ Archivable : notion[p].alive
            /\ \A p \in Pages : notion[p].parent \notin Archivable
ReadOK   == \A p \in Pages : /\ eng.area[p] \notin Archivable
                             /\ eng.kids[p] \notin {Null, {}} => p \notin Archivable
VisitOK  == eng.job = "full" =>
              \A p \in Pages : (p \in eng.todo \/ (eng.pc = "folder" /\ p = eng.cur))
                                /\ Kind[p] = "page" => eng.under \notin Archivable

\* The folders the crawl has mirrored are live, and each is its page's alone.
CrawlOK == eng.pc \in ItemSteps \cup {"pick"} =>
             \A a \in Pages : eng.folderOf[a] # Null =>
                /\ IsLive(eng.folderOf[a]) /\ drive[eng.folderOf[a]].type = "folder"
                /\ Unclaimed(eng.folderOf[a], a)
                /\ \A p \in Pages \ {a} : InHand(p) => eng.folderOf[a] # eng.fid

\* The item in hand: its folder and Doc are live, and they are the ones the ledger
\* has if it has any; the text in hand is newer than the recorded one.
HandLive == /\ eng.pc \in {"doc", "body"} => IsLive(eng.fid)
            /\ eng.pc = "body" => IsLive(eng.did)
            /\ eng.pc \in {"body", "write", "record"} =>
                  eng.did \in Objs /\ Unclaimed(eng.did, eng.cur)
HandOK ==
    LET p == eng.cur IN
    eng.pc \in {"doc", "body", "write", "record"} /\ notion[p].alive =>
       /\ eng.pc = "doc" /\ ledger[p].doc # Null => ledger[p].folder = eng.fid
       /\ eng.pc = "body" => drive[eng.did].parent = eng.fid
       /\ eng.pc = "body" => ledger[p].doc \in {Null, eng.did}
       /\ eng.pc \in {"write", "record"} => eng.md \in Versions /\ eng.md <= notion[p].body
       /\ eng.pc = "write" /\ ledger[p].body # Null => ledger[p].body < eng.md
       /\ eng.pc = "record" => drive[eng.did].text = eng.md
       /\ eng.pc \in {"write", "record"} /\ ledger[p].known => ledger[p].doc = eng.did

\* A page of Notion has no Doc yet, or has it live in its live folder; the recorded
\* hash is then of what the Doc holds, or of an older body than the page's.
NoDoc(p)  == ledger[p].folder = Null /\ ledger[p].doc = Null /\ ledger[p].body = Null
Gate(p)   == ledger[p].body # Null =>
                /\ ledger[p].body \in Versions
                /\ \/ ledger[p].body < notion[p].body
                   \/ ledger[p].body = notion[p].body
                      /\ drive[ledger[p].doc].text = ledger[p].body
HasDoc(p) == /\ ledger[p].known /\ IsLive(ledger[p].folder) /\ IsLive(ledger[p].doc)
             /\ drive[ledger[p].doc].parent = ledger[p].folder
             /\ Gate(p)
PairOK  == \A p \in Alive : HasDoc(p) \/ NoDoc(p)

GateInv == /\ TreeOK /\ LeafOK /\ NotionOK /\ ReadOK /\ VisitOK
           /\ CrawlOK /\ HandLive /\ HandOK /\ PairOK

Crawl == ItemSteps \cup {"pick"}
Hold  == {"doc", "body", "write", "record"}

\* No move and no failure that Unspoilt excludes can be taken.
LEMMA NotAllowed ==
    ASSUME Unspoilt
    PROVE  \A m \in {"blink", "trash", "handedit", "restore", "refetch", "unreadable",
                     "revert"} : m \notin Allowed
  BY DEF Unspoilt

\* At startup there is no Drive object and no row.
LEMMA GateInit == ASSUME Unspoilt, Init PROVE GateInv
<1>1. \A p \in Pages : ledger[p] = NoRow /\ notion[p].alive /\ notion[p].parent = Home[p]
  BY DEF Init
<1>2. \A o \in Objs : drive[o].type = "free"
  BY DEF Init
<1>3. /\ eng.pc = "idle" /\ eng.job = "item"
      /\ \A p \in Pages : /\ eng.area[p] = Null /\ eng.kids[p] = Null
                          /\ eng.folderOf[p] = Null
  BY DEF Init, Idle
<1>4. Null \notin Archivable /\ \A p \in Pages : Home[p] \notin Archivable
  BY NullAssumption, BoundAssumption DEF Unspoilt
<1>5. TreeOK /\ LeafOK
  BY <1>2 DEF TreeOK, LeafOK
<1>6. NotionOK /\ ReadOK /\ VisitOK
  BY <1>1, <1>3, <1>4 DEF NotionOK, ReadOK, VisitOK
<1>7. CrawlOK /\ HandLive /\ HandOK
  BY <1>3 DEF CrawlOK, HandLive, HandOK, ItemSteps
<1>8. PairOK
  BY <1>1 DEF PairOK, NoDoc, NoRow, Alive
<1> QED
  BY <1>5, <1>6, <1>7, <1>8 DEF GateInv

-----------------------------------------------------------------------------
(* Steps of the engine that touch neither Drive nor a Doc's hash           *)

\* A SyncPair row keeps its ids and its body hash, or is deleted.
RowKept(p) == \/ ledger'[p] = NoRow
              \/ /\ ledger'[p].folder = ledger[p].folder /\ ledger'[p].doc = ledger[p].doc
                 /\ ledger'[p].body = ledger[p].body
                 /\ ledger[p].known => ledger'[p].known
Local == drive' = drive /\ notion' = notion /\ \A p \in Pages : RowKept(p)

\* With no Doc in hand afterwards, such a step leaves what is on Drive as sound as
\* it was.
LEMMA HandsFree ==
    ASSUME GateInv, Local, eng'.pc \notin Hold
    PROVE  TreeOK' /\ LeafOK' /\ NotionOK' /\ HandLive' /\ HandOK' /\ PairOK'
<1>1. TreeOK' /\ NotionOK'
  BY DEF GateInv, Local, TreeOK, NotionOK
<1>2. \A p \in Pages : ~InHand(p)'
  BY DEF InHand, Hold
<1>3. LeafOK'
  <2>1. ASSUME NEW x \in Objs, drive[x].type = "folder" PROVE drive[x].parent # Null
    BY <2>1, NullAssumption DEF GateInv, TreeOK
  <2> QED
    BY <1>2, <2>1, BoundAssumption DEF GateInv, Local, RowKept, NoRow, LeafOK, Leaf
<1>4. HandLive' /\ HandOK'
  BY DEF HandLive, HandOK, Hold
<1>5. PairOK'
  <2>1. Alive' = Alive
    BY DEF Local, Alive
  <2>2. ASSUME NEW p \in Alive PROVE (HasDoc(p) \/ NoDoc(p))'
    <3>1. p \in Pages /\ (HasDoc(p) \/ NoDoc(p))
      BY DEF GateInv, PairOK, Alive
    <3>2. CASE ledger'[p] = NoRow
      BY <3>2 DEF NoDoc, NoRow
    <3>3. CASE ledger'[p] # NoRow
      BY <3>1, <3>3 DEF Local, RowKept, HasDoc, NoDoc, Gate, IsLive
    <3> QED
      BY <3>2, <3>3
  <2> QED
    BY <2>1, <2>2 DEF PairOK
<1> QED
  BY <1>1, <1>3, <1>4, <1>5

\* Nothing becomes another page's.
LEMMA StillUnclaimed ==
    ASSUME \A p \in Pages : RowKept(p), NEW o \in Objs, NEW a \in Pages, Unclaimed(o, a)
    PROVE  \A p \in Pages \ {a} : o \notin {ledger'[p].folder, ledger'[p].doc}
  BY NullAssumption DEF RowKept, NoRow, Unclaimed

\* The folders the crawl has mirrored stay what they are.
LEMMA CrawlKept ==
    ASSUME GateInv, Local, eng'.pc \notin Hold,
           eng'.pc \in Crawl => eng.pc \in Crawl /\ eng'.folderOf = eng.folderOf
    PROVE  CrawlOK'
<1>1. SUFFICES ASSUME NEW a \in Pages, eng'.pc \in Crawl, eng'.folderOf[a] # Null
               PROVE  /\ IsLive(eng.folderOf[a])' /\ drive'[eng'.folderOf[a]].type = "folder"
                      /\ Unclaimed(eng.folderOf[a], a)'
  BY DEF CrawlOK, Crawl, InHand, Hold
<1> DEFINE f == eng.folderOf[a]
<1>2. IsLive(f) /\ drive[f].type = "folder" /\ Unclaimed(f, a) /\ eng'.folderOf[a] = f
  BY <1>1 DEF GateInv, CrawlOK, Crawl
<1>3. f \in Objs
  BY <1>2 DEF IsLive
<1> HIDE DEF f
<1>4. \A p \in Pages \ {a} : f \notin {ledger'[p].folder, ledger'[p].doc}
  BY <1>2, <1>3, StillUnclaimed DEF Local
<1> QED
  BY <1>2, <1>4 DEF Local, IsLive, Unclaimed

\* What the crawl has read and mirrored stays as it was.
SameCrawl == /\ eng'.area = eng.area /\ eng'.kids = eng.kids /\ eng'.job = eng.job
             /\ eng'.under = eng.under /\ eng'.folderOf = eng.folderOf
             /\ eng'.todo \subseteq eng.todo
             /\ eng'.pc \in Crawl => eng.pc \in Crawl

\* The engine goes on to another step, or ends an item.
LEMMA SameCrawlKept ==
    ASSUME GateInv, Local, SameCrawl, eng'.pc \notin Hold \cup {"folder"}
    PROVE  GateInv'
<1>2. ReadOK'
  BY DEF GateInv, ReadOK, SameCrawl
<1>3. VisitOK'
  BY DEF GateInv, VisitOK, SameCrawl
<1>4. CrawlOK'
  BY CrawlKept DEF SameCrawl
<1> QED
  BY <1>2, <1>3, <1>4, HandsFree DEF GateInv

\* The job is over.
LEMMA IdleKept == ASSUME GateInv, Local, eng' = Idle PROVE GateInv'
<1>1. /\ eng'.pc = "idle" /\ eng'.job = "item"
      /\ \A p \in Pages : eng'.area[p] = Null /\ eng'.kids[p] = Null
  BY DEF Idle
<1>2. Null \notin Archivable
  BY NullAssumption, BoundAssumption
<1>3. ReadOK' /\ VisitOK' /\ CrawlOK'
  BY <1>1, <1>2 DEF ReadOK, VisitOK, CrawlOK, ItemSteps
<1> QED
  BY <1>1, <1>3, HandsFree DEF GateInv, Hold

\* _mirror_item is done with an item, or skips it.
LEMMA FinishedKept ==
    ASSUME IInv, GateInv, Local, NEW done \in BOOLEAN, eng' = Finished(done), eng.pc \in ItemSteps
    PROVE  GateInv'
<1>1. CASE eng.job = "item"
  BY <1>1, IdleKept DEF Finished
<1>2. CASE eng.job # "item"
  <2>1. eng \in Engine
    BY DEF IInv, TypeOK
  <2>2. SameCrawl /\ eng'.pc = "pick"
    BY <1>2, <2>1 DEF Finished, SameCrawl, Engine, Crawl
  <2> QED
    BY <2>2, SameCrawlKept DEF Hold
<1> QED
  BY <1>1, <1>2

\* A job begins by reading Notion.
LEMMA StartGate ==
    ASSUME GateInv, StartFull \/ StartPoll \/ StartItem
    PROVE  GateInv'
<1>1. PICK job \in {"full", "poll", "item"}, ps \in SUBSET Pages :
          Start(job, ps) /\ (job = "full" => ps \subseteq TopLevel)
  <2>1. CASE StartFull
    <3> DEFINE ps == (Spine \cap Alive) \cup {p \in Pages : Kind[p] = "loose"}
    <3>1. ps \in SUBSET Pages /\ ps \subseteq TopLevel /\ Start("full", ps)
      BY <2>1 DEF StartFull, Spine, TopLevel
    <3> HIDE DEF ps
    <3> QED
      BY <3>1
  <2>2. CASE StartPoll
    <3>1. PICK ps \in {{}} \cup {{p} : p \in {q \in Alive : InScope(q)}} : Start("poll", ps)
      BY <2>2 DEF StartPoll
    <3>2. ps \in SUBSET Pages
      BY DEF Alive
    <3> QED
      BY <3>1, <3>2
  <2>3. CASE StartItem
    <3>1. PICK p \in Pages : Start("item", {p})
      BY <2>3 DEF StartItem
    <3> QED
      BY <3>1
  <2> QED
    BY <2>1, <2>2, <2>3
<1>2. /\ eng'.pc = "pick" /\ eng'.job = job /\ eng'.todo = ps /\ Local
      /\ \A p \in Pages : /\ eng'.area[p] = notion[p].parent /\ eng'.kids[p] = Null
                          /\ eng'.folderOf[p] = Null
  BY <1>1 DEF Start, Idle, Local, RowKept
<1>3. ReadOK'
  BY <1>2 DEF ReadOK, GateInv, NotionOK
<1>4. VisitOK' /\ CrawlOK'
  BY <1>1, <1>2 DEF VisitOK, CrawlOK, TopLevel
<1> QED
  BY <1>2, <1>3, <1>4, HandsFree DEF GateInv, Hold

\* The next item; a child page is read when it is met.
LEMMA PickGate == ASSUME IInv, GateInv, NEW p \in Pages, Pick(p) PROVE GateInv'
<1>1. eng \in Engine
  BY DEF IInv, TypeOK
<1>2. /\ eng.pc = "pick" /\ Local /\ p \in eng.todo
      /\ eng'.pc \in {"row", "folder"} /\ eng'.cur = p /\ eng'.todo = eng.todo \ {p}
      /\ eng'.kids = eng.kids /\ eng'.job = eng.job /\ eng'.under = eng.under
      /\ eng'.folderOf = eng.folderOf
  BY <1>1 DEF Pick, Engine, Local, RowKept, Quiet
<1>3. \A q \in Pages : eng'.area[q] \in {eng.area[q], notion[q].parent}
  BY <1>1 DEF Pick, Engine
<1>4. ReadOK'
  BY <1>2, <1>3 DEF ReadOK, GateInv, NotionOK
<1>5. VisitOK'
  BY <1>2 DEF VisitOK, GateInv
<1>7. CrawlOK'
  BY <1>2, CrawlKept DEF Crawl, Hold
<1> QED
  BY <1>2, <1>4, <1>5, <1>7, HandsFree DEF GateInv, Hold

\* A page whose children are visited has some, so it is none that may be archived.
LEMMA RecurseGate == ASSUME IInv, GateInv, NEW p \in Pages, Recurse(p) PROVE GateInv'
<1>1. eng \in Engine
  BY DEF IInv, TypeOK
<1>2. /\ eng.pc = "pick" /\ eng'.pc = "pick" /\ Local
      /\ eng'.under = p /\ eng'.todo = ToVisit(p) /\ eng'.job = eng.job
      /\ eng'.kids = eng.kids /\ eng'.area = eng.area /\ eng'.folderOf = eng.folderOf
  BY <1>1 DEF Recurse, Engine, Local, RowKept, Quiet
<1>3. ToVisit(p) # {} => p \notin Archivable
  <2>1. Children(p) # {} => p \notin Archivable
    BY DEF Children, Alive, GateInv, NotionOK
  <2>2. eng.kids[p] \notin {Null, {}} => p \notin Archivable
    BY DEF GateInv, ReadOK
  <2> QED
    BY <2>1, <2>2 DEF ToVisit, Listed
<1>4. ReadOK' /\ VisitOK'
  BY <1>2, <1>3 DEF ReadOK, VisitOK, GateInv
<1>6. CrawlOK'
  BY <1>2, CrawlKept DEF Crawl, Hold
<1> QED
  BY <1>2, <1>4, <1>6, HandsFree DEF GateInv, Hold

\* The row of the item, a failed item, the steps around the removal, and the end
\* of a reconcile with its purge.
LEMMA LocalGate ==
    ASSUME IInv, VerifiedDelete, GateInv,
           \/ Row \/ RecordRow \/ ItemFails \/ BeginRemove \/ (\E p \in Pages : Refetch(p))
           \/ ClearRow \/ RemoveFails \/ TombstonePair \/ EndRemove \/ EndFull \/ Crash
           \/ Skips
    PROVE  GateInv'
<1>1. eng \in Engine /\ ledger \in [Pages -> SyncPair]
  BY DEF IInv, TypeOK
<1>2. Local
  <2>1. ASSUME NEW p \in Pages PROVE RowKept(p)
    <3>1. CASE RecordRow
      BY <1>1, <3>1 DEF RecordRow, RowKept, SyncPair
    <3>2. CASE TombstonePair
      BY <1>1, <3>2 DEF TombstonePair, RowKept, SyncPair
    <3>3. CASE EndFull
      BY <3>3 DEF EndFull, RowKept
    <3>4. CASE ledger' = ledger
      BY <3>4 DEF RowKept
    <3> QED
      BY <3>1, <3>2, <3>3, <3>4, SkipsIs DEF Row, ItemFails, BeginRemove, Refetch, ClearRow,
         RemoveFails, EndRemove, Crash
  <2>2. drive' = drive /\ notion' = notion
    BY SkipsIs DEF Row, RecordRow, ItemFails, BeginRemove, Refetch, ClearRow, RemoveFails,
           TombstonePair, EndRemove, EndFull, Crash, Quiet
  <2> QED
    BY <2>1, <2>2 DEF Local
<1>3. CASE Row \/ RecordRow
  <2>1. CASE eng' = Finished(TRUE)
    BY <1>2, <1>3, <2>1, FinishedKept DEF Row, RecordRow, ItemSteps
  <2>2. CASE eng' = [eng EXCEPT !.pc = "rowrecord"] /\ eng.pc = "row"
    <3>1. SameCrawl /\ eng'.pc = "rowrecord"
      BY <1>1, <2>2 DEF SameCrawl, Engine, Crawl, ItemSteps
    <3> QED
      BY <1>2, <3>1, SameCrawlKept DEF Hold
  <2> QED
    BY <1>3, <2>1, <2>2 DEF Row, RecordRow
<1>4. CASE ItemFails
  BY <1>2, <1>4, FinishedKept DEF ItemFails, ItemSteps
<1>5. CASE BeginRemove \/ TombstonePair \/ (\E p \in Pages : Refetch(p))
  <2>1. SameCrawl /\ eng'.pc \in {"remove", "rmdoc"}
    <3>1. CASE BeginRemove
      <4>1. PICK rem : eng' = [eng EXCEPT !.pc = "remove", !.rem = rem]
        BY <3>1 DEF BeginRemove
      <4> QED
        BY <1>1, <4>1 DEF SameCrawl, Engine, Crawl, ItemSteps
    <3>2. CASE \E p \in Pages : Refetch(p)
      <4>1. PICK p, rem : /\ eng.pc = "remove"
                          /\ \/ eng' = [eng EXCEPT !.rem = rem]
                             \/ eng' = [eng EXCEPT !.rem = rem, !.cur = p, !.pc = "rmdoc"]
        BY <3>2 DEF Refetch
      <4> QED
        BY <1>1, <4>1 DEF SameCrawl, Engine, Crawl, ItemSteps
    <3>3. CASE TombstonePair
      BY <1>1, <3>3 DEF TombstonePair, SameCrawl, Engine, Crawl, ItemSteps
    <3> QED
      BY <1>5, <3>1, <3>2, <3>3
  <2> QED
    BY <1>2, <2>1, SameCrawlKept DEF Hold
<1>6. CASE ClearRow \/ RemoveFails
  <2>1. SameCrawl /\ eng'.pc = "tombstone"
    BY <1>1, <1>6 DEF ClearRow, RemoveFails, SameCrawl, Engine, Crawl, ItemSteps
  <2> QED
    BY <1>2, <2>1, SameCrawlKept DEF Hold
<1>7. CASE EndRemove \/ EndFull \/ Crash
  <2>1. CASE eng' = Idle
    BY <1>2, <2>1, IdleKept
  <2>2. CASE eng' = [eng EXCEPT !.pc = "prune"]
    <3>1. SameCrawl /\ eng'.pc = "prune"
      BY <1>1, <2>2 DEF SameCrawl, Engine, Crawl, ItemSteps
    <3> QED
      BY <1>2, <3>1, SameCrawlKept DEF Hold
  <2> QED
    BY <1>7, <2>1, <2>2 DEF EndRemove, EndFull, Crash
<1>8. CASE Skips
  <2>1. SameCrawl /\ eng'.pc \in RemoveSteps \cup {"pick"}
    BY <1>8, SkipsIs DEF SameCrawl, Crawl, ItemSteps, RemoveSteps
  <2> QED
    BY <1>2, <2>1, SameCrawlKept DEF Hold, RemoveSteps
<1> QED
  BY <1>3, <1>4, <1>5, <1>6, <1>7, <1>8

-----------------------------------------------------------------------------
(* Steps that write the ledger                                             *)

\* upsert_pair gives the pair the folder and the Doc that were resolved; if the pair
\* had a Doc it had these, so its hash is still that of what they hold.
LEMMA FetchBodyGate ==
    ASSUME Unspoilt, IInv, GateInv, FetchBody
    PROVE  GateInv'
<1> DEFINE p == eng.cur
           f == eng.fid
           d == eng.did
           md == notion[p].body
<1>1. /\ eng.pc = "body" /\ p \in Pages /\ f \in Objs /\ d \in Objs
      /\ drive[f].type = "folder" /\ Unclaimed(f, p) /\ drive[d].type = "doc" /\ Unclaimed(d, p)
      /\ eng \in Engine /\ ledger \in [Pages -> SyncPair] /\ md \in Versions
  BY DEF FetchBody, IInv, TypeOK, CurOK, FolderOK, DocOK, ItemSteps, Notion
<1>2. /\ drive' = drive /\ notion' = notion
      /\ ledger' = [ledger EXCEPT ![p] = Upserted(p, md)]
      /\ eng' = [eng EXCEPT !.md = md, !.kids[p] = IF md = Unreadable THEN {} ELSE Children(p),
                            !.pc = IF ledger[p].body # md THEN "write" ELSE "row"]
  BY NotAllowed DEF FetchBody
<1>3. /\ \A q \in Pages \ {p} : ledger'[q] = ledger[q]
      /\ ledger'[p].known /\ ledger'[p].folder = f /\ ledger'[p].doc = d
      /\ ledger'[p].body = ledger[p].body
  BY <1>1, <1>2 DEF Upserted, SyncPair
<1>4. /\ eng'.pc = (IF ledger[p].body # md THEN "write" ELSE "row") /\ eng'.md = md
      /\ eng'.cur = p /\ eng'.did = d /\ eng'.area = eng.area /\ eng'.job = eng.job
      /\ eng'.under = eng.under /\ eng'.todo = eng.todo /\ eng'.folderOf = eng.folderOf
      /\ \A q \in Pages \ {p} : eng'.kids[q] = eng.kids[q]
      /\ eng'.kids[p] \in {{}, Children(p)}
  BY <1>1, <1>2 DEF Engine
<1> HIDE DEF p, f, d, md
<1>5. TreeOK' /\ NotionOK'
  BY <1>2 DEF GateInv, TreeOK, NotionOK
<1>6. LeafOK'
  <2>1. ASSUME NEW x \in Objs, drive[x].type = "folder", NEW q \in Archivable,
               drive[x].parent = ledger'[q].folder
        PROVE  Leaf(drive[x].parent)
    BY <2>1, <1>1, <1>3, BoundAssumption DEF Leaf, InHand, p, f
  <2>2. \A q \in Pages : ~InHand(q)'
    BY <1>4 DEF InHand
  <2> QED
    BY <2>1, <2>2, <1>2, BoundAssumption DEF GateInv, LeafOK, Leaf
<1>7. ReadOK'
  BY <1>4 DEF GateInv, ReadOK, NotionOK, Children, Alive
<1>8. VisitOK'
  BY <1>4 DEF GateInv, VisitOK
<1>9. CrawlOK'
  <2>1. SUFFICES ASSUME NEW a \in Pages, eng.folderOf[a] # Null
                 PROVE  \A q \in Pages \ {a} :
                           eng.folderOf[a] \notin {ledger'[q].folder, ledger'[q].doc}
    BY <1>1, <1>2, <1>4 DEF GateInv, CrawlOK, ItemSteps, IsLive, Unclaimed, InHand
  <2>2. /\ drive[eng.folderOf[a]].type = "folder" /\ Unclaimed(eng.folderOf[a], a)
        /\ a # p => eng.folderOf[a] # f
    BY <1>1, <2>1 DEF GateInv, CrawlOK, ItemSteps, InHand, p, f
  <2> QED
    BY <1>1, <1>3, <2>2 DEF Unclaimed
<1>10. HandLive'
  BY <1>1, <1>3, <1>4 DEF HandLive, Unclaimed
<1>11. notion[p].alive => HasDoc(p) \/ NoDoc(p)
  BY <1>1 DEF GateInv, PairOK, Alive
<1>12. HandOK'
  <2>1. SUFFICES ASSUME notion[p].alive, eng'.pc = "write", ledger[p].body # Null
                 PROVE  ledger[p].body < md
    BY <1>1, <1>2, <1>3, <1>4 DEF HandOK, md, Versions
  <2> QED
    BY <2>1, <1>4, <1>11 DEF HasDoc, NoDoc, Gate, md
<1>13. PairOK'
  <2>1. SUFFICES ASSUME NEW q \in Alive PROVE (HasDoc(q) \/ NoDoc(q))'
    BY <1>2 DEF PairOK, Alive
  <2>2. q \in Pages /\ (HasDoc(q) \/ NoDoc(q))
    BY DEF GateInv, PairOK, Alive
  <2>3. CASE q # p
    BY <1>2, <1>3, <2>2, <2>3 DEF HasDoc, NoDoc, Gate, IsLive
  <2>4. CASE q = p
    <3>1. /\ IsLive(f) /\ IsLive(d) /\ drive[d].parent = f /\ ledger[p].doc \in {Null, d}
      BY <1>1, <2>4 DEF GateInv, HandLive, HandOK, Alive, p, f, d
    <3>2. ledger[p].body # Null => ledger[p].doc = d /\ Gate(p)
      BY <2>2, <2>4, <3>1, NullAssumption DEF HasDoc, NoDoc, IsLive
    <3> QED
      BY <1>2, <1>3, <2>4, <3>1, <3>2 DEF HasDoc, Gate, IsLive
  <2> QED
    BY <2>3, <2>4
<1> QED
  BY <1>5, <1>6, <1>7, <1>8, <1>9, <1>10, <1>12, <1>13 DEF GateInv

\* record_source comes after the write, so the hash it records is of what the Doc holds.
LEMMA RecordBodyGate ==
    ASSUME IInv, GateInv, RecordBody
    PROVE  GateInv'
<1> DEFINE p == eng.cur
<1>1. /\ eng.pc = "record" /\ p \in Pages /\ ledger[p].known
      /\ eng \in Engine /\ ledger \in [Pages -> SyncPair]
  BY DEF RecordBody, IInv, TypeOK, CurOK, ItemSteps
<1>2. drive' = drive /\ notion' = notion /\ ledger' = [ledger EXCEPT ![p].body = eng.md]
  BY DEF RecordBody, Quiet
<1>3. /\ \A q \in Pages : /\ ledger'[q].folder = ledger[q].folder
                          /\ ledger'[q].doc = ledger[q].doc
                          /\ ledger'[q].known = ledger[q].known
      /\ \A q \in Pages \ {p} : ledger'[q].body = ledger[q].body
      /\ ledger'[p].body = eng.md
  BY <1>1, <1>2 DEF SyncPair
<1>4. /\ eng'.pc = "row" /\ eng'.area = eng.area /\ eng'.kids = eng.kids /\ eng'.job = eng.job
      /\ eng'.under = eng.under /\ eng'.todo = eng.todo /\ eng'.folderOf = eng.folderOf
  BY <1>1 DEF RecordBody, Engine
<1>5. TreeOK' /\ NotionOK' /\ ReadOK' /\ VisitOK'
  BY <1>2, <1>4 DEF GateInv, TreeOK, NotionOK, ReadOK, VisitOK
<1>6. \A q \in Pages : ~InHand(q)'
  BY <1>4 DEF InHand
<1>7. LeafOK'
  BY <1>2, <1>3, <1>6, BoundAssumption DEF GateInv, LeafOK, Leaf
<1>8. CrawlOK'
  BY <1>1, <1>2, <1>3, <1>4, <1>6 DEF GateInv, CrawlOK, ItemSteps, IsLive, Unclaimed
<1>9. HandLive' /\ HandOK'
  BY <1>4 DEF HandLive, HandOK
<1>10. PairOK'
  <2>1. SUFFICES ASSUME NEW q \in Alive PROVE (HasDoc(q) \/ NoDoc(q))'
    BY <1>2 DEF PairOK, Alive
  <2>2. q \in Pages /\ (HasDoc(q) \/ NoDoc(q))
    BY DEF GateInv, PairOK, Alive
  <2>3. CASE q # p
    BY <1>2, <1>3, <2>2, <2>3 DEF HasDoc, NoDoc, Gate, IsLive
  <2>4. CASE q = p
    <3>1. /\ eng.md \in Versions /\ eng.md <= notion[p].body
          /\ drive[eng.did].text = eng.md /\ ledger[p].doc = eng.did /\ eng.did \in Objs
      BY <1>1, <2>4 DEF GateInv, HandOK, HandLive, Alive
    <3>2. HasDoc(p)
      BY <2>2, <2>4, <3>1, NullAssumption DEF NoDoc
    <3>3. notion[p].body \in Nat /\ eng.md \in Nat
      BY <1>1, <3>1 DEF IInv, TypeOK, Notion, Versions
    <3>4. eng.md < notion[p].body \/ eng.md = notion[p].body
      BY <3>1, <3>3
    <3> QED
      BY <1>2, <1>3, <2>4, <3>1, <3>2, <3>4 DEF HasDoc, Gate, IsLive
  <2> QED
    BY <2>3, <2>4
<1> QED
  BY <1>5, <1>7, <1>8, <1>9, <1>10 DEF GateInv

-----------------------------------------------------------------------------
(* The environment                                                         *)

\* What Notion's users do: bodies get newer, only archivable pages are archived, and
\* no page is put below one of these.
Onwards == /\ \A p \in Pages : /\ notion[p].body <= notion'[p].body
                               /\ notion'[p].alive => notion[p].alive
                               /\ notion'[p].parent \notin Archivable
           /\ \A p \in Pages \ Archivable : notion'[p].alive

\* An edit, an archiving or a move in Notion is one of these.
LEMMA MovesOnwards ==
    ASSUME Unspoilt, IInv, GateInv, EditBody \/ EditProp \/ Archive \/ Reparent
    PROVE  Onwards
<1>1. notion \in [Pages -> Notion] /\ \A p \in Pages : notion[p].body \in Nat
  BY DEF IInv, TypeOK, Notion, Versions
<1>2. CASE EditBody
  <2>1. PICK p \in Alive, new \in Versions :
            /\ new > notion[p].body
            /\ notion' = [notion EXCEPT ![p].body = new]
    BY <1>2, NotAllowed DEF EditBody, Older
  <2>2. \A q \in Pages : /\ notion'[q].alive = notion[q].alive
                         /\ notion'[q].parent = notion[q].parent
                         /\ notion'[q].body = IF q = p THEN new ELSE notion[q].body
    BY <1>1, <2>1 DEF Notion
  <2>3. new \in Nat
    BY DEF Versions
  <2> QED
    BY <1>1, <2>1, <2>2, <2>3 DEF Onwards, GateInv, NotionOK
<1>3. CASE EditProp
  <2>1. \A q \in Pages : /\ notion'[q].alive = notion[q].alive
                         /\ notion'[q].parent = notion[q].parent
                         /\ notion'[q].body = notion[q].body
    BY <1>1, <1>3 DEF EditProp, Notion
  <2> QED
    BY <1>1, <2>1 DEF Onwards, GateInv, NotionOK
<1>4. CASE Archive
  <2>1. PICK p \in Alive \cap Archivable : notion' = [notion EXCEPT ![p].alive = FALSE]
    BY <1>4 DEF Archive
  <2>2. \A q \in Pages : /\ notion'[q].parent = notion[q].parent
                         /\ notion'[q].body = notion[q].body
                         /\ notion'[q].alive => notion[q].alive
                         /\ q # p => notion'[q].alive = notion[q].alive
    BY <1>1, <2>1 DEF Notion
  <2> QED
    BY <1>1, <2>1, <2>2 DEF Onwards, GateInv, NotionOK
<1>5. CASE Reparent
  <2>1. PICK p \in Alive, q \in Alive \cup {Null} :
            /\ "reparent" \in Allowed
            /\ q # Null => Kind[q] \in {"area", "project", "loose"}
            /\ notion' = [notion EXCEPT ![p].parent = q]
    BY <1>5 DEF Reparent, Move
  <2>2. q \notin Archivable
    BY <2>1, NullAssumption, BoundAssumption DEF Unspoilt
  <2>3. \A r \in Pages : /\ notion'[r].parent \in {notion[r].parent, q}
                         /\ notion'[r].body = notion[r].body
                         /\ notion'[r].alive = notion[r].alive
    BY <1>1, <2>1 DEF Notion
  <2> QED
    BY <1>1, <2>2, <2>3 DEF Onwards, GateInv, NotionOK
<1> QED
  BY <1>2, <1>3, <1>4, <1>5

\* The environment's moves leave the gate sound: a newer body is one the recorded
\* hash is not of, and after a reset there is no hash.
LEMMA EnvironmentGate ==
    ASSUME Unspoilt, IInv, GateInv, Environment
    PROVE  GateInv'
<1>1. eng' = eng /\ drive' = drive
  BY NotAllowed DEF Environment, EditBody, EditProp, Archive, Restore, Reparent, TrashByHand,
     EditDocByHand, ResetLedger, Move
<1>2. \/ ledger' = ledger /\ (EditBody \/ EditProp \/ Archive \/ Reparent)
      \/ ResetLedger
  BY NotAllowed DEF Environment, EditBody, EditProp, Archive, Restore, Reparent, TrashByHand,
     EditDocByHand, ResetLedger, Move
<1>3. TreeOK' /\ ReadOK' /\ VisitOK'
  BY <1>1 DEF GateInv, TreeOK, ReadOK, VisitOK
<1>4. CASE ledger' = ledger /\ Onwards
  <2>1. NotionOK'
    BY <1>4 DEF NotionOK, Onwards
  <2>2. LeafOK' /\ CrawlOK' /\ HandLive'
    BY <1>1, <1>4 DEF GateInv, LeafOK, Leaf, InHand, CrawlOK, HandLive, IsLive, Unclaimed
  <2>3. /\ \A p \in Pages : notion[p].body \in Nat /\ notion'[p].body \in Nat
        /\ Versions \subseteq Nat
    BY EnvironmentInv DEF IInv, TypeOK, Notion, Versions
  <2>4. HandOK'
    <3>1. SUFFICES ASSUME eng.pc \in {"doc", "body", "write", "record"},
                          notion'[eng.cur].alive
                   PROVE  eng.pc \in {"write", "record"} =>
                             eng.md \in Versions /\ eng.md <= notion'[eng.cur].body
      <4>1. eng.pc \in {"doc", "body", "write", "record"} => eng.cur \in Pages
        BY DEF IInv, CurOK, ItemSteps
      <4> QED
        BY <1>1, <1>4, <4>1 DEF GateInv, HandOK, Onwards
    <3>2. eng.cur \in Pages
      BY <3>1 DEF IInv, CurOK, ItemSteps
    <3>3. eng.pc \in {"write", "record"} =>
             eng.md \in Versions /\ eng.md <= notion[eng.cur].body
      BY <1>4, <3>1, <3>2 DEF GateInv, HandOK, Onwards
    <3>4. notion[eng.cur].body <= notion'[eng.cur].body
      BY <1>4, <3>2 DEF Onwards
    <3>5. SUFFICES ASSUME eng.pc \in {"write", "record"}
                   PROVE  eng.md \in Versions /\ eng.md <= notion'[eng.cur].body
      OBVIOUS
    <3>6. eng.md \in Versions /\ eng.md \in Nat /\ eng.md <= notion[eng.cur].body
      BY <2>3, <3>3, <3>5
    <3> QED
      BY <2>3, <3>2, <3>4, <3>6
  <2>5. PairOK'
    <3>1. SUFFICES ASSUME NEW p \in Pages, notion[p].alive
                   PROVE  (HasDoc(p) \/ NoDoc(p))'
      BY <1>4 DEF PairOK, Alive, Onwards
    <3>2. HasDoc(p) \/ NoDoc(p)
      BY <3>1 DEF GateInv, PairOK, Alive
    <3>3. CASE NoDoc(p)
      BY <1>4, <3>3 DEF NoDoc
    <3>4. CASE HasDoc(p)
      <4>1. Gate(p)'
        <5>1. SUFFICES ASSUME ledger[p].body # Null
                       PROVE  /\ ledger[p].body \in Versions
                              /\ \/ ledger[p].body < notion'[p].body
                                 \/ /\ ledger[p].body = notion'[p].body
                                    /\ drive[ledger[p].doc].text = ledger[p].body
          BY <1>1, <1>4 DEF Gate
        <5>2. /\ ledger[p].body \in Versions
              /\ \/ ledger[p].body < notion[p].body
                 \/ /\ ledger[p].body = notion[p].body
                    /\ drive[ledger[p].doc].text = ledger[p].body
          BY <3>4, <5>1 DEF HasDoc, Gate
        <5>3. notion[p].body <= notion'[p].body
          BY <1>4 DEF Onwards
        <5>4. ledger[p].body \in Nat
          BY <2>3, <5>2
        <5>5. CASE notion[p].body = notion'[p].body
          BY <5>2, <5>5
        <5>6. CASE notion[p].body # notion'[p].body
          <6>1. ledger[p].body < notion'[p].body
            BY <2>3, <5>2, <5>3, <5>4, <5>6
          <6> QED
            BY <5>2, <6>1
        <5> QED
          BY <5>5, <5>6
      <4> QED
        BY <1>1, <1>4, <3>4, <4>1 DEF HasDoc, IsLive
    <3> QED
      BY <3>2, <3>3, <3>4
  <2> QED
    BY <1>3, <2>1, <2>2, <2>4, <2>5 DEF GateInv
<1>5. CASE ResetLedger
  <2>1. notion' = notion /\ \A p \in Pages : ledger'[p] = NoRow
    BY <1>5 DEF ResetLedger
  <2>2. NotionOK'
    BY <2>1 DEF GateInv, NotionOK
  <2>3. \A x \in Objs : drive[x].type = "folder" => drive[x].parent # Null
    BY NullAssumption DEF GateInv, TreeOK
  <2>4. LeafOK'
    BY <1>1, <2>1, <2>3, BoundAssumption DEF GateInv, LeafOK, Leaf, InHand, NoRow
  <2>5. \A o \in Objs, p \in Pages : \A q \in Pages \ {p} :
           o \notin {ledger'[q].folder, ledger'[q].doc}
    BY <2>1, NullAssumption DEF NoRow
  <2>6. CrawlOK' /\ HandLive'
    BY <1>1, <2>5 DEF GateInv, CrawlOK, HandLive, InHand, IsLive, Unclaimed, IInv, CurOK, ItemSteps
  <2>7. HandOK'
    <3>1. eng.pc \in {"doc", "body", "write", "record"} => eng.cur \in Pages
      BY DEF IInv, CurOK, ItemSteps
    <3> QED
      BY <1>1, <2>1, <3>1 DEF GateInv, HandOK, NoRow
  <2>8. PairOK'
    BY <2>1 DEF PairOK, NoDoc, NoRow, Alive
  <2> QED
    BY <1>3, <2>2, <2>4, <2>6, <2>7, <2>8 DEF GateInv
<1> QED
  BY <1>2, <1>4, <1>5, MovesOnwards
-----------------------------------------------------------------------------
(* Steps that write to Drive                                               *)

\* The text of a Doc is newer than the recorded hash until record_source.
LEMMA WriteDocGate == ASSUME IInv, GateInv, WriteDoc PROVE GateInv'
<1> DEFINE p == eng.cur
           d == eng.did
<1>1. /\ eng.pc = "write" /\ p \in Pages /\ eng \in Engine /\ drive \in [Objs -> File]
      /\ d \in Objs /\ Unclaimed(d, p)
  BY DEF WriteDoc, IInv, TypeOK, CurOK, ItemSteps, GateInv, HandLive
<1>2. ledger' = ledger /\ notion' = notion /\ drive' = [drive EXCEPT ![d].text = eng.md]
  BY DEF WriteDoc, Quiet
<1>3. /\ \A x \in Objs : /\ drive'[x].type = drive[x].type
                         /\ drive'[x].parent = drive[x].parent
                         /\ drive'[x].trashed = drive[x].trashed
      /\ \A x \in Objs \ {d} : drive'[x].text = drive[x].text
      /\ drive'[d].text = eng.md
  BY <1>1, <1>2 DEF File
<1>4. /\ eng'.pc = "record" /\ eng'.area = eng.area /\ eng'.kids = eng.kids /\ eng'.job = eng.job
      /\ eng'.under = eng.under /\ eng'.todo = eng.todo /\ eng'.folderOf = eng.folderOf
      /\ eng'.cur = p /\ eng'.did = d /\ eng'.md = eng.md
  BY <1>1 DEF WriteDoc, Engine
<1> HIDE DEF p, d
<1>5. TreeOK' /\ NotionOK' /\ ReadOK' /\ VisitOK'
  BY <1>2, <1>3, <1>4 DEF GateInv, TreeOK, NotionOK, ReadOK, VisitOK
<1>6. \A q \in Pages : ~InHand(q)'
  BY <1>4 DEF InHand
<1>7. LeafOK'
  BY <1>2, <1>3, <1>6, BoundAssumption DEF GateInv, LeafOK, Leaf
<1>8. CrawlOK'
  BY <1>1, <1>2, <1>3, <1>4, <1>6 DEF GateInv, CrawlOK, ItemSteps, IsLive, Unclaimed
<1>9. HandLive'
  BY <1>1, <1>2, <1>4 DEF HandLive, Unclaimed
<1>10. notion[p].alive =>
          /\ eng.md \in Versions /\ eng.md <= notion[p].body
          /\ ledger[p].body # Null => ledger[p].body < eng.md
          /\ ledger[p].known => ledger[p].doc = d
  BY <1>1 DEF GateInv, HandOK, p, d
<1>11. HandOK'
  BY <1>2, <1>3, <1>4, <1>10 DEF HandOK
<1>12. PairOK'
  <2>1. SUFFICES ASSUME NEW q \in Alive PROVE (HasDoc(q) \/ NoDoc(q))'
    BY <1>2 DEF PairOK, Alive
  <2>2. q \in Pages /\ (HasDoc(q) \/ NoDoc(q))
    BY DEF GateInv, PairOK, Alive
  <2>3. CASE NoDoc(q)
    BY <1>2, <2>3 DEF NoDoc
  <2>4. CASE HasDoc(q)
    <3>1. Gate(q)'
      <4>1. CASE q # p
        <5>1. ledger[q].doc # d /\ ledger[q].doc \in Objs
          BY <1>1, <2>2, <2>4, <4>1 DEF Unclaimed, HasDoc, IsLive
        <5> QED
          BY <1>2, <1>3, <2>4, <5>1 DEF HasDoc, Gate
      <4>2. CASE q = p /\ ledger[p].body # Null
        <5>1. /\ eng.md \in Nat /\ notion[p].body \in Nat /\ ledger[p].body \in Nat
              /\ ledger[p].body \in Versions
          BY <1>1, <1>10, <2>4, <4>2 DEF IInv, TypeOK, Notion, Versions, Alive, HasDoc, Gate
        <5>2. ledger[p].body < eng.md /\ eng.md <= notion[p].body
          BY <1>10, <4>2 DEF Alive
        <5>3. ledger[p].body < notion[p].body
          BY <5>1, <5>2
        <5> QED
          BY <1>2, <4>2, <5>1, <5>3 DEF Gate
      <4>3. CASE q = p /\ ledger[p].body = Null
        BY <1>2, <4>3 DEF Gate
      <4> QED
        BY <4>1, <4>2, <4>3
    <3> QED
      BY <1>2, <1>3, <2>4, <3>1 DEF HasDoc, IsLive
  <2> QED
    BY <2>2, <2>3, <2>4
<1> QED
  BY <1>5, <1>7, <1>8, <1>9, <1>11, <1>12 DEF GateInv

\* A page of Notion with a folder has it live, and it is no other page's.
LEMMA LiveFolder ==
    ASSUME IInv, GateInv, NEW a \in Alive, ledger[a].folder # Null
    PROVE  /\ IsLive(ledger[a].folder) /\ drive[ledger[a].folder].type = "folder"
           /\ Unclaimed(ledger[a].folder, a)
<1>1. a \in Pages /\ IsLive(ledger[a].folder)
  BY DEF GateInv, PairOK, HasDoc, NoDoc, Alive
<1>2. drive[ledger[a].folder].type = "folder"
  BY <1>1 DEF IInv, OwnObjects
<1>3. Unclaimed(ledger[a].folder, a)
  BY <1>1 DEF IInv, OwnObjects, Unclaimed
<1> QED
  BY <1>1, <1>2, <1>3

GoodHome(home) ==
    \/ home \in Fixed
    \/ /\ IsLive(home) /\ drive[home].type = "folder"
       /\ \E a \in Pages \ Archivable : Unclaimed(home, a)

\* An item goes to a standing folder, or to the live folder of a page that no one
\* may archive (_section_folder_for, _area_folder_for).
LEMMA HomeIsGood ==
    ASSUME IInv, GateInv, eng.pc = "folder"
    PROVE  GoodHome(ParentFolder(eng.cur))
<1> DEFINE p == eng.cur
<1>1. p \in Pages /\ Kind[p] \in Kinds \ {"action"} /\ eng \in Engine
  BY KindAssumption DEF IInv, TypeOK, CurOK, UnderOK, ItemSteps
<1>2. Unsorted \in Fixed /\ Root \in Fixed /\ AreasFolder \in Fixed /\ SectionFolder \in Fixed
  BY DEF Fixed
<1>3. ASSUME NEW a \in Pages \ Archivable, ledger[a].folder # Null
      PROVE  GoodHome(ledger[a].folder)
  <2>1. a \in Alive
    BY DEF GateInv, NotionOK, Alive
  <2> QED
    BY <1>3, <2>1, LiveFolder DEF GoodHome
<1>4. ASSUME NEW a \in Pages \ Archivable, eng.folderOf[a] # Null
      PROVE  GoodHome(eng.folderOf[a])
  BY <1>4 DEF GateInv, CrawlOK, ItemSteps, GoodHome
<1>5. eng.area[p] # Null => eng.area[p] \in Pages \ Archivable
  BY <1>1 DEF GateInv, ReadOK, Engine
<1>6. GoodHome(AreaFolder(p))
  <2>1. GoodHome(Unsorted)
    BY <1>2 DEF GoodHome
  <2> QED
    BY <1>3, <1>4, <1>5, <2>1 DEF AreaFolder
<1>7. GoodHome(PageFolder(p))
  <2>1. GoodHome(Root)
    BY <1>2 DEF GoodHome
  <2> QED
    BY <1>3, <1>5, <2>1 DEF PageFolder
<1>8. Kind[p] = "page" /\ eng.job = "full" => GoodHome(eng.folderOf[eng.under])
  BY <1>1, <1>4 DEF IInv, UnderOK, GateInv, VisitOK
<1>9. GoodHome(AreasFolder) /\ GoodHome(SectionFolder)
  BY <1>2 DEF GoodHome
<1> HIDE DEF p
<1>10. GoodHome(ParentFolder(p))
  BY <1>1, <1>6, <1>7, <1>8, <1>9 DEF ParentFolder, Kinds
<1> QED
  BY <1>10 DEF p

\* _resolve_folder: the folder it settles on is live, the page's own or new, and
\* in a good home or where it was; no other object changes.
ResolvedTo(f, home) ==
    /\ f \in Objs /\ drive'[f].type = "folder" /\ ~drive'[f].trashed
    /\ f = ledger[eng.cur].folder \/ (drive[f].type = "free" /\ drive'[f].parent = home)
    /\ IsLive(ledger[eng.cur].folder) => f = ledger[eng.cur].folder
    /\ drive'[f].parent \in {drive[f].parent, home}
    /\ \A x \in Objs \ {f} : drive'[x] = drive[x]

\* What ResolveFolder does to Drive, with no failure that looks like a trashed folder.
LEMMA FolderResolved ==
    ASSUME Unspoilt, IInv, GateInv, ResolveFolder
    PROVE  \E f \in Objs :
             /\ ResolvedTo(f, ParentFolder(eng.cur))
             /\ eng' = [eng EXCEPT !.pc = "doc", !.parent = ParentFolder(eng.cur), !.fid = f]
<1> DEFINE p == eng.cur
           home == ParentFolder(p)
           old == ledger[p].folder
<1>1. /\ eng.pc = "folder" /\ p \in Pages /\ drive \in [Objs -> File]
      /\ home \in Objs \cup Fixed
  BY ParentFolderType DEF ResolveFolder, IInv, TypeOK, CurOK, ItemSteps
<1>2. ~InTrash(home)
  BY <1>1, HomeIsGood, FixedAssumption DEF GoodHome, InTrash, IsLive
<1>3. CASE IsLive(old) /\ drive' = (IF Moves(p, home) THEN MovedTo(old, home) ELSE drive)
           /\ eng' = [eng EXCEPT !.pc = "doc", !.parent = home, !.fid = old]
  <2>1. old \in Objs /\ drive[old].type = "folder"
    BY <1>1, <1>3, NullAssumption DEF IsLive, IInv, OwnObjects
  <2>2. /\ drive'[old].type = "folder" /\ drive'[old].trashed = drive[old].trashed
        /\ drive'[old].parent \in {drive[old].parent, home}
        /\ \A x \in Objs \ {old} : drive'[x] = drive[x]
    <3>1. CASE drive' = drive
      BY <2>1, <3>1
    <3>2. CASE drive' = MovedTo(old, home)
      <4>1. ASSUME NEW x \in Objs
            PROVE  /\ drive'[x].type = drive[x].type
                   /\ drive'[x].trashed = drive[x].trashed
                   /\ drive'[x].parent = IF x = old THEN home ELSE drive[x].parent
                   /\ x # old => drive'[x] = drive[x]
        <5> DEFINE h == IF x = old THEN home ELSE drive[x].parent
                   b == drive[x].trashed \/ (x \in Under(old) /\ InTrash(home))
        <5>1. drive[x] \in File
          BY <1>1
        <5>2. drive'[x] = [drive[x] EXCEPT !.parent = h, !.trashed = b]
          BY <3>2 DEF MovedTo
        <5>3. b = drive[x].trashed
          <6>1. drive[x].trashed \in BOOLEAN
            BY <5>1 DEF File
          <6> QED
            BY <6>1, <1>2
        <5> HIDE DEF h, b
        <5>4. h = IF x = old THEN home ELSE drive[x].parent
          BY DEF h
        <5>5. /\ drive'[x].type = drive[x].type
              /\ drive'[x].trashed = b /\ drive'[x].parent = h
          BY <5>1, <5>2 DEF File
        <5>6. h = drive[x].parent => drive'[x] = drive[x]
          <6>1. [drive[x] EXCEPT !.parent = drive[x].parent] = drive[x]
            BY <5>1 DEF File
          <6>2. [drive[x] EXCEPT !.trashed = drive[x].trashed] = drive[x]
            BY <5>1 DEF File
          <6>3. ASSUME h = drive[x].parent
                PROVE  drive'[x] = [drive[x] EXCEPT !.parent = drive[x].parent,
                                                    !.trashed = drive[x].trashed]
            BY <5>2, <5>3, <6>3
          <6>4. [drive[x] EXCEPT !.parent = drive[x].parent, !.trashed = drive[x].trashed]
                   = [[drive[x] EXCEPT !.parent = drive[x].parent]
                          EXCEPT !.trashed = drive[x].trashed]
            OBVIOUS
          <6> QED
            BY <6>1, <6>2, <6>3, <6>4
        <5> HIDE DEF home, old
        <5> QED
          BY <5>3, <5>4, <5>5, <5>6
      <4> QED
        BY <2>1, <4>1
    <3> QED
      BY <1>3, <3>1, <3>2
  <2>3. ~drive'[old].trashed
    BY <1>3, <2>2 DEF IsLive
  <2>4. ResolvedTo(old, home)
    BY <2>1, <2>2, <2>3 DEF ResolvedTo
  <2> QED
    BY <1>3, <2>1, <2>4
<1>4. CASE ~IsLive(old) /\ \E o \in Fresh :
              /\ drive' = Created(o, "folder", home)
              /\ eng' = [eng EXCEPT !.pc = "doc", !.parent = home, !.fid = o]
  <2>1. PICK o \in Fresh :
              /\ drive' = Created(o, "folder", home)
              /\ eng' = [eng EXCEPT !.pc = "doc", !.parent = home, !.fid = o]
    BY <1>4
  <2>2. /\ o \in Objs /\ drive[o].type = "free" /\ drive'[o].type = "folder"
        /\ \A x \in Objs \ {o} : drive'[x] = drive[x]
    BY <1>1, <2>1, CreatedKeeps
  <2>3. drive'[o].parent = home /\ ~drive'[o].trashed
    BY <1>1, <1>2, <2>1, <2>2 DEF Created
  <2>4. ResolvedTo(o, home)
    BY <1>4, <2>2, <2>3 DEF ResolvedTo, IsLive
  <2> QED
    BY <2>1, <2>2, <2>4
<1> QED
  BY <1>3, <1>4, NotAllowed DEF ResolveFolder, KnownFolder

\* The folder in hand is live and in a good home, and no page's but this one's.
LEMMA ResolveFolderGate ==
    ASSUME Unspoilt, IInv, GateInv, ResolveFolder
    PROVE  GateInv'
<1> DEFINE p == eng.cur
           home == ParentFolder(p)
<1>1. /\ eng.pc = "folder" /\ p \in Pages /\ eng \in Engine /\ drive \in [Objs -> File]
      /\ ledger \in [Pages -> SyncPair] /\ GoodHome(home) /\ OwnObjects
  BY HomeIsGood DEF ResolveFolder, IInv, TypeOK, CurOK, ItemSteps
<1>2. PICK f \in Objs :
          /\ ResolvedTo(f, home)
          /\ eng' = [eng EXCEPT !.pc = "doc", !.parent = home, !.fid = f]
  BY FolderResolved
<1>3. ledger' = ledger /\ notion' = notion
  BY DEF ResolveFolder
<1>4. /\ eng'.pc = "doc" /\ eng'.area = eng.area /\ eng'.kids = eng.kids /\ eng'.job = eng.job
      /\ eng'.under = eng.under /\ eng'.todo = eng.todo /\ eng'.folderOf = eng.folderOf
      /\ eng'.cur = p /\ eng'.fid = f
  BY <1>1, <1>2 DEF Engine
<1>5. /\ drive'[f].type = "folder" /\ ~drive'[f].trashed
      /\ f = ledger[p].folder \/ (drive[f].type = "free" /\ drive'[f].parent = home)
      /\ IsLive(ledger[p].folder) => f = ledger[p].folder
      /\ drive'[f].parent \in {drive[f].parent, home}
      /\ \A x \in Objs \ {f} : drive'[x] = drive[x]
  BY <1>2 DEF ResolvedTo
<1>6. f = ledger[p].folder => drive[f].type = "folder"
  BY <1>1, NullAssumption DEF OwnObjects
<1> HIDE DEF p, home
\* An object that was there keeps all but its place, and all but f keep that too.
<1>7. /\ \A x \in Objs : drive[x].type # "free" => drive'[x].type = drive[x].type
      /\ \A x \in Objs : IsLive(x) => drive'[x].type # "free" /\ ~drive'[x].trashed
  BY <1>5, <1>6 DEF IsLive
<1>8. home \in Fixed \/ (home \in Objs /\ drive[home].type = "folder")
  BY <1>1 DEF GoodHome, IsLive
<1>9. TreeOK'
  <2>1. SUFFICES ASSUME NEW x \in Objs, drive'[x].type # "free"
                 PROVE  \/ drive'[x].parent \in Fixed
                        \/ /\ drive'[x].parent \in Objs
                           /\ drive'[drive'[x].parent].type = "folder"
    BY DEF TreeOK
  <2>2. drive'[x].parent = home \/ (drive'[x].parent = drive[x].parent /\ drive[x].type # "free")
    BY <1>5, <1>6, <2>1
  <2> QED
    BY <1>7, <1>8, <2>2 DEF GateInv, TreeOK
<1>10. NotionOK' /\ ReadOK' /\ VisitOK'
  BY <1>3, <1>4 DEF GateInv, NotionOK, ReadOK, VisitOK
<1>11. LeafOK'
  <2>1. SUFFICES ASSUME NEW x \in Objs, drive'[x].type = "folder", NEW q \in Archivable,
                        drive'[x].parent = ledger[q].folder \/ (q = p /\ drive'[x].parent = f)
                 PROVE  FALSE
    BY <1>3, <1>4 DEF LeafOK, Leaf, InHand
  <2>2. q \in Pages /\ ledger[q].folder \in Objs \cup {Null}
    BY <1>1, BoundAssumption DEF SyncPair
  <2>3. CASE drive'[x].parent = drive[x].parent /\ drive[x].type = "folder"
    <3>1. drive[x].parent # ledger[q].folder
      BY <2>3 DEF GateInv, LeafOK, Leaf
    <3>2. drive[f].type # "free"
      BY <2>1, <2>3, <3>1, FixedAssumption DEF GateInv, TreeOK
    <3> QED
      BY <1>5, <2>1, <2>3, <3>1, <3>2
  <2>4. CASE drive'[x].parent = home /\ x = f
    <3>1. CASE home \in Fixed
      BY <2>1, <2>2, <2>4, <3>1, NullAssumption, FixedAssumption
    <3>2. CASE home \notin Fixed
      <4>1. PICK a \in Pages \ Archivable : Unclaimed(home, a)
        BY <1>1, <3>2 DEF GoodHome
      <4>2. home # ledger[q].folder
        BY <2>2, <4>1 DEF Unclaimed
      <4>3. q = p /\ home = f
        BY <2>1, <2>4, <4>2
      <4>4. drive[f].type = "folder"
        BY <1>8, <3>2, <4>3
      <4> QED
        BY <1>5, <4>2, <4>3, <4>4
    <3> QED
      BY <3>1, <3>2
  <2> QED
    BY <1>5, <1>6, <2>1, <2>3, <2>4
<1>12. CrawlOK'
  <2>1. SUFFICES ASSUME NEW a \in Pages, eng.folderOf[a] # Null
                 PROVE  /\ eng.folderOf[a] \in Objs /\ drive'[eng.folderOf[a]].type = "folder"
                        /\ ~drive'[eng.folderOf[a]].trashed /\ Unclaimed(eng.folderOf[a], a)
                        /\ a # p => eng.folderOf[a] # f
    BY <1>3, <1>4 DEF CrawlOK, IsLive, Unclaimed, InHand
  <2>2. /\ IsLive(eng.folderOf[a]) /\ drive[eng.folderOf[a]].type = "folder"
        /\ Unclaimed(eng.folderOf[a], a)
    BY <1>1, <2>1 DEF GateInv, CrawlOK, ItemSteps
  <2>3. a # p => eng.folderOf[a] # f
    BY <1>1, <1>5, <2>2 DEF Unclaimed
  <2> QED
    BY <1>7, <2>2, <2>3 DEF IsLive
<1>13. HandLive'
  BY <1>4, <1>5 DEF HandLive, IsLive
<1>14. ASSUME NEW q \in Alive PROVE (HasDoc(q) \/ NoDoc(q))'
  <2>1. q \in Pages /\ (HasDoc(q) \/ NoDoc(q))
    BY DEF GateInv, PairOK, Alive
  <2>2. CASE NoDoc(q)
    BY <1>3, <2>2 DEF NoDoc
  <2>3. CASE HasDoc(q)
    <3>1. ledger[q].doc \in Objs /\ drive[ledger[q].doc].type = "doc"
      BY <1>1, <2>1, <2>3, NullAssumption DEF HasDoc, IsLive, OwnObjects
    <3>2. drive'[ledger[q].doc] = drive[ledger[q].doc]
      BY <1>5, <1>6, <3>1
    <3>3. ledger[q].folder \in Objs /\ drive'[ledger[q].folder].type # "free"
          /\ ~drive'[ledger[q].folder].trashed
      BY <1>7, <2>3 DEF HasDoc, IsLive
    <3> QED
      BY <1>3, <2>3, <3>1, <3>2, <3>3 DEF HasDoc, Gate, IsLive
  <2> QED
    BY <2>1, <2>2, <2>3
<1>15. PairOK'
  BY <1>3, <1>14 DEF PairOK, Alive
<1>16. HandOK'
  <2>1. SUFFICES ASSUME notion[p].alive, ledger[p].doc # Null
                 PROVE  ledger[p].folder = f
    BY <1>3, <1>4 DEF HandOK
  <2>2. IsLive(ledger[p].folder)
    BY <1>1, <2>1 DEF GateInv, PairOK, HasDoc, NoDoc, Alive
  <2> QED
    BY <1>5, <2>2
<1> QED
  BY <1>9, <1>10, <1>11, <1>12, <1>13, <1>15, <1>16 DEF GateInv

\* _resolve_doc: the Doc is the pair's if the pair has one, in the folder in hand.
LEMMA ResolveDocGate ==
    ASSUME Unspoilt, IInv, GateInv, ResolveDoc
    PROVE  GateInv'
<1> DEFINE p == eng.cur
           fid == eng.fid
           old == ledger[p].doc
<1>1. /\ eng.pc = "doc" /\ p \in Pages /\ eng \in Engine /\ drive \in [Objs -> File]
      /\ ledger \in [Pages -> SyncPair] /\ fid \in Objs /\ drive[fid].type = "folder"
      /\ IsLive(fid) /\ Unclaimed(fid, p) /\ OwnObjects
  BY DEF ResolveDoc, IInv, TypeOK, CurOK, FolderOK, ItemSteps, GateInv, HandLive
<1>2. PICK d \in Objs :
          /\ eng' = [eng EXCEPT !.pc = "body", !.did = d, !.folderOf[p] = fid]
          /\ \/ IsLive(old) /\ d = old /\ drive' = drive
             \/ /\ ~IsLive(old) /\ drive[d].type = "free"
                /\ drive'[d].type = "doc" /\ drive'[d].parent = fid /\ ~drive'[d].trashed
                /\ \A x \in Objs \ {d} : drive'[x] = drive[x]
  <2>1. CASE /\ IsLive(old) /\ drive' = drive
             /\ eng' = [eng EXCEPT !.pc = "body", !.did = old, !.folderOf[p] = fid]
    BY <2>1 DEF IsLive
  <2>2. CASE ~IsLive(old) /\ \E o \in Fresh :
                /\ drive' = Created(o, "doc", fid)
                /\ eng' = [eng EXCEPT !.pc = "body", !.did = o, !.folderOf[p] = fid]
    <3>1. PICK o \in Fresh :
                /\ drive' = Created(o, "doc", fid)
                /\ eng' = [eng EXCEPT !.pc = "body", !.did = o, !.folderOf[p] = fid]
      BY <2>2
    <3>2. /\ o \in Objs /\ drive[o].type = "free" /\ drive'[o].type = "doc"
          /\ \A x \in Objs \ {o} : drive'[x] = drive[x]
      BY <1>1, <3>1, CreatedKeeps
    <3>3. ~InTrash(fid)
      BY <1>1 DEF InTrash, IsLive
    <3>4. drive'[o].parent = fid /\ ~drive'[o].trashed
      BY <1>1, <3>1, <3>2, <3>3 DEF Created
    <3> QED
      BY <2>2, <3>1, <3>2, <3>4
  <2> QED
    BY <2>1, <2>2, NotAllowed DEF ResolveDoc
<1>3. ledger' = ledger /\ notion' = notion
  BY DEF ResolveDoc
<1>4. /\ eng'.pc = "body" /\ eng'.area = eng.area /\ eng'.kids = eng.kids /\ eng'.job = eng.job
      /\ eng'.under = eng.under /\ eng'.todo = eng.todo /\ eng'.cur = p /\ eng'.fid = fid
      /\ eng'.did = d
      /\ \A a \in Pages : eng'.folderOf[a] = IF a = p THEN fid ELSE eng.folderOf[a]
  BY <1>1, <1>2 DEF Engine
<1>5. drive'[d].type = "doc" /\ \A q \in Pages \ {p} : d \notin {ledger[q].folder, ledger[q].doc}
  BY <1>3, <1>4, ResolveDocInv DEF IInv, DocOK, Unclaimed
<1> HIDE DEF p, fid, old
<1>6. \A x \in Objs : drive[x].type # "free" => drive'[x] = drive[x]
  BY <1>2
<1>7. /\ ~drive'[d].trashed
      /\ drive'[d].parent = fid \/ (d = old /\ drive'[d] = drive[d])
  BY <1>2 DEF IsLive
<1>8. TreeOK'
  <2>1. SUFFICES ASSUME NEW x \in Objs, drive'[x].type # "free"
                 PROVE  \/ drive'[x].parent \in Fixed
                        \/ /\ drive'[x].parent \in Objs
                           /\ drive'[drive'[x].parent].type = "folder"
    BY DEF TreeOK
  <2>2. drive'[x].parent = fid \/ (drive'[x].parent = drive[x].parent /\ drive[x].type # "free")
    BY <1>2, <2>1
  <2> QED
    BY <1>1, <1>6, <2>2 DEF GateInv, TreeOK
<1>9. NotionOK' /\ ReadOK' /\ VisitOK'
  BY <1>3, <1>4 DEF GateInv, NotionOK, ReadOK, VisitOK
<1>10. LeafOK'
  <2>1. \A q \in Pages : InHand(q)' <=> InHand(q)
    BY <1>1, <1>4 DEF InHand, p
  <2>2. \A x \in Objs : drive'[x].type = "folder" =>
           drive[x].type = "folder" /\ drive'[x] = drive[x]
    BY <1>2, <1>5
  <2> QED
    BY <1>3, <1>4, <2>1, <2>2, BoundAssumption DEF GateInv, LeafOK, Leaf, InHand, p, fid
<1>11. CrawlOK'
  <2>1. SUFFICES ASSUME NEW a \in Pages, NEW g, g = IF a = p THEN fid ELSE eng.folderOf[a],
                        g # Null
                 PROVE  /\ IsLive(g) /\ drive[g].type = "folder" /\ Unclaimed(g, a)
                        /\ a # p => g # fid
    BY <1>3, <1>4, <1>6 DEF CrawlOK, IsLive, Unclaimed, InHand
  <2>2. CASE a = p
    BY <1>1, <2>1, <2>2 DEF p, fid
  <2>3. CASE a # p
    BY <1>1, <2>1, <2>3 DEF GateInv, CrawlOK, ItemSteps, InHand, p, fid
  <2> QED
    BY <2>2, <2>3
<1>12. HandLive'
  <2>1. drive'[fid] = drive[fid]
    BY <1>1, <1>6 DEF fid
  <2> QED
    BY <1>1, <1>3, <1>4, <1>5, <1>7, <2>1 DEF HandLive, IsLive, Unclaimed, fid
<1>13. ASSUME NEW q \in Alive PROVE (HasDoc(q) \/ NoDoc(q))'
  <2>1. q \in Pages /\ (HasDoc(q) \/ NoDoc(q))
    BY DEF GateInv, PairOK, Alive
  <2>2. CASE NoDoc(q)
    BY <1>3, <2>2 DEF NoDoc
  <2>3. CASE HasDoc(q)
    <3>1. /\ drive'[ledger[q].doc] = drive[ledger[q].doc]
          /\ drive'[ledger[q].folder] = drive[ledger[q].folder]
      BY <1>6, <2>3 DEF HasDoc, IsLive
    <3> QED
      BY <1>3, <2>3, <3>1 DEF HasDoc, Gate, IsLive
  <2> QED
    BY <2>1, <2>2, <2>3
<1>14. PairOK'
  BY <1>3, <1>13 DEF PairOK, Alive
<1>15. HandOK'
  <2>1. SUFFICES ASSUME notion[p].alive
                 PROVE  drive'[d].parent = fid /\ ledger[p].doc \in {Null, d}
    BY <1>3, <1>4 DEF HandOK
  <2>2. CASE old = Null
    BY <1>2, <2>2, NullAssumption DEF IsLive, old
  <2>3. CASE old # Null
    <3>1. HasDoc(p)
      BY <1>1, <2>1, <2>3 DEF GateInv, PairOK, NoDoc, Alive, old, p
    <3>2. IsLive(old) /\ drive[old].parent = ledger[p].folder
      BY <3>1 DEF HasDoc, old
    <3>3. ledger[p].folder = fid
      BY <1>1, <2>1, <2>3 DEF GateInv, HandOK, p, fid, old
    <3> QED
      BY <1>2, <3>2, <3>3 DEF old
  <2> QED
    BY <2>2, <2>3
<1> QED
  BY <1>8, <1>9, <1>10, <1>11, <1>12, <1>14, <1>15 DEF GateInv

-----------------------------------------------------------------------------
(* Steps that trash                                                        *)

\* Trashing changes the flag of what is trashed, and nothing else.
LEMMA TrashedOnly ==
    ASSUME drive \in [Objs -> File], NEW os, drive' = Trashed(os)
    PROVE  \A x \in Objs : /\ drive'[x].type = drive[x].type
                           /\ drive'[x].parent = drive[x].parent
                           /\ drive'[x].text = drive[x].text
                           /\ (\A o \in os : x \notin Under(o)) => drive'[x] = drive[x]
  BY DEF Trashed, File

\* A step after the crawl that trashes the folder and the Doc of no page of Notion.
LEMMA TrashKept ==
    ASSUME IInv, GateInv, NEW os, drive' = Trashed(os), ledger' = ledger, notion' = notion,
           SameCrawl, eng'.pc \notin Hold \cup Crawl,
           \A p \in Alive, o \in os : HasDoc(p) =>
              ledger[p].folder \notin Under(o) /\ ledger[p].doc \notin Under(o)
    PROVE  GateInv'
<1>1. \A x \in Objs : /\ drive'[x].type = drive[x].type
                      /\ drive'[x].parent = drive[x].parent
                      /\ drive'[x].text = drive[x].text
                      /\ (\A o \in os : x \notin Under(o)) => drive'[x] = drive[x]
  BY TrashedOnly DEF IInv, TypeOK
<1>2. TreeOK'
  BY <1>1 DEF GateInv, TreeOK
<1>3. \A p \in Pages : ~InHand(p)'
  BY DEF InHand, Hold
<1>4. LeafOK'
  BY <1>1, <1>3, BoundAssumption DEF GateInv, LeafOK, Leaf
<1>5. NotionOK' /\ ReadOK'
  BY DEF GateInv, NotionOK, ReadOK, SameCrawl
<1>6. VisitOK'
  BY DEF GateInv, VisitOK, SameCrawl, Crawl, ItemSteps
<1>7. CrawlOK' /\ HandLive' /\ HandOK'
  BY DEF CrawlOK, HandLive, HandOK, Hold, Crawl
<1>8. ASSUME NEW p \in Alive PROVE (HasDoc(p) \/ NoDoc(p))'
  <2>1. HasDoc(p) \/ NoDoc(p)
    BY DEF GateInv, PairOK
  <2>2. CASE NoDoc(p)
    BY <2>2 DEF NoDoc
  <2>3. CASE HasDoc(p)
    <3>1. ledger[p].folder \in Objs /\ ledger[p].doc \in Objs
      BY <2>3 DEF HasDoc, IsLive
    <3>2. /\ drive'[ledger[p].folder] = drive[ledger[p].folder]
          /\ drive'[ledger[p].doc] = drive[ledger[p].doc]
      BY <1>1, <2>3, <3>1
    <3> QED
      BY <2>3, <3>2 DEF HasDoc, Gate, IsLive
  <2> QED
    BY <2>1, <2>2, <2>3
<1>9. PairOK'
  BY <1>8 DEF PairOK, Alive
<1> QED
  BY <1>2, <1>4, <1>5, <1>6, <1>7, <1>9 DEF GateInv

\* _remove_unseen trashes a page's Doc and its folder: the Doc holds nothing and the
\* folder no folder, so what goes with them is no other page's.
LEMMA RemoveFileGate ==
    ASSUME IInv, Verified, GateInv, RemoveDoc \/ RemoveFolder
    PROVE  GateInv'
<1> DEFINE c == eng.cur
<1>1. /\ eng \in Engine /\ c \in Pages /\ ~notion[c].alive /\ OwnObjects
      /\ eng.pc \in RemoveSteps /\ ledger' = ledger /\ notion' = notion
  BY DEF RemoveDoc, RemoveFolder, RemoveFile, IInv, TypeOK, CurOK, RemoveSteps, Verified, Quiet
<1>2. c \in Archivable
  BY <1>1 DEF GateInv, NotionOK
<1>3. SameCrawl /\ eng'.pc \notin Hold \cup Crawl
  BY <1>1 DEF RemoveDoc, RemoveFolder, RemoveFile, SameCrawl, Engine, Hold, Crawl, ItemSteps,
              RemoveSteps
<1>4. ASSUME NEW p \in Alive, HasDoc(p)
      PROVE  /\ p \in Pages \ {c} /\ ledger[p].folder \in Objs /\ ledger[p].doc \in Objs
             /\ drive[ledger[p].folder].type = "folder" /\ drive[ledger[p].doc].type = "doc"
             /\ {ledger[p].folder, ledger[p].doc} \cap {ledger[c].folder, ledger[c].doc} = {}
  <2>1. /\ p \in Pages \ {c} /\ ledger[p].folder \in Objs /\ ledger[p].doc \in Objs
    BY <1>1, <1>4 DEF Alive, HasDoc, IsLive
  <2>2. {ledger[p].folder, ledger[p].doc} \cap {ledger[c].folder, ledger[c].doc} \subseteq {Null}
    BY <1>1, <2>1 DEF OwnObjects
  <2> QED
    BY <1>1, <2>1, <2>2, NullAssumption DEF OwnObjects
<1>5. CASE drive' = drive
  <2>1. Local
    BY <1>1, <1>5 DEF Local, RowKept
  <2>2. eng'.pc \notin Hold \cup {"folder"}
    BY <1>3 DEF Crawl, ItemSteps
  <2> QED
    BY <1>3, <2>1, <2>2, SameCrawlKept
<1>6. CASE RemoveDoc /\ IsLive(ledger[c].doc) /\ drive' = Trashed({ledger[c].doc})
  <2> DEFINE d == ledger[c].doc
  <2>1. d \in Objs /\ drive[d].type = "doc"
    BY <1>1, <1>6, NullAssumption DEF OwnObjects, IsLive
  <2>2. \A x \in Objs : drive[x].type # "free" => drive[x].parent # d
    BY <2>1, FixedAssumption DEF GateInv, TreeOK
  <2>3. Under(d) \subseteq {d}
    <3>1. \A x \in Objs : drive[x].type # "free" /\ drive[x].parent \in {d} => x \in {d}
      BY <2>2
    <3>2. d \in {d}
      OBVIOUS
    <3> HIDE DEF d
    <3> QED
      BY <3>1, <3>2, UnderClosed
  <2>4. \A p \in Alive, o \in {d} : HasDoc(p) =>
           ledger[p].folder \notin Under(o) /\ ledger[p].doc \notin Under(o)
    BY <1>4, <2>3
  <2> QED
    BY <1>1, <1>3, <1>6, <2>4, TrashKept
<1>7. CASE RemoveFolder /\ IsLive(ledger[c].folder) /\ drive' = Trashed({ledger[c].folder})
  <2> DEFINE f == ledger[c].folder
             S == {f} \cup {x \in Objs : drive[x].type = "doc" /\ drive[x].parent = f}
  <2>1. \A x \in Objs : drive[x].type = "folder" => drive[x].parent # f
    BY <1>2 DEF GateInv, LeafOK, Leaf
  <2>2. ASSUME NEW x \in Objs, drive[x].type # "free", drive[x].parent \in S
        PROVE  x \in S
    <3>1. f \in Objs
      BY <1>7 DEF IsLive
    <3>2. drive[x].parent \in Objs
      BY <2>2, <3>1
    <3>3. drive[drive[x].parent].type = "folder"
      BY <2>2, <3>2, FixedAssumption DEF GateInv, TreeOK
    <3>4. drive[x].parent = f
      BY <2>2, <3>3
    <3>5. drive[x].type = "doc"
      BY <2>1, <2>2, <3>4 DEF IInv, TypeOK, File
    <3> QED
      BY <3>4, <3>5
  <2>3. Under(f) \subseteq S
    <3>1. f \in S
      OBVIOUS
    <3> HIDE DEF S, f
    <3> QED
      BY <2>2, <3>1, UnderClosed
  <2>4. ASSUME NEW p \in Alive, HasDoc(p)
        PROVE  ledger[p].folder \notin S /\ ledger[p].doc \notin S
    <3>1. /\ ledger[p].folder # f /\ ledger[p].doc # f
          /\ drive[ledger[p].folder].type = "folder"
      BY <1>4, <2>4
    <3>2. drive[ledger[p].doc].parent = ledger[p].folder
      BY <2>4 DEF HasDoc
    <3> QED
      BY <3>1, <3>2
  <2>5. \A p \in Alive, o \in {f} : HasDoc(p) =>
           ledger[p].folder \notin Under(o) /\ ledger[p].doc \notin Under(o)
    BY <2>3, <2>4
  <2> QED
    BY <1>1, <1>3, <1>7, <2>5, TrashKept
<1> QED
  BY <1>5, <1>6, <1>7 DEF RemoveDoc, RemoveFolder, RemoveFile

\* _prune_untracked spares the folder and the Doc of a page of Notion: an orphan above
\* one of them would have it in its subtree, and a folder of the root is not empty
\* while the page's Doc is in it.
LEMMA PruneGate ==
    ASSUME IInv, VerifiedDelete, GateInv, Prune
    PROVE  GateInv'
<1>1. eng \in Engine /\ ledger' = ledger /\ notion' = notion
  BY DEF Prune, IInv, TypeOK
<1>2. SameCrawl /\ eng'.pc \notin Hold \cup Crawl
  BY <1>1 DEF Prune, SameCrawl, Engine, Hold, Crawl, ItemSteps
<1>3. PICK spared \in SUBSET Orphans : drive' = Trashed(Orphans \ spared)
  BY DEF Prune
<1>4. ASSUME NEW p \in Alive, NEW x \in Orphans, HasDoc(p)
      PROVE  ledger[p].folder \notin Under(x) /\ ledger[p].doc \notin Under(x)
  <2> DEFINE f == ledger[p].folder
             d == ledger[p].doc
  <2>1. IsLive(f) /\ IsLive(d) /\ f \in Keep /\ d \in Keep
    BY <1>4 DEF HasDoc, Keep, Tracked, VerifiedDelete, Alive
  <2>2. d \in Under(f) /\ d # f /\ drive[d].parent # Root
    <3>1. d \in Under(f)
      BY <1>4, <2>1, ChildIsUnder DEF HasDoc, IsLive
    <3>2. drive[f].type = "folder" /\ drive[d].type = "doc"
      BY <2>1, NullAssumption DEF IInv, OwnObjects, IsLive, Alive
    <3>3. drive[d].parent # Root
      BY <1>4, <2>1, FixedAssumption DEF HasDoc, IsLive, Fixed
    <3> QED
      BY <3>1, <3>2, <3>3
  <2>3. x \in Objs /\ IsLive(x)
    BY DEF Orphans
  <2>4. CASE drive[x].parent # Root
    <3>1. \A y \in Under(x) : IsLive(y) => y \notin Keep
      BY <2>4 DEF Orphans
    <3> QED
      BY <2>1, <3>1
  <2>5. CASE drive[x].parent = Root
    <3>1. \A y \in Under(x) \ {x} : ~IsLive(y)
      BY <2>5 DEF Orphans
    <3> QED
      BY <2>1, <2>2, <2>5, <3>1
  <2> QED
    BY <2>4, <2>5
<1>5. \A p \in Alive, x \in Orphans \ spared : HasDoc(p) =>
         ledger[p].folder \notin Under(x) /\ ledger[p].doc \notin Under(x)
  BY <1>4
<1> QED
  BY <1>1, <1>2, <1>3, <1>5, TrashKept

-----------------------------------------------------------------------------
(* The theorem                                                             *)

\* Every step preserves what the gate rests on.
LEMMA GateStep ==
    ASSUME Unspoilt, IInv, VerifiedDelete, Verified, GateInv, [Next]_vars
    PROVE  GateInv'
<1>1. CASE StartFull \/ StartPoll \/ StartItem
  BY <1>1, StartGate
<1>2. ASSUME NEW p \in Pages, Pick(p) \/ Recurse(p) PROVE GateInv'
  BY <1>2, PickGate, RecurseGate
<1>3. CASE MirrorPage
  BY <1>3, ResolveFolderGate, ResolveDocGate, FetchBodyGate, WriteDocGate, RecordBodyGate,
     LocalGate DEF MirrorPage
<1>4. CASE Remove
  BY <1>4, RemoveFileGate, LocalGate DEF Remove
<1>5. CASE Prune \/ EndFull \/ Faults
  BY <1>5, PruneGate, LocalGate DEF Faults, Skips
<1>6. CASE Environment
  BY <1>6, EnvironmentGate
<1>7. CASE UNCHANGED vars
  <2>1. Local /\ eng' = eng
    BY <1>7 DEF vars, Local, RowKept
  <2> QED
    BY <1>7 DEF vars, GateInv, TreeOK, LeafOK, NotionOK, ReadOK, VisitOK, CrawlOK, HandLive,
       HandOK, PairOK, HasDoc, NoDoc, Gate, Leaf, InHand, IsLive, Unclaimed, Alive
<1> QED
  BY <1>1, <1>2, <1>3, <1>4, <1>5, <1>6, <1>7 DEF Next

\* The change gate is sound (_mirror_item skips a write when the hash is the recorded
\* one): a recorded hash that is that of the page's body is of what its Doc holds.
\* Failed steps, crashes, archived pages, moves, resets of the ledger and late calls
\* are all allowed; what Unspoilt excludes does break it.
THEOREM GateNeverHidesAWrite == ASSUME Unspoilt PROVE Spec => []GateSafe
<1>1. Init => VerifiedDelete /\ Verified /\ GateInv
  <2>1. Init => VerifiedDelete /\ Verified
    BY DEF Init, VerifiedDelete, Verified, NoRow, Idle, RemoveSteps, Alive
  <2> QED
    BY <2>1, GateInit
<1>2. IInv /\ VerifiedDelete /\ Verified /\ GateInv /\ [Next]_vars
         => VerifiedDelete' /\ Verified' /\ GateInv'
  BY VerifiedStep, GateStep, NotAllowed
<1>3. IInv /\ GateInv => GateSafe
  <2>1. SUFFICES ASSUME IInv, GateInv, NEW p \in Alive, ledger[p].body = notion[p].body
                 PROVE  drive[ledger[p].doc].text = notion[p].body
    BY DEF GateSafe
  <2>2. p \in Pages /\ notion[p].body \in Versions /\ notion[p].body # Null
    <3>1. p \in Pages /\ notion \in [Pages -> Notion]
      BY <2>1 DEF IInv, TypeOK, Alive
    <3>2. notion[p].body \in Versions
      BY <3>1 DEF Notion
    <3> QED
      BY <3>1, <3>2, NullAssumption
  <2>3. HasDoc(p)
    BY <2>1, <2>2 DEF GateInv, PairOK, NoDoc
  <2>4. notion[p].body \in Nat /\ ~(notion[p].body < notion[p].body)
    BY <2>2 DEF Versions
  <2> QED
    BY <2>1, <2>2, <2>3, <2>4 DEF HasDoc, Gate
<1> QED
  BY <1>1, <1>2, <1>3, Invariant, PTL DEF Spec

-----------------------------------------------------------------------------
(* Convergence: what holds besides                                         *)

\* What a reconcile needs to put everything right: nothing spoilt, no page moved, and
\* one home for each page whichever job mirrors it (a loose root and a page nested in
\* a block have two: the run relocate shows what becomes of them); every page is
\* reached from the areas, projects and actions.
Reached(S) == /\ Spine \subseteq S
              /\ \A c \in Pages : Home[c] \in S /\ Kind[Home[c]] # "action" => c \in S
Reconcilable ==
    /\ Unspoilt /\ "reparent" \notin Allowed
    /\ Nested = {} /\ \A p \in Pages : Kind[p] # "loose"
    /\ \A p \in Pages : Kind[p] = "project" /\ Home[p] # Null => Kind[Home[p]] = "area"
    /\ \A S \in SUBSET Pages : Reached(S) => S = Pages

\* The folder a page's folder belongs in.
HomeOf(p) == IF Kind[p] = "area" THEN AreasFolder
             ELSE IF Home[p] = Null THEN Unsorted ELSE ledger[Home[p]].folder

\* The engine has read where pages are; a folder it remembers is the recorded one.
AreaOK  == /\ \A p \in Pages : notion[p].parent = Home[p]
           /\ eng.pc # "idle" => \A p \in Pages : eng.area[p] = Home[p]
BelowOK ==
    /\ \A p \in Pages : eng.kids[p] # Null => \A c \in eng.kids[p] : Home[c] = p
    /\ eng.job = "full" =>
          \A p \in Pages : (p \in eng.todo \/ (eng.pc = "folder" /\ p = eng.cur))
                            /\ Kind[p] = "page" => Home[p] = eng.under
SameOK  == /\ eng.pc \in Crawl =>
                \A a \in Alive : eng.folderOf[a] # Null /\ ledger[a].folder # Null
                                   => eng.folderOf[a] = ledger[a].folder
           /\ eng.pc = "body" => eng.folderOf[eng.cur] = eng.fid

\* A folder recorded as in its home is there.
UsedOK  == /\ \A p \in Pages : ledger[p].parent \in Objs => drive[ledger[p].parent].type # "free"
           /\ eng.pc \in {"doc", "body"} /\ eng.parent \in Objs => drive[eng.parent].type # "free"
PlaceOK == \A p \in Alive : Kind[p] # "action" /\ ledger[p].folder # Null =>
              /\ ledger[p].parent # Null
              /\ ledger[p].parent = HomeOf(p) => drive[ledger[p].folder].parent = HomeOf(p)
HandPlaced == eng.pc \in {"doc", "body"} /\ notion[eng.cur].alive =>
    /\ Kind[eng.cur] # "action"
    /\ eng.parent = HomeOf(eng.cur) => drive[eng.fid].parent = HomeOf(eng.cur)
    /\ \A p \in Alive : /\ Home[p] = eng.cur /\ Kind[p] \notin {"area", "action"}
                        /\ ledger[p].folder # Null /\ ledger[p].parent = eng.fid
                        => drive[ledger[p].folder].parent = eng.fid

\* A row whose recorded hash is that of the page shows it.
RowTrue(p) == ledger[p].prop # Null =>
                 /\ ledger[p].known /\ ledger[p].prop \in Versions
                 /\ ledger[p].prop <= notion[p].prop
                 /\ ledger[p].prop < notion[p].prop \/ sheet[p] = ledger[p].prop
RowRead(p) == /\ eng.prop[p] <= notion[p].prop
              /\ ledger[p].prop # Null => ledger[p].prop <= eng.prop[p]
RowsOK  == /\ \A p \in Alive : RowTrue(p) /\ (eng.pc # "idle" => RowRead(p))
           /\ eng.pc = "rowrecord" => sheet[eng.cur] = eng.prop[eng.cur]

PlaceInv == AreaOK /\ BelowOK /\ SameOK /\ UsedOK /\ PlaceOK /\ HandPlaced /\ RowsOK

\* A reconcile that nothing has disturbed: what it read is so now.
Calm    == calm /\ eng.job = "full" /\ eng.pc # "idle"
InItem(p) == eng.pc \in ItemSteps /\ p = eng.cur
ReadNow == Calm => \A p \in Pages : /\ eng.prop[p] = notion[p].prop
                                    /\ eng.kids[p] \in {Null, Children(p)}
SameNow == Calm /\ eng.pc \in Crawl =>
             \A a \in Alive : eng.folderOf[a] # Null /\ ~(eng.pc = "body" /\ eng.cur = a)
                                => ledger[a].folder = eng.folderOf[a]
SeenNow == Calm =>
    /\ eng.todo \subseteq eng.seen /\ eng.grow \subseteq eng.seen /\ eng.seen \subseteq Alive
    /\ Spine \cap Alive \subseteq eng.seen
    /\ eng.pc \in ItemSteps => eng.cur \in eng.seen
    /\ eng.pc \in ItemSteps /\ Kind[eng.cur] = "project" => \A q \in eng.todo : Kind[q] # "area"
    /\ eng.pc \notin Crawl => eng.todo = {} /\ Alive \subseteq eng.seen

\* Every page seen is still to do, in hand, or done; its children are seen or will be.
Entered(p) == eng.folderOf[p] # Null /\ eng.kids[p] = Children(p)
Done(p)    == /\ Shown(p) /\ Placed(p)
              /\ eng.pc \in Crawl /\ Kind[p] # "action" => Entered(p)
DoneNow == Calm => \A p \in eng.seen : p \in eng.todo \/ InItem(p) \/ Done(p)
Grown(p) == \/ Kind[p] = "action" \/ p \in eng.grow \/ Children(p) \subseteq eng.seen
            \/ Kind[p] = "page" /\ (p \in eng.todo \/ InItem(p))
GrowNow == Calm /\ eng.pc \in Crawl => \A p \in eng.seen : Grown(p)

\* The item in hand: its folder is in its place, and once its pair is entered the page
\* is live, and placed; once its body is recorded, shown.
HandNow == Calm /\ eng.pc \in ItemSteps =>
    LET p == eng.cur IN
    /\ Kind[p] = "action" => eng.pc \in {"row", "rowrecord"}
    /\ eng.pc \in {"doc", "body"} => drive[eng.fid].parent = HomeOf(p)
    /\ eng.pc \in {"write", "record"} => ledger[p].known /\ eng.md = notion[p].body
    /\ Kind[p] # "action" =>
         /\ eng.pc \in {"write", "record", "row", "rowrecord"} =>
               HasDoc(p) /\ Placed(p) /\ Entered(p)
         /\ eng.pc \in {"row", "rowrecord"} => drive[ledger[p].doc].text = notion[p].body

CalmInv  == ReadNow /\ SameNow /\ SeenNow /\ DoneNow /\ GrowNow /\ HandNow

-----------------------------------------------------------------------------
(* The pages and their homes                                               *)

\* Where all can be put right, a page that is no area, project or action has a home,
\* and none but an area or an action is its own.
LEMMA HomesAre ==
    ASSUME Reconcilable
    PROVE  \A p \in Pages :
             /\ Kind[p] \in {"area", "project", "action", "page"}
             /\ Home[p] \in Pages \cup {Null} /\ Home[p] \notin Archivable
             /\ Kind[p] = "project" /\ Home[p] # Null => Kind[Home[p]] = "area"
             /\ Kind[p] = "page" => Home[p] \in Pages
             /\ Kind[p] \notin {"area", "action"} => Home[p] # p
<1> SUFFICES ASSUME NEW p \in Pages
             PROVE  /\ Kind[p] \in {"area", "project", "action", "page"}
                    /\ Home[p] \in Pages \cup {Null} /\ Home[p] \notin Archivable
                    /\ Kind[p] = "project" /\ Home[p] # Null => Kind[Home[p]] = "area"
                    /\ Kind[p] = "page" => Home[p] \in Pages
                    /\ Kind[p] \notin {"area", "action"} => Home[p] # p
  OBVIOUS
<1>1. Kind[p] \in {"area", "project", "action", "page"}
  BY KindAssumption DEF Reconcilable, Kinds
<1>2. Home[p] \in Pages \cup {Null} /\ Home[p] \notin Archivable
  BY HomeAssumption DEF Reconcilable, Unspoilt
<1>3. Kind[p] = "project" /\ Home[p] # Null => Kind[Home[p]] = "area"
  BY DEF Reconcilable
<1>4. ASSUME Kind[p] = "page" PROVE Home[p] \in Pages /\ Home[p] # p
  <2> SUFFICES ASSUME Home[p] \in {Null, p} PROVE FALSE
    BY <1>2
  <2>1. Home[p] \notin Pages \ {p}
    BY NullAssumption
  <2>2. Reached(Pages \ {p})
    <3>1. Spine \subseteq Pages \ {p}
      BY <1>4 DEF Spine
    <3>2. \A c \in Pages : Home[c] \in Pages \ {p} => c \in Pages \ {p}
      BY <2>1
    <3> QED
      BY <3>1, <3>2 DEF Reached
  <2>3. (Pages \ {p}) \in SUBSET Pages
    OBVIOUS
  <2> QED
    BY <2>2, <2>3 DEF Reconcilable
<1>5. Kind[p] = "project" => Home[p] # p
  <2> SUFFICES ASSUME Kind[p] = "project", Home[p] = p PROVE FALSE
    OBVIOUS
  <2>1. Home[p] # Null
    BY NullAssumption
  <2> QED
    BY <1>3, <2>1
<1> QED
  BY <1>1, <1>2, <1>3, <1>4, <1>5

\* The home of a page is never archived.
LEMMA HomeAlive ==
    ASSUME Reconcilable, GateInv, NEW p \in Pages, Home[p] # Null
    PROVE  Home[p] \in Alive
  BY HomesAre DEF GateInv, NotionOK, Alive

\* Where the page is in Notion is its home: it is placed when its folder is there.
LEMMA PlacedIs ==
    ASSUME Reconcilable, AreaOK, NEW p \in Pages
    PROVE  Placed(p) <=> (Kind[p] # "action" => drive[ledger[p].folder].parent = HomeOf(p))
<1>1. notion[p].parent = Home[p] /\ Kind[p] \in {"area", "project", "action", "page"}
  BY HomesAre DEF AreaOK
<1> QED
  BY <1>1 DEF Placed, HomeOf

-----------------------------------------------------------------------------
(* Steps that move no folder                                               *)

\* Objects keep their type and place, pages are where they were, and a SyncPair row
\* keeps its folder and where that was put, or is deleted.
FolderKept(p) == \/ ledger'[p] = NoRow
                 \/ /\ ledger'[p].folder = ledger[p].folder
                    /\ ledger'[p].parent = ledger[p].parent
Still ==
    /\ \A x \in Objs : drive[x].type # "free" =>
          drive'[x].type # "free" /\ drive'[x].parent = drive[x].parent
    /\ \A p \in Pages : /\ notion'[p].parent = notion[p].parent
                        /\ notion'[p].alive => notion[p].alive
    /\ \A p \in Pages : FolderKept(p)
SameHand == /\ eng.pc \in {"doc", "body"} /\ eng'.cur = eng.cur
            /\ eng'.parent = eng.parent /\ eng'.fid = eng.fid

\* Such a step leaves the folders where they belong.
LEMMA StillPlaced ==
    ASSUME IInv, PlaceInv, Still, eng'.pc \in {"doc", "body"} => SameHand
    PROVE  UsedOK' /\ PlaceOK' /\ HandPlaced' /\ \A p \in Pages : notion'[p].parent = Home[p]
<1>1. /\ ledger \in [Pages -> SyncPair] /\ drive \in [Objs -> File] /\ eng \in Engine
      /\ \A p \in Pages : notion'[p].parent = Home[p]
      /\ \A p \in Alive' : p \in Alive /\ p \in Pages
  BY DEF IInv, TypeOK, PlaceInv, AreaOK, Still, Alive
<1>2. \A p \in Pages : ledger'[p] = NoRow => ledger'[p].folder = Null /\ ledger'[p].parent = Null
  BY DEF NoRow
<1>3. ASSUME NEW p \in Pages PROVE HomeOf(p)' \in {HomeOf(p), Null}
  BY <1>2, HomeAssumption DEF HomeOf, Still, FolderKept
<1>4. Null \notin Objs /\ Null \notin Fixed
  BY NullAssumption
<1>5. UsedOK'
  <2>1. ASSUME NEW p \in Pages, ledger'[p].parent \in Objs
        PROVE  drive'[ledger'[p].parent].type # "free"
    BY <1>2, <1>4, <2>1 DEF Still, FolderKept, PlaceInv, UsedOK
  <2>2. ASSUME eng'.pc \in {"doc", "body"}, eng'.parent \in Objs
        PROVE  drive'[eng'.parent].type # "free"
    BY <2>2 DEF Still, SameHand, PlaceInv, UsedOK
  <2> QED
    BY <2>1, <2>2 DEF UsedOK
<1>6. ASSUME NEW p \in Pages, ledger'[p].folder # Null
      PROVE  /\ ledger'[p].folder = ledger[p].folder /\ ledger'[p].parent = ledger[p].parent
             /\ drive'[ledger[p].folder].parent = drive[ledger[p].folder].parent
  <2>1. ledger'[p].folder = ledger[p].folder /\ ledger'[p].parent = ledger[p].parent
    BY <1>2, <1>6 DEF Still, FolderKept
  <2>2. ledger[p].folder \in Objs /\ drive[ledger[p].folder].type = "folder"
    BY <1>1, <1>6, <2>1 DEF SyncPair, IInv, OwnObjects
  <2> QED
    BY <2>1, <2>2 DEF Still
<1>7. PlaceOK'
  <2>1. SUFFICES ASSUME NEW p \in Alive', Kind[p] # "action", ledger'[p].folder # Null
                 PROVE  /\ ledger'[p].parent # Null
                        /\ ledger'[p].parent = HomeOf(p)' =>
                              drive'[ledger'[p].folder].parent = HomeOf(p)'
    BY DEF PlaceOK
  <2>2. /\ ledger[p].parent # Null
        /\ ledger[p].parent = HomeOf(p) => drive[ledger[p].folder].parent = HomeOf(p)
    BY <1>1, <1>6, <2>1 DEF PlaceInv, PlaceOK
  <2> QED
    BY <1>1, <1>3, <1>6, <2>1, <2>2
<1>8. HandPlaced'
  <2>1. SUFFICES ASSUME eng'.pc \in {"doc", "body"}, notion'[eng'.cur].alive, SameHand
                 PROVE  /\ Kind[eng'.cur] # "action"
                        /\ eng'.parent = HomeOf(eng.cur)' => drive'[eng'.fid].parent = HomeOf(eng.cur)'
                        /\ \A p \in Alive' :
                              /\ Home[p] = eng'.cur /\ Kind[p] \notin {"area", "action"}
                              /\ ledger'[p].folder # Null /\ ledger'[p].parent = eng'.fid
                              => drive'[ledger'[p].folder].parent = eng'.fid
    BY DEF HandPlaced, SameHand, HomeOf
  <2>2. eng.cur \in Pages /\ eng.fid \in Objs /\ drive[eng.fid].type = "folder"
    BY <2>1 DEF SameHand, IInv, CurOK, FolderOK, ItemSteps
  <2>3. notion[eng.cur].alive
    BY <2>1, <2>2 DEF SameHand, Still
  <2>4. HandPlaced /\ eng.parent # Null
    BY <1>1, <1>4 DEF PlaceInv, Engine
  <2>5. drive'[eng.fid].parent = drive[eng.fid].parent
    BY <2>2 DEF Still
  <2>6. Kind[eng'.cur] # "action"
    BY <2>1, <2>3, <2>4 DEF SameHand, HandPlaced
  <2>7. eng'.parent = HomeOf(eng.cur)' => drive'[eng'.fid].parent = HomeOf(eng.cur)'
    BY <1>3, <2>1, <2>2, <2>3, <2>4, <2>5 DEF SameHand, HandPlaced
  <2>8. ASSUME NEW p \in Alive', Home[p] = eng'.cur, Kind[p] \notin {"area", "action"},
               ledger'[p].folder # Null, ledger'[p].parent = eng'.fid
        PROVE  drive'[ledger'[p].folder].parent = eng'.fid
    BY <1>1, <1>6, <2>1, <2>3, <2>4, <2>8 DEF SameHand, HandPlaced
  <2> QED
    BY <2>6, <2>7, <2>8
<1> QED
  BY <1>1, <1>5, <1>7, <1>8

\* The engine at rest, or with what it has read and mirrored as it was.
LEMMA EngineStill ==
    ASSUME IInv, PlaceInv, Still,
           \/ eng' = Idle \/ eng' = eng
           \/ SameCrawl /\ eng.pc # "idle" /\ eng'.pc \notin {"folder", "body"}
    PROVE  /\ eng'.pc # "idle" => \A p \in Pages : eng'.area[p] = Home[p]
           /\ BelowOK' /\ SameOK'
<1>1. \A p \in Pages : ledger'[p].folder \in {ledger[p].folder, Null}
  BY DEF Still, FolderKept, NoRow
<1>2. \A a \in Alive' : a \in Alive /\ a \in Pages
  BY DEF Still, Alive
<1>3. CASE eng' = Idle
  <2>1. /\ eng'.pc = "idle" /\ eng'.job = "item" /\ \A p \in Pages : eng'.kids[p] = Null
    BY <1>3 DEF Idle
  <2> QED
    BY <2>1 DEF BelowOK, SameOK, Crawl, ItemSteps
<1>4. CASE eng' = eng
  BY <1>1, <1>2, <1>4 DEF PlaceInv, AreaOK, BelowOK, SameOK
<1>5. CASE SameCrawl /\ eng.pc # "idle" /\ eng'.pc \notin {"folder", "body"}
  <2>1. \A p \in Pages : eng'.area[p] = Home[p]
    BY <1>5 DEF SameCrawl, PlaceInv, AreaOK
  <2>2. BelowOK'
    BY <1>5 DEF SameCrawl, PlaceInv, BelowOK
  <2>3. SameOK'
    BY <1>1, <1>2, <1>5 DEF SameCrawl, PlaceInv, SameOK
  <2> QED
    BY <2>1, <2>2, <2>3
<1> QED
  BY <1>3, <1>4, <1>5

\* The row of a page of Notion, and what the ledger has of it, is as it was, or the
\* SyncPair row is gone.
RowStays(p) == /\ sheet'[p] = sheet[p] /\ notion'[p].prop >= notion[p].prop
               /\ \/ ledger'[p].prop = Null
                  \/ /\ ledger'[p].prop = ledger[p].prop
                     /\ ledger[p].known => ledger'[p].known

\* Such a step leaves what is recorded of rows true.
LEMMA RowsStill ==
    ASSUME IInv, TypeOK', RowsOK, \A p \in Alive' : p \in Alive /\ RowStays(p),
           eng'.pc # "idle" => eng.pc # "idle" /\ eng'.prop = eng.prop,
           eng'.pc = "rowrecord" => eng' = eng /\ sheet' = sheet
    PROVE  RowsOK'
<1>1. /\ \A p \in Pages : notion[p].prop \in Versions
      /\ \A p \in Pages : eng.prop[p] \in Versions
      /\ \A v \in Versions : v \in Nat
  BY DEF IInv, TypeOK, Notion, Engine, Versions
<1>2. ASSUME NEW p \in Alive'
      PROVE  RowTrue(p)' /\ (eng'.pc # "idle" => RowRead(p)')
  <2>1. /\ p \in Pages /\ p \in Alive /\ RowTrue(p) /\ (eng.pc # "idle" => RowRead(p))
        /\ RowStays(p)
    BY <1>2 DEF RowsOK, Alive
  <2>2. notion'[p].prop \in Nat
    BY <2>1 DEF TypeOK, Notion, Versions
  <2> QED
    BY <1>1, <2>1, <2>2 DEF RowStays, RowTrue, RowRead
<1> QED
  BY <1>2 DEF RowsOK

\* All of it together.
LEMMA PlaceStill ==
    ASSUME IInv, TypeOK', PlaceInv, Still,
           \/ eng' = Idle \/ eng' = eng
           \/ SameCrawl /\ eng.pc # "idle" /\ eng'.pc \notin {"folder", "doc", "body"}
           , RowsOK'
    PROVE  PlaceInv'
<1>1. eng'.pc \in {"doc", "body"} => SameHand
  BY DEF SameHand, Idle
<1>2. UsedOK' /\ PlaceOK' /\ HandPlaced' /\ \A p \in Pages : notion'[p].parent = Home[p]
  BY <1>1, StillPlaced
<1>3. /\ eng'.pc # "idle" => \A p \in Pages : eng'.area[p] = Home[p]
      /\ BelowOK' /\ SameOK'
  BY EngineStill
<1> QED
  BY <1>2, <1>3 DEF PlaceInv, AreaOK

\* _mirror_item is done with an item, or skips it.
LEMMA FinishedIs ==
    ASSUME IInv, NEW done \in BOOLEAN, eng' = Finished(done), eng.pc \in ItemSteps
    PROVE  \/ eng' = Idle
           \/ /\ SameCrawl /\ eng'.pc = "pick" /\ eng'.prop = eng.prop
              /\ eng'.todo = eng.todo /\ eng'.seen = eng.seen /\ eng'.cur = Null
              /\ eng'.grow = IF done /\ eng.job = "full" /\ Kind[eng.cur] = "page"
                             THEN eng.grow \cup {eng.cur} ELSE eng.grow
<1>1. CASE eng.job = "item"
  BY <1>1 DEF Finished
<1>2. CASE eng.job # "item"
  <2>1. eng \in Engine
    BY DEF IInv, TypeOK
  <2>2. SameCrawl /\ eng'.pc = "pick"
    BY <1>2, <2>1 DEF Finished, SameCrawl, Engine, Crawl
  <2>3. /\ eng'.prop = eng.prop /\ eng'.todo = eng.todo /\ eng'.seen = eng.seen /\ eng'.cur = Null
        /\ eng'.grow = IF done /\ eng.job = "full" /\ Kind[eng.cur] = "page"
                       THEN eng.grow \cup {eng.cur} ELSE eng.grow
    BY <1>2, <2>1 DEF Finished, Engine
  <2> QED
    BY <2>2, <2>3
<1> QED
  BY <1>1, <1>2

\* Steps that neither move a folder, nor enter one in the ledger, nor touch a row of a
\* page of Notion.
Quietly == \/ WriteDoc \/ RecordBody \/ ItemFails
           \/ BeginRemove \/ (\E p \in Pages : Refetch(p)) \/ RemoveDoc \/ RemoveFolder
           \/ ClearRow \/ RemoveFails \/ TombstonePair \/ EndRemove \/ Prune \/ EndFull
           \/ Crash \/ Skips

\* What such a step does to the engine.
LEMMA QuietlyGoes ==
    ASSUME IInv, Quietly
    PROVE  /\ eng' = Idle \/ (SameCrawl /\ eng'.prop = eng.prop
                                /\ eng'.pc \notin {"folder", "doc", "body", "rowrecord", "idle"})
           /\ eng.pc # "idle"
<1>1. eng \in Engine
  BY DEF IInv, TypeOK
<1>2. CASE ItemFails
  <2>1. eng' = Finished(FALSE) /\ eng.pc \in ItemSteps
    BY <1>2 DEF ItemFails, ItemSteps
  <2> QED
    BY <2>1, FinishedIs DEF ItemSteps
<1>3. CASE WriteDoc \/ RecordBody
  BY <1>1, <1>3 DEF WriteDoc, RecordBody, SameCrawl, Engine, Crawl, ItemSteps
<1>4. CASE BeginRemove \/ RemoveDoc \/ RemoveFolder \/ ClearRow
  BY <1>1, <1>4 DEF BeginRemove, RemoveDoc, RemoveFolder, RemoveFile, ClearRow, SameCrawl,
     Engine, Crawl, ItemSteps
<1>5. CASE \E p \in Pages : Refetch(p)
  <2>1. PICK p \in Pages : Refetch(p)
    BY <1>5
  <2>2. /\ eng.pc = "remove" /\ eng'.pc \in {"remove", "rmdoc"}
        /\ eng'.prop = eng.prop /\ eng'.area = eng.area /\ eng'.kids = eng.kids
        /\ eng'.job = eng.job /\ eng'.under = eng.under /\ eng'.folderOf = eng.folderOf
        /\ eng'.todo = eng.todo
    BY <1>1, <2>1 DEF Refetch, Engine
  <2> QED
    BY <2>2 DEF SameCrawl, Crawl, ItemSteps
<1>6. CASE RemoveFails \/ TombstonePair
  <2>1. /\ eng.pc \in RemoveSteps /\ eng'.pc \in {"remove", "tombstone"}
        /\ eng'.prop = eng.prop /\ eng'.area = eng.area /\ eng'.kids = eng.kids
        /\ eng'.job = eng.job /\ eng'.under = eng.under /\ eng'.folderOf = eng.folderOf
        /\ eng'.todo = eng.todo
    BY <1>1, <1>6 DEF RemoveFails, TombstonePair, Engine, RemoveSteps
  <2> QED
    BY <2>1 DEF SameCrawl, Crawl, ItemSteps, RemoveSteps
<1>7. CASE Prune \/ EndRemove
  BY <1>1, <1>7 DEF Prune, EndRemove, SameCrawl, Engine, Crawl, ItemSteps
<1>8. CASE EndFull \/ Crash
  BY <1>8 DEF EndFull, Crash
<1>9. CASE Skips
  BY <1>9, SkipsIs DEF SameCrawl, Crawl, ItemSteps, RemoveSteps
<1> QED
  BY <1>2, <1>3, <1>4, <1>5, <1>6, <1>7, <1>8, <1>9 DEF Quietly

\* And to the rest.
LEMMA QuietlyLeaves ==
    ASSUME IInv, Verified, Quietly
    PROVE  /\ Still /\ notion' = notion
           /\ \A p \in Alive : RowStays(p)
           /\ \A p \in Alive : /\ ledger'[p].folder \in {ledger[p].folder, Null}
                               /\ ledger'[p].doc \in {ledger[p].doc, Null}
<1>1. /\ ledger \in [Pages -> SyncPair] /\ drive \in [Objs -> File] /\ sheet \in [Pages -> Versions \cup {Null}]
      /\ notion \in [Pages -> Notion] /\ eng \in Engine
  BY DEF IInv, TypeOK
<1>2. notion' = notion
  BY SkipsIs DEF Quietly, WriteDoc, RecordBody, ItemFails, BeginRemove, Refetch, RemoveDoc,
     RemoveFolder, RemoveFile, ClearRow, RemoveFails, TombstonePair, EndRemove, Prune,
     EndFull, Crash, Quiet
<1>3. \A p \in Alive : p \in Pages /\ sheet'[p] = sheet[p]
  <2>1. CASE ClearRow
    <3>1. ~notion[eng.cur].alive
      BY <2>1 DEF ClearRow, Verified, RemoveSteps
    <3> QED
      BY <1>1, <2>1, <3>1 DEF ClearRow, Alive
  <2>2. CASE sheet' = sheet
    BY <2>2 DEF Alive
  <2> QED
    BY <2>1, <2>2, SkipsIs DEF Quietly, WriteDoc, RecordBody, ItemFails, BeginRemove, Refetch,
       RemoveDoc, RemoveFolder, RemoveFile, RemoveFails, TombstonePair, EndRemove, Prune,
       EndFull, Crash, Quiet
<1>4. \A x \in Objs : drive'[x].type = drive[x].type /\ drive'[x].parent = drive[x].parent
  <2>1. CASE WriteDoc
    BY <1>1, <2>1 DEF WriteDoc, File
  <2>2. CASE RemoveDoc \/ RemoveFolder \/ Prune
    <3>1. drive' = drive \/ \E os : drive' = Trashed(os)
      BY <2>2 DEF RemoveDoc, RemoveFolder, RemoveFile, Prune
    <3> QED
      BY <1>1, <3>1, TrashedOnly
  <2>3. CASE drive' = drive
    BY <2>3
  <2> QED
    BY <2>1, <2>2, <2>3, SkipsIs DEF Quietly, RecordBody, ItemFails, BeginRemove, Refetch, ClearRow,
       RemoveFails, TombstonePair, EndRemove, EndFull, Crash, Quiet
<1>5. ASSUME NEW p \in Pages
      PROVE  \/ ledger'[p] = NoRow
             \/ /\ ledger'[p].folder = ledger[p].folder /\ ledger'[p].parent = ledger[p].parent
                /\ ledger'[p].doc = ledger[p].doc /\ ledger'[p].prop = ledger[p].prop
                /\ ledger'[p].known = ledger[p].known
  <2>1. CASE RecordBody
    BY <1>1, <1>5, <2>1 DEF RecordBody, SyncPair
  <2>2. CASE TombstonePair
    BY <1>1, <1>5, <2>2 DEF TombstonePair, SyncPair
  <2>3. CASE EndFull
    BY <1>5, <2>3 DEF EndFull
  <2>4. CASE ledger' = ledger
    BY <2>4
  <2> QED
    BY <2>1, <2>2, <2>3, <2>4, SkipsIs DEF Quietly, WriteDoc, ItemFails, BeginRemove, Refetch,
       RemoveDoc, RemoveFolder, RemoveFile, ClearRow, RemoveFails, EndRemove, Prune, Crash, Quiet
<1>6. Still
  BY <1>2, <1>4, <1>5 DEF Still, FolderKept
<1>7. ASSUME NEW p \in Alive PROVE RowStays(p)
  <2>1. p \in Pages /\ notion[p].prop \in Nat
    BY <1>1, <1>3 DEF Notion, Versions
  <2>2. ledger'[p].prop = Null \/ (ledger'[p].prop = ledger[p].prop /\ ledger'[p].known = ledger[p].known)
    BY <1>5, <2>1 DEF NoRow
  <2> QED
    BY <1>2, <1>3, <2>1, <2>2 DEF RowStays
<1>8. ASSUME NEW p \in Alive
      PROVE  ledger'[p].folder \in {ledger[p].folder, Null} /\ ledger'[p].doc \in {ledger[p].doc, Null}
  BY <1>3, <1>5 DEF NoRow
<1> QED
  BY <1>2, <1>6, <1>7, <1>8

\* So folders and rows stay as they were.
LEMMA QuietlyPlaced ==
    ASSUME IInv, TypeOK', Verified, PlaceInv, Quietly
    PROVE  PlaceInv'
<1>1. Alive' = Alive
  BY QuietlyLeaves DEF Alive
<1>2. RowsOK'
  BY <1>1, QuietlyLeaves, QuietlyGoes, RowsStill DEF PlaceInv, Idle
<1> QED
  BY <1>2, QuietlyLeaves, QuietlyGoes, PlaceStill

-----------------------------------------------------------------------------
(* What else leaves folders where they are                                 *)

\* Edits only go forward, an archived page only goes, and a ledger that is reset says
\* nothing.
LEMMA EnvironmentPlaced ==
    ASSUME Reconcilable, IInv, TypeOK', PlaceInv, Environment
    PROVE  PlaceInv'
<1>1. ledger \in [Pages -> SyncPair] /\ notion \in [Pages -> Notion] /\ eng' = eng /\ sheet' = sheet
  BY DEF IInv, TypeOK, Environment, EditBody, EditProp, Archive, Restore, Reparent,
     TrashByHand, EditDocByHand, ResetLedger, Move
<1>2. /\ {"restore", "reparent", "trash", "handedit", "revert"} \cap Allowed = {}
      /\ drive' = drive
  BY DEF Reconcilable, Unspoilt, Environment, EditBody, EditProp, Archive, Restore, Reparent,
     TrashByHand, EditDocByHand, ResetLedger, Move
<1>3. CASE EditBody \/ EditProp \/ Archive
  <2>1. ledger' = ledger
    BY <1>3 DEF EditBody, EditProp, Archive
  <2>2. ASSUME NEW p \in Pages
        PROVE  /\ notion'[p].parent = notion[p].parent
               /\ notion'[p].alive => notion[p].alive
               /\ notion'[p].prop >= notion[p].prop
    <3>1. notion[p].prop \in Nat
      BY <1>1, <2>2 DEF Notion, Versions
    <3>2. CASE EditBody
      BY <1>1, <2>2, <3>1, <3>2 DEF EditBody, Notion
    <3>3. CASE EditProp
      <4>1. PICK q \in Alive \cap Spine, new \in Versions :
               /\ new > notion[q].prop
               /\ notion' = [notion EXCEPT ![q].prop = new]
        BY <1>2, <3>3 DEF EditProp, Older
      <4>2. notion'[p].prop = (IF p = q THEN new ELSE notion[p].prop)
        BY <1>1, <2>2, <4>1 DEF Notion
      <4>3. notion'[p].parent = notion[p].parent /\ notion'[p].alive = notion[p].alive
        BY <1>1, <2>2, <4>1 DEF Notion
      <4>4. new \in Nat
        BY DEF Versions
      <4> QED
        BY <3>1, <4>1, <4>2, <4>3, <4>4
    <3>4. CASE Archive
      BY <1>1, <2>2, <3>1, <3>4 DEF Archive, Notion
    <3> QED
      BY <1>3, <3>2, <3>3, <3>4
  <2>3. Still
    BY <1>2, <2>1, <2>2 DEF Still, FolderKept
  <2>4. \A p \in Alive' : p \in Alive /\ RowStays(p)
    BY <1>1, <2>1, <2>2 DEF Alive, RowStays
  <2>5. RowsOK'
    BY <1>1, <2>4, RowsStill DEF PlaceInv
  <2> QED
    BY <1>1, <2>3, <2>5, PlaceStill
<1>4. CASE ResetLedger
  <2>1. notion' = notion /\ \A p \in Pages : ledger'[p] = NoRow
    BY <1>4 DEF ResetLedger
  <2>2. Still
    BY <1>2, <2>1 DEF Still, FolderKept
  <2>3. \A p \in Alive' : p \in Alive /\ RowStays(p)
    BY <1>1, <2>1 DEF Alive, RowStays, NoRow, Notion, Versions
  <2>4. RowsOK'
    BY <1>1, <2>3, RowsStill DEF PlaceInv
  <2> QED
    BY <1>1, <2>2, <2>4, PlaceStill
<1> QED
  BY <1>2, <1>3, <1>4 DEF Environment, Restore, Reparent, TrashByHand, EditDocByHand, Move

\* A job begins by reading where pages are and what their rows should show.
LEMMA StartIs ==
    ASSUME Reconcilable, StartFull \/ StartPoll \/ StartItem
    PROVE  \E job \in {"full", "poll", "item"}, ps \in SUBSET Pages :
              /\ Start(job, ps)
              /\ job = "full" => ps = Spine \cap Alive
<1>1. CASE StartFull
  <2>1. {p \in Pages : Kind[p] = "loose"} = {}
    BY DEF Reconcilable
  <2>2. Start("full", Spine \cap Alive) /\ (Spine \cap Alive) \in SUBSET Pages
    BY <1>1, <2>1 DEF StartFull, Spine
  <2> QED
    BY <2>2
<1>2. CASE StartPoll
  <2>1. PICK ps \in {{}} \cup {{p} : p \in {q \in Alive : InScope(q)}} : Start("poll", ps)
    BY <1>2 DEF StartPoll
  <2>2. ps \in SUBSET Pages
    BY DEF Alive
  <2> QED
    BY <2>1, <2>2
<1>3. CASE StartItem
  <2>1. PICK p \in Pages : Start("item", {p})
    BY <1>3 DEF StartItem
  <2> QED
    BY <2>1
<1> QED
  BY <1>1, <1>2, <1>3

\* A job that begins has no folder in hand and remembers none.
LEMMA StartPlaced ==
    ASSUME Reconcilable, IInv, TypeOK', PlaceInv, StartFull \/ StartPoll \/ StartItem
    PROVE  PlaceInv'
<1>1. PICK job \in {"full", "poll", "item"}, ps \in SUBSET Pages :
          Start(job, ps) /\ (job = "full" => ps = Spine \cap Alive)
  BY StartIs
<1>2. /\ eng.pc = "idle" /\ notion' = notion /\ drive' = drive /\ sheet' = sheet /\ ledger' = ledger
      /\ eng'.pc = "pick" /\ eng'.job = job /\ eng'.todo = ps
      /\ \A p \in Pages : /\ eng'.area[p] = notion[p].parent /\ eng'.prop[p] = notion[p].prop
                          /\ eng'.kids[p] = Null /\ eng'.folderOf[p] = Null
  BY <1>1 DEF Start, Idle
<1>3. Still
  BY <1>2 DEF Still, FolderKept
<1>4. UsedOK' /\ PlaceOK' /\ HandPlaced' /\ \A p \in Pages : notion'[p].parent = Home[p]
  BY <1>2, <1>3, StillPlaced
<1>5. AreaOK'
  BY <1>2, <1>4 DEF AreaOK
<1>6. BelowOK'
  BY <1>1, <1>2 DEF BelowOK, Spine
<1>7. SameOK'
  BY <1>2 DEF SameOK, Alive
<1>8. RowsOK'
  <2>1. ASSUME NEW p \in Alive' PROVE RowTrue(p)' /\ RowRead(p)'
    <3>1. p \in Alive /\ p \in Pages /\ RowTrue(p)
      BY <1>2, <2>1 DEF Alive, PlaceInv, RowsOK
    <3>2. notion[p].prop \in Nat
      BY <3>1 DEF IInv, TypeOK, Notion, Versions
    <3> QED
      BY <1>2, <3>1, <3>2 DEF RowTrue, RowRead
  <2> QED
    BY <1>2, <2>1 DEF RowsOK
<1> QED
  BY <1>4, <1>5, <1>6, <1>7, <1>8 DEF PlaceInv

\* An item is taken up, and a child page read when it is met.
LEMMA PickIs ==
    ASSUME IInv, NEW p \in Pages, Pick(p)
    PROVE  /\ eng.pc = "pick" /\ p \in eng.todo /\ \A q \in eng.todo : Rank(p) <= Rank(q)
           /\ eng'.pc = (IF Kind[p] = "action" THEN "row" ELSE "folder")
           /\ eng'.cur = p /\ eng'.todo = eng.todo \ {p}
           /\ eng'.kids = eng.kids /\ eng'.job = eng.job /\ eng'.under = eng.under
           /\ eng'.folderOf = eng.folderOf /\ eng'.seen = eng.seen /\ eng'.grow = eng.grow
           /\ \A q \in Pages : /\ eng'.prop[q] \in {eng.prop[q], notion[q].prop}
                               /\ eng'.area[q] \in {eng.area[q], notion[q].parent}
           /\ UNCHANGED <<notion, drive, sheet, ledger, moves, faults, calm>>
<1>1. eng \in Engine
  BY DEF IInv, TypeOK
<1> QED
  BY <1>1 DEF Pick, Engine, Quiet

\* Taking an item up moves nothing; what is read of a child is so.
LEMMA PickPlaced ==
    ASSUME Reconcilable, IInv, TypeOK', PlaceInv, NEW p \in Pages, Pick(p)
    PROVE  PlaceInv'
<1>1. Still
  BY PickIs DEF Still, FolderKept
<1>2. UsedOK' /\ PlaceOK' /\ HandPlaced' /\ \A q \in Pages : notion'[q].parent = Home[q]
  BY <1>1, PickIs, StillPlaced
<1>3. AreaOK'
  BY <1>2, PickIs DEF AreaOK, PlaceInv
<1>4. BelowOK'
  BY PickIs DEF BelowOK, PlaceInv
<1>5. SameOK'
  BY PickIs DEF SameOK, PlaceInv, Alive, Crawl
<1>6. RowsOK'
  <2>1. ASSUME NEW q \in Alive' PROVE RowTrue(q)' /\ RowRead(q)'
    <3>1. q \in Alive /\ q \in Pages /\ RowTrue(q) /\ RowRead(q)
      BY <2>1, PickIs DEF Alive, PlaceInv, RowsOK
    <3>2. notion[q].prop \in Nat
      BY <3>1 DEF IInv, TypeOK, Notion, Versions
    <3> QED
      BY <3>1, <3>2, PickIs DEF RowTrue, RowRead
  <2> QED
    BY <2>1, PickIs DEF RowsOK
<1> QED
  BY <1>2, <1>3, <1>4, <1>5, <1>6 DEF PlaceInv

\* The children of a page are visited next.
LEMMA RecurseIs ==
    ASSUME IInv, NEW p \in Pages, Recurse(p)
    PROVE  /\ eng.pc = "pick" /\ eng.todo = {} /\ p \in eng.grow
           /\ eng'.pc = "pick" /\ eng'.todo = ToVisit(p) /\ eng'.under = p
           /\ eng'.seen = eng.seen \cup ToVisit(p) /\ eng'.grow = eng.grow \ {p}
           /\ eng'.kids = eng.kids /\ eng'.job = eng.job /\ eng'.area = eng.area
           /\ eng'.prop = eng.prop /\ eng'.folderOf = eng.folderOf
           /\ UNCHANGED <<notion, drive, sheet, ledger, moves, faults, calm>>
<1>1. eng \in Engine
  BY DEF IInv, TypeOK
<1> QED
  BY <1>1 DEF Recurse, Engine, Quiet

\* The children visited next have the page visited for their home.
LEMMA RecursePlaced ==
    ASSUME Reconcilable, IInv, TypeOK', PlaceInv, NEW p \in Pages, Recurse(p)
    PROVE  PlaceInv'
<1>1. Still
  BY RecurseIs DEF Still, FolderKept
<1>2. UsedOK' /\ PlaceOK' /\ HandPlaced' /\ \A q \in Pages : notion'[q].parent = Home[q]
  BY <1>1, RecurseIs, StillPlaced
<1>3. AreaOK'
  BY <1>2, RecurseIs DEF AreaOK, PlaceInv
<1>4. BelowOK'
  <2>1. \A c \in ToVisit(p) : Home[c] = p
    BY DEF ToVisit, Listed, Children, PlaceInv, AreaOK, BelowOK, Alive
  <2> QED
    BY <2>1, RecurseIs DEF BelowOK, PlaceInv
<1>5. SameOK'
  BY RecurseIs DEF SameOK, PlaceInv, Alive
<1>6. RowsOK'
  BY RecurseIs, RowsStill DEF PlaceInv, RowStays, Alive, IInv, TypeOK, Notion, Versions
<1> QED
  BY <1>2, <1>3, <1>4, <1>5, <1>6 DEF PlaceInv

-----------------------------------------------------------------------------
(* The row                                                                 *)

\* The row is written, or the item is done.
LEMMA RowIs ==
    ASSUME IInv, Row
    PROVE  /\ eng.pc = "row" /\ UNCHANGED <<notion, drive, ledger, moves, faults, calm>>
           /\ \/ /\ eng' = Finished(TRUE) /\ sheet' = sheet
                 /\ eng.cur \in Spine => ledger[eng.cur].prop = eng.prop[eng.cur]
              \/ /\ sheet' = [sheet EXCEPT ![eng.cur] = eng.prop[eng.cur]]
                 /\ SameCrawl /\ eng'.pc = "rowrecord" /\ eng'.prop = eng.prop
                 /\ eng'.cur = eng.cur /\ eng'.todo = eng.todo
                 /\ eng'.seen = eng.seen /\ eng'.grow = eng.grow
<1>1. eng \in Engine
  BY DEF IInv, TypeOK
<1> DEFINE skip == \/ eng.cur \notin Spine
                   \/ ledger[eng.cur].prop = eng.prop[eng.cur] /\ ledger[eng.cur].row
<1>2. eng.pc = "row" /\ UNCHANGED <<notion, drive, ledger, moves, faults, calm>>
  BY DEF Row, Quiet
<1>3. CASE skip
  BY <1>2, <1>3 DEF Row
<1>4. CASE ~skip
  <2>1. /\ sheet' = [sheet EXCEPT ![eng.cur] = eng.prop[eng.cur]]
        /\ eng' = [eng EXCEPT !.pc = "rowrecord"]
    BY <1>4 DEF Row
  <2>2. /\ SameCrawl /\ eng'.pc = "rowrecord" /\ eng'.prop = eng.prop
        /\ eng'.cur = eng.cur /\ eng'.todo = eng.todo
        /\ eng'.seen = eng.seen /\ eng'.grow = eng.grow
    BY <1>1, <1>2, <2>1 DEF SameCrawl, Engine, Crawl, ItemSteps
  <2> QED
    BY <1>2, <2>1, <2>2
<1> QED
  BY <1>3, <1>4

\* The row written shows what the engine has read of the page.
LEMMA RowPlaced ==
    ASSUME IInv, TypeOK', PlaceInv, Row
    PROVE  PlaceInv'
<1>1. Still /\ Alive' = Alive
  BY RowIs DEF Still, FolderKept, Alive
<1>2. /\ sheet \in [Pages -> Versions \cup {Null}] /\ eng.cur \in Pages
      /\ \A p \in Pages : notion[p].prop \in Nat /\ eng.prop[p] \in Nat
  <2>1. \A v \in Versions : v \in Nat
    BY DEF Versions
  <2>2. eng.pc = "row" /\ sheet \in [Pages -> Versions \cup {Null}]
    BY RowIs DEF IInv, TypeOK
  <2>3. \A p \in Pages : notion[p].prop \in Versions /\ eng.prop[p] \in Versions
    BY DEF IInv, TypeOK, Notion, Engine
  <2> QED
    BY <2>1, <2>2, <2>3 DEF IInv, CurOK, ItemSteps
<1>3. CASE eng' = Finished(TRUE) /\ sheet' = sheet
  <2>1. eng' = Idle \/ (SameCrawl /\ eng'.pc = "pick" /\ eng'.prop = eng.prop)
    BY <1>3, RowIs, FinishedIs DEF ItemSteps
  <2>2. \A p \in Alive' : p \in Alive /\ RowStays(p)
    BY <1>1, <1>2, <1>3, RowIs DEF RowStays, Alive
  <2>3. RowsOK'
    BY <2>1, <2>2, RowIs, RowsStill DEF PlaceInv, Idle
  <2> QED
    BY <1>1, <2>1, <2>3, RowIs, PlaceStill
<1>4. CASE /\ sheet' = [sheet EXCEPT ![eng.cur] = eng.prop[eng.cur]]
           /\ SameCrawl /\ eng'.pc = "rowrecord" /\ eng'.prop = eng.prop
           /\ eng'.cur = eng.cur
  <2>1. ASSUME NEW p \in Alive PROVE RowTrue(p)' /\ RowRead(p)'
    <3>1. p \in Pages /\ RowTrue(p) /\ RowRead(p)
      BY RowIs DEF PlaceInv, RowsOK, Alive
    <3>2. sheet'[p] = (IF p = eng.cur THEN eng.prop[p] ELSE sheet[p])
      BY <1>2, <1>4, <3>1
    <3>3. \A v \in Versions : v \in Nat
      BY DEF Versions
    <3> QED
      BY <1>2, <1>4, <3>1, <3>2, <3>3, RowIs DEF RowTrue, RowRead
  <2>2. RowsOK'
    BY <1>1, <1>2, <1>4, <2>1 DEF RowsOK
  <2> QED
    BY <1>1, <1>4, <2>2, RowIs, PlaceStill
<1> QED
  BY <1>3, <1>4, RowIs

\* The hash recorded is that of the row just written.
LEMMA RecordRowPlaced ==
    ASSUME IInv, TypeOK', PlaceInv, RecordRow
    PROVE  PlaceInv'
<1> DEFINE c == eng.cur
<1>1. /\ eng.pc = "rowrecord" /\ c \in Pages /\ ledger \in [Pages -> SyncPair]
      /\ \A p \in Pages : notion[p].prop \in Nat /\ eng.prop[p] \in Versions /\ eng.prop[p] \in Nat
      /\ sheet[c] = eng.prop[c]
  BY DEF RecordRow, IInv, TypeOK, CurOK, ItemSteps, Notion, Engine, Versions, PlaceInv, RowsOK
<1>2. /\ notion' = notion /\ drive' = drive /\ sheet' = sheet /\ eng' = Finished(TRUE)
      /\ ledger' = [ledger EXCEPT ![c].known = TRUE, ![c].row = TRUE, ![c].prop = eng.prop[c]]
  BY DEF RecordRow, Quiet
<1>3. /\ \A p \in Pages : /\ ledger'[p].folder = ledger[p].folder
                          /\ ledger'[p].parent = ledger[p].parent
      /\ \A p \in Pages \ {c} : ledger'[p] = ledger[p]
      /\ ledger'[c].known /\ ledger'[c].prop = eng.prop[c]
  BY <1>1, <1>2 DEF SyncPair
<1>4. Still /\ Alive' = Alive
  BY <1>2, <1>3 DEF Still, FolderKept, Alive
<1>5. eng' = Idle \/ (SameCrawl /\ eng'.pc = "pick" /\ eng'.prop = eng.prop)
  BY <1>1, <1>2, FinishedIs DEF ItemSteps
<1>6. ASSUME NEW p \in Alive PROVE RowTrue(p)' /\ (eng'.pc # "idle" => RowRead(p)')
  <2>1. p \in Pages /\ RowTrue(p) /\ RowRead(p)
    BY <1>1 DEF PlaceInv, RowsOK, Alive
  <2>2. eng'.pc # "idle" => eng'.prop = eng.prop
    BY <1>5 DEF Idle
  <2>3. CASE p = c
    <3>1. /\ eng.prop[p] <= notion'[p].prop /\ sheet'[p] = eng.prop[p]
          /\ ledger'[p].known /\ ledger'[p].prop = eng.prop[p] /\ eng.prop[p] \in Versions
          /\ ledger'[p].prop <= eng.prop[p]
      BY <1>1, <1>2, <1>3, <2>1, <2>3 DEF RowRead
    <3> QED
      BY <2>2, <3>1 DEF RowTrue, RowRead
  <2>4. CASE p # c
    BY <1>1, <1>2, <1>3, <2>1, <2>2, <2>4 DEF RowTrue, RowRead
  <2> QED
    BY <2>3, <2>4
<1>7. RowsOK'
  BY <1>4, <1>5, <1>6 DEF RowsOK, Idle
<1> QED
  BY <1>1, <1>4, <1>5, <1>7, PlaceStill

-----------------------------------------------------------------------------
(* The folder, the Doc and the pair of the item                            *)

\* The folder in hand is that of the pair, if the page has one.
LEMMA HandFolder ==
    ASSUME GateInv, eng.pc \in {"doc", "body"}, eng.cur \in Alive, ledger[eng.cur].folder # Null
    PROVE  ledger[eng.cur].folder = eng.fid
<1>1. notion[eng.cur].alive /\ HasDoc(eng.cur)
  BY DEF GateInv, PairOK, NoDoc, Alive
<1>2. ledger[eng.cur].doc # Null
  BY <1>1, NullAssumption DEF HasDoc, IsLive
<1> QED
  BY <1>1, <1>2 DEF GateInv, HandOK, HasDoc

\* Every job puts an item in the one folder it belongs in, once that is recorded.
LEMMA HomeStays ==
    ASSUME Reconcilable, IInv, GateInv, PlaceInv, eng.pc = "folder", HomeOf(eng.cur) # Null
    PROVE  ParentFolder(eng.cur) = HomeOf(eng.cur)
<1> DEFINE p == eng.cur
           a == Home[p]
<1>1. /\ p \in Pages /\ Kind[p] \in {"area", "project", "page"}
      /\ a \in Pages \cup {Null} /\ (Kind[p] = "page" => a \in Pages)
  BY HomesAre DEF IInv, CurOK, UnderOK, ItemSteps
<1>2. eng.area[p] = a /\ p \notin Nested
  BY <1>1 DEF PlaceInv, AreaOK, Reconcilable
<1>3. CASE Kind[p] = "area"
  BY <1>3 DEF ParentFolder, HomeOf
<1>4. CASE Kind[p] # "area" /\ a = Null
  <2>1. Kind[p] = "project"
    BY <1>1, <1>4, NullAssumption
  <2> QED
    BY <1>2, <1>4, <2>1 DEF ParentFolder, AreaFolder, HomeOf
<1>5. CASE Kind[p] # "area" /\ a # Null
  <2>1. a \in Alive /\ ledger[a].folder # Null /\ HomeOf(p) = ledger[a].folder
    BY <1>1, <1>5, HomeAlive DEF HomeOf
  <2>2. eng.folderOf[a] # Null => eng.folderOf[a] = ledger[a].folder
    BY <2>1 DEF PlaceInv, SameOK, Crawl, ItemSteps
  <2>3. CASE Kind[p] = "project"
    BY <1>2, <1>5, <2>1, <2>2, <2>3 DEF ParentFolder, AreaFolder
  <2>4. CASE Kind[p] = "page" /\ eng.job = "full"
    <3>1. eng.under = a /\ eng.folderOf[eng.under] # Null
      BY <1>1, <2>4 DEF PlaceInv, BelowOK, IInv, UnderOK
    <3> QED
      BY <2>1, <2>2, <2>4, <3>1 DEF ParentFolder
  <2>5. CASE Kind[p] = "page" /\ eng.job # "full"
    BY <1>2, <1>5, <2>1, <2>5 DEF ParentFolder, PageFolder
  <2> QED
    BY <1>1, <1>5, <2>3, <2>4, <2>5
<1> QED
  BY <1>3, <1>4, <1>5

\* What ResolveFolder does to the folder in hand: it lands in its home, or was
\* recorded there.
LEMMA FolderLands ==
    ASSUME Reconcilable, IInv, GateInv, PlaceInv, ResolveFolder
    PROVE  \E f \in Objs :
             /\ ResolvedTo(f, ParentFolder(eng.cur))
             /\ eng' = [eng EXCEPT !.pc = "doc", !.parent = ParentFolder(eng.cur), !.fid = f]
             /\ notion[eng.cur].alive /\ ParentFolder(eng.cur) = HomeOf(eng.cur)
                  => drive'[f].parent = HomeOf(eng.cur)
             /\ \/ f = ledger[eng.cur].folder
                \/ drive[f].type = "free"
<1> DEFINE p == eng.cur
           home == ParentFolder(p)
<1>1. PICK f \in Objs :
          /\ ResolvedTo(f, home)
          /\ eng' = [eng EXCEPT !.pc = "doc", !.parent = home, !.fid = f]
  BY FolderResolved DEF Reconcilable
<1>2. /\ eng.pc = "folder" /\ p \in Pages /\ eng \in Engine /\ drive \in [Objs -> File]
      /\ eng'.fid = f /\ f \in Objs /\ f # Null
  BY <1>1, NullAssumption DEF ResolveFolder, IInv, TypeOK, CurOK, ItemSteps, Engine
<1>3. f = ledger[p].folder \/ drive[f].type = "free"
  BY <1>1 DEF ResolvedTo
<1>4. ASSUME notion[p].alive, home = HomeOf(p) PROVE drive'[f].parent = home
  <2>1. CASE drive[f].type = "free"
    BY <1>1, <2>1, <1>2 DEF ResolvedTo, IInv, OwnObjects
  <2>2. CASE drive[f].type # "free"
    <3>1. f = ledger[p].folder /\ IsLive(f)
      BY <1>1, <1>2, <1>4, <2>2, LiveFolder DEF ResolvedTo, Alive
    <3>2. drive' = (IF Moves(p, home) THEN MovedTo(f, home) ELSE drive)
      <4>1. ~\E o \in Fresh : eng' = [eng EXCEPT !.pc = "doc", !.parent = home, !.fid = o]
        BY <1>2, <2>2 DEF Fresh, Engine
      <4> QED
        BY <3>1, <4>1 DEF ResolveFolder, KnownFolder
    <3>3. CASE Moves(p, home)
      <4>1. drive' = MovedTo(f, home) /\ drive[f] \in File
        BY <1>2, <3>2, <3>3
      <4> QED
        BY <1>2, <4>1 DEF MovedTo, File
    <3>4. CASE ~Moves(p, home)
      <4>1. /\ p \in Alive /\ Kind[p] # "action" /\ ledger[p].folder # Null
        BY <1>2, <1>4, <3>1, NullAssumption DEF Alive, IInv, UnderOK
      <4>2. /\ ledger[p].parent # Null
            /\ ledger[p].parent = HomeOf(p) => drive[ledger[p].folder].parent = HomeOf(p)
        BY <4>1 DEF PlaceInv, PlaceOK
      <4> QED
        BY <1>4, <3>1, <3>2, <3>4, <4>2 DEF Moves
    <3> QED
      BY <3>3, <3>4
  <2> QED
    BY <2>1, <2>2
<1> QED
  BY <1>1, <1>3, <1>4

\* A folder moved ahead of the record is in its home, if the home is the page's own.
LEMMA ResolveFolderPlaced ==
    ASSUME Reconcilable, IInv, IInv', GateInv, PlaceInv, ResolveFolder
    PROVE  PlaceInv'
<1> DEFINE c == eng.cur
           home == ParentFolder(c)
<1>1. PICK f \in Objs :
          /\ ResolvedTo(f, home)
          /\ eng' = [eng EXCEPT !.pc = "doc", !.parent = home, !.fid = f]
          /\ notion[c].alive /\ home = HomeOf(c) => drive'[f].parent = HomeOf(c)
          /\ f = ledger[c].folder \/ drive[f].type = "free"
  BY FolderLands
<1>2. /\ eng.pc = "folder" /\ c \in Pages /\ eng \in Engine /\ Kind[c] # "action"
      /\ ledger \in [Pages -> SyncPair] /\ drive \in [Objs -> File] /\ f \in Objs
      /\ home \in Objs \cup Fixed
  BY <1>1, ParentFolderType DEF ResolveFolder, IInv, TypeOK, CurOK, UnderOK, ItemSteps
<1>3. /\ notion' = notion /\ ledger' = ledger /\ sheet' = sheet
  BY DEF ResolveFolder
<1>4. /\ eng'.pc = "doc" /\ eng'.cur = c /\ eng'.fid = f /\ eng'.parent = home
      /\ eng'.area = eng.area /\ eng'.kids = eng.kids /\ eng'.job = eng.job
      /\ eng'.under = eng.under /\ eng'.todo = eng.todo /\ eng'.folderOf = eng.folderOf
      /\ eng'.prop = eng.prop
  BY <1>1, <1>2 DEF Engine
<1>5. /\ \A x \in Objs \ {f} : drive'[x] = drive[x]
      /\ drive'[f].type = "folder"
  BY <1>1 DEF ResolvedTo
<1>6. /\ \A p \in Alive : p \in Pages
      /\ Alive' = Alive /\ \A p \in Pages : HomeOf(p)' = HomeOf(p)
      /\ Null \notin Objs /\ Null \notin Fixed
  BY <1>3, NullAssumption DEF Alive, HomeOf
<1> HIDE DEF home
\* The folders of the other pages are not touched.
<1>7. ASSUME NEW p \in Pages \ {c}, ledger[p].folder # Null
      PROVE  ledger[p].folder \in Objs /\ drive'[ledger[p].folder] = drive[ledger[p].folder]
  <2>1. ledger[p].folder \in Objs /\ drive[ledger[p].folder].type = "folder"
    BY <1>2, <1>7 DEF SyncPair, IInv, OwnObjects
  <2>2. f # ledger[p].folder
    BY <1>1, <1>2, <1>7, <2>1 DEF IInv, OwnObjects
  <2> QED
    BY <1>5, <2>1, <2>2
<1>8. AreaOK' /\ BelowOK'
  BY <1>3, <1>4, <1>2 DEF PlaceInv, AreaOK, BelowOK
<1>9. SameOK'
  BY <1>2, <1>3, <1>4, <1>6 DEF PlaceInv, SameOK, Crawl, ItemSteps
<1>10. UsedOK'
  <2>1. ASSUME NEW o \in Objs, drive[o].type # "free" PROVE drive'[o].type # "free"
    BY <1>5, <2>1
  <2>2. home \in Objs => drive[home].type # "free"
    BY <1>2, HomeIsGood, FixedAssumption DEF GoodHome, IsLive, home
  <2> QED
    BY <1>3, <1>4, <2>1, <2>2 DEF PlaceInv, UsedOK
<1>11. PlaceOK'
  <2>1. SUFFICES ASSUME NEW p \in Alive, Kind[p] # "action", ledger[p].folder # Null
                 PROVE  /\ ledger[p].parent # Null
                        /\ ledger[p].parent = HomeOf(p) =>
                              drive'[ledger[p].folder].parent = HomeOf(p)
    BY <1>3, <1>6 DEF PlaceOK
  <2>2. /\ ledger[p].parent # Null
        /\ ledger[p].parent = HomeOf(p) => drive[ledger[p].folder].parent = HomeOf(p)
    BY <2>1 DEF PlaceInv, PlaceOK
  <2>3. CASE p # c
    BY <1>6, <1>7, <2>1, <2>2, <2>3
  <2>4. CASE p = c
    <3>1. SUFFICES ASSUME ledger[c].parent = HomeOf(c)
                   PROVE  drive'[ledger[c].folder].parent = HomeOf(c)
      BY <2>2, <2>4
    <3>2. home = HomeOf(c)
      BY <1>2, <2>2, <2>4, <3>1, HomeStays DEF home
    <3>3. IsLive(ledger[c].folder) /\ notion[c].alive
      BY <2>1, <2>4, LiveFolder DEF Alive
    <3>4. f = ledger[c].folder
      BY <1>1, <3>3 DEF ResolvedTo
    <3> QED
      BY <1>1, <3>2, <3>3, <3>4
  <2> QED
    BY <2>3, <2>4
<1>12. HandPlaced'
  <2>1. SUFFICES ASSUME notion[c].alive
                 PROVE  /\ Kind[c] # "action"
                        /\ home = HomeOf(c) => drive'[f].parent = HomeOf(c)
                        /\ \A p \in Alive :
                              /\ Home[p] = c /\ Kind[p] \notin {"area", "action"}
                              /\ ledger[p].folder # Null /\ ledger[p].parent = f
                              => drive'[ledger[p].folder].parent = f
    BY <1>2, <1>3, <1>4, <1>6 DEF HandPlaced
  <2>2. ASSUME NEW p \in Alive, Home[p] = c, Kind[p] \notin {"area", "action"},
               ledger[p].folder # Null, ledger[p].parent = f
        PROVE  drive'[ledger[p].folder].parent = f
    <3>1. p \in Pages \ {c}
      BY <1>6, <2>2, HomesAre
    <3>2. drive[f].type # "free"
      BY <1>2, <2>2, <3>1 DEF PlaceInv, UsedOK
    <3>3. f = ledger[c].folder /\ HomeOf(p) = f
      BY <1>1, <1>2, <2>2, <3>2, NullAssumption DEF HomeOf
    <3>4. drive[ledger[p].folder].parent = f
      BY <2>2, <3>3 DEF PlaceInv, PlaceOK
    <3> QED
      BY <1>7, <2>2, <3>1, <3>4
  <2> QED
    BY <1>1, <1>2, <2>1, <2>2
<1>13. RowsOK'
  BY <1>3, <1>4, <1>2, RowsStill DEF PlaceInv, RowStays, Alive, IInv, TypeOK, Notion, Versions
<1> QED
  BY <1>8, <1>9, <1>10, <1>11, <1>12, <1>13 DEF PlaceInv

\* What ResolveDoc does, with no failure that looks like a trashed Doc.
LEMMA DocResolved ==
    ASSUME Reconcilable, IInv, ResolveDoc
    PROVE  /\ eng.pc = "doc" /\ eng.cur \in Pages /\ eng.fid \in Objs /\ drive[eng.fid].type = "folder"
           /\ UNCHANGED <<notion, sheet, ledger, moves, faults, calm>>
           /\ \A x \in Objs : drive[x].type # "free" => drive'[x] = drive[x]
           /\ eng'.pc = "body" /\ eng'.cur = eng.cur /\ eng'.fid = eng.fid
           /\ eng'.parent = eng.parent
           /\ eng'.area = eng.area /\ eng'.kids = eng.kids /\ eng'.job = eng.job
           /\ eng'.under = eng.under /\ eng'.todo = eng.todo /\ eng'.prop = eng.prop
           /\ eng'.seen = eng.seen /\ eng'.grow = eng.grow
           /\ \A p \in Pages : eng'.folderOf[p] = IF p = eng.cur THEN eng.fid ELSE eng.folderOf[p]
<1>1. /\ eng.pc = "doc" /\ eng.cur \in Pages /\ eng.fid \in Objs /\ drive[eng.fid].type = "folder"
      /\ eng \in Engine /\ drive \in [Objs -> File]
  BY DEF ResolveDoc, IInv, TypeOK, CurOK, FolderOK, ItemSteps
<1>2. \E o \in Objs :
         /\ eng' = [eng EXCEPT !.pc = "body", !.did = o, !.folderOf[eng.cur] = eng.fid]
         /\ drive' = drive \/ (o \in Fresh /\ drive' = Created(o, "doc", eng.fid))
  <2>1. \A o : IsLive(o) => o \in Objs
    BY DEF IsLive
  <2>2. \A o \in Fresh : o \in Objs
    BY DEF Fresh
  <2> QED
    BY <2>1, <2>2 DEF ResolveDoc
<1>3. UNCHANGED <<notion, sheet, ledger, moves, faults, calm>>
  BY NotAllowed DEF ResolveDoc, Reconcilable
<1>4. \A x \in Objs : drive[x].type # "free" => drive'[x] = drive[x]
  BY <1>1, <1>2, CreatedKeeps
<1> QED
  BY <1>1, <1>2, <1>3, <1>4 DEF Engine

\* The folder the crawl remembers is the one in hand.
LEMMA ResolveDocPlaced ==
    ASSUME Reconcilable, IInv, TypeOK', GateInv, PlaceInv, ResolveDoc
    PROVE  PlaceInv'
<1>1. Still
  BY DocResolved DEF Still, FolderKept
<1>2. UsedOK' /\ PlaceOK' /\ HandPlaced' /\ \A q \in Pages : notion'[q].parent = Home[q]
  <2>1. SameHand
    BY DocResolved DEF SameHand
  <2> QED
    BY <1>1, <2>1, StillPlaced
<1>3. AreaOK' /\ BelowOK'
  BY <1>2, DocResolved DEF AreaOK, BelowOK, PlaceInv
<1>4. SameOK'
  <2>1. ASSUME NEW a \in Alive, eng'.folderOf[a] # Null, ledger[a].folder # Null
        PROVE  eng'.folderOf[a] = ledger[a].folder
    <3>1. a \in Pages
      BY DEF Alive
    <3>2. CASE a = eng.cur
      BY <2>1, <3>1, <3>2, DocResolved, HandFolder
    <3>3. CASE a # eng.cur
      BY <2>1, <3>1, <3>3, DocResolved DEF PlaceInv, SameOK, Crawl, ItemSteps
    <3> QED
      BY <3>2, <3>3
  <2> QED
    BY <2>1, DocResolved DEF SameOK, Alive
<1>5. RowsOK'
  BY DocResolved, RowsStill DEF PlaceInv, RowStays, Alive, IInv, TypeOK, Notion, Versions
<1> QED
  BY <1>2, <1>3, <1>4, <1>5 DEF PlaceInv

\* What FetchBody does when the body can be read.
LEMMA BodyFetched ==
    ASSUME Reconcilable, IInv, FetchBody
    PROVE  /\ eng.pc = "body" /\ eng.cur \in Pages /\ eng.fid \in Objs
           /\ UNCHANGED <<notion, drive, sheet, moves, faults, calm>>
           /\ \A p \in Pages \ {eng.cur} : ledger'[p] = ledger[p]
           /\ ledger'[eng.cur].known /\ ledger'[eng.cur].folder = eng.fid
           /\ ledger'[eng.cur].doc = eng.did /\ ledger'[eng.cur].parent = eng.parent
           /\ ledger'[eng.cur].prop = ledger[eng.cur].prop
           /\ ledger'[eng.cur].body = ledger[eng.cur].body
           /\ eng'.pc = (IF ledger[eng.cur].body # notion[eng.cur].body THEN "write" ELSE "row")
           /\ eng'.md = notion[eng.cur].body /\ eng'.cur = eng.cur
           /\ eng'.area = eng.area /\ eng'.job = eng.job /\ eng'.folderOf = eng.folderOf
           /\ eng'.under = eng.under /\ eng'.todo = eng.todo /\ eng'.prop = eng.prop
           /\ eng'.seen = eng.seen /\ eng'.grow = eng.grow
           /\ \A p \in Pages : eng'.kids[p] = IF p = eng.cur THEN Children(p) ELSE eng.kids[p]
<1> DEFINE c == eng.cur
           md == notion[c].body
<1>1. /\ eng.pc = "body" /\ c \in Pages /\ eng.fid \in Objs /\ eng.did \in Objs
      /\ eng \in Engine /\ ledger \in [Pages -> SyncPair] /\ md \in Versions
  BY DEF FetchBody, IInv, TypeOK, CurOK, FolderOK, DocOK, ItemSteps, Notion
<1>2. md # Unreadable
  BY <1>1, NullAssumption
<1>3. /\ UNCHANGED <<notion, drive, sheet, moves, faults, calm>>
      /\ ledger' = [ledger EXCEPT ![c] = Upserted(c, md)]
      /\ eng' = [eng EXCEPT !.md = md, !.kids[c] = IF md = Unreadable THEN {} ELSE Children(c),
                            !.pc = IF ledger[c].body # md THEN "write" ELSE "row"]
  BY NotAllowed DEF FetchBody, Reconcilable
<1>4. /\ \A q \in Pages \ {c} : ledger'[q] = ledger[q]
      /\ ledger'[c].known /\ ledger'[c].folder = eng.fid /\ ledger'[c].doc = eng.did
      /\ ledger'[c].parent = eng.parent
      /\ ledger'[c].body = ledger[c].body /\ ledger'[c].prop = ledger[c].prop
  BY <1>1, <1>3 DEF Upserted, SyncPair
<1>5. /\ eng'.pc = (IF ledger[c].body # md THEN "write" ELSE "row") /\ eng'.md = md
      /\ eng'.cur = c
      /\ eng'.area = eng.area /\ eng'.job = eng.job /\ eng'.folderOf = eng.folderOf
      /\ eng'.under = eng.under /\ eng'.todo = eng.todo /\ eng'.prop = eng.prop
      /\ eng'.seen = eng.seen /\ eng'.grow = eng.grow
  BY <1>1, <1>3 DEF Engine
<1>6. \A p \in Pages : eng'.kids[p] = IF p = c THEN Children(p) ELSE eng.kids[p]
  BY <1>1, <1>2, <1>3 DEF Engine
<1> QED
  BY <1>1, <1>3, <1>4, <1>5, <1>6

\* The pair gets the folder in hand and where that was put.
LEMMA FetchBodyPlaced ==
    ASSUME Reconcilable, IInv, TypeOK', GateInv, PlaceInv, FetchBody
    PROVE  PlaceInv'
<1> DEFINE c == eng.cur
<1>1. /\ Alive' = Alive /\ (\A p \in Alive : p \in Pages) /\ Null \notin Objs
      /\ eng.parent \in Objs \cup Fixed /\ Null \notin Fixed
  BY BodyFetched, NullAssumption DEF Alive, IInv, TypeOK, Engine
<1>2. eng'.pc \in {"write", "row"} /\ eng.pc = "body"
  BY BodyFetched
<1>3. AreaOK'
  BY <1>2, BodyFetched DEF PlaceInv, AreaOK
<1>4. BelowOK'
  <2>1. \A p \in Pages : eng'.kids[p] # Null => \A q \in eng'.kids[p] : Home[q] = p
    <3>1. \A q \in Children(c) : Home[q] = c
      BY DEF Children, PlaceInv, AreaOK, Alive
    <3>2. \A p \in Pages : eng.kids[p] # Null => \A q \in eng.kids[p] : Home[q] = p
      BY DEF PlaceInv, BelowOK
    <3> QED
      BY <3>1, <3>2, BodyFetched
  <2> QED
    BY <1>2, <2>1, BodyFetched DEF PlaceInv, BelowOK
<1>5. SameOK'
  <2>1. ASSUME NEW a \in Alive, eng.folderOf[a] # Null, ledger'[a].folder # Null
        PROVE  eng.folderOf[a] = ledger'[a].folder
    <3>1. CASE a = c
      BY <1>2, <3>1, BodyFetched DEF PlaceInv, SameOK
    <3>2. CASE a # c
      BY <1>1, <1>2, <2>1, <3>2, BodyFetched DEF PlaceInv, SameOK, Crawl, ItemSteps
    <3> QED
      BY <3>1, <3>2
  <2> QED
    BY <1>1, <1>2, <2>1, BodyFetched DEF SameOK
<1>6. UsedOK'
  <2>1. ASSUME NEW p \in Pages, ledger'[p].parent \in Objs
        PROVE  drive[ledger'[p].parent].type # "free"
    <3>1. CASE p = c
      BY <1>2, <2>1, <3>1, BodyFetched DEF PlaceInv, UsedOK
    <3>2. CASE p # c
      BY <2>1, <3>2, BodyFetched DEF PlaceInv, UsedOK
    <3> QED
      BY <3>1, <3>2
  <2> QED
    BY <1>2, <2>1, BodyFetched DEF UsedOK
<1>7. PlaceOK'
  <2>1. SUFFICES ASSUME NEW p \in Alive, Kind[p] # "action", ledger'[p].folder # Null
                 PROVE  /\ ledger'[p].parent # Null
                        /\ ledger'[p].parent = HomeOf(p)' =>
                              drive[ledger'[p].folder].parent = HomeOf(p)'
    BY <1>1, BodyFetched DEF PlaceOK
  <2>2. HomeOf(p)' = (IF Kind[p] = "area" THEN AreasFolder
                      ELSE IF Home[p] = Null THEN Unsorted ELSE ledger'[Home[p]].folder)
    BY DEF HomeOf
  <2>3. CASE p = c
    <3>1. HomeOf(p)' = HomeOf(p)
      BY <1>1, <2>1, <2>2, <2>3, HomesAre, BodyFetched DEF HomeOf
    <3>2. HandPlaced /\ notion[c].alive
      BY <2>3 DEF PlaceInv, Alive
    <3> QED
      BY <1>1, <1>2, <2>3, <3>1, <3>2, BodyFetched DEF HandPlaced
  <2>4. CASE p # c
    <3>1. /\ ledger'[p] = ledger[p] /\ ledger[p].parent # Null
          /\ ledger[p].parent = HomeOf(p) => drive[ledger[p].folder].parent = HomeOf(p)
      BY <1>1, <2>1, <2>4, BodyFetched DEF PlaceInv, PlaceOK
    <3>2. CASE Home[p] = c /\ Kind[p] # "area"
      <4>1. HomeOf(p)' = eng.fid
        BY <1>1, <2>2, <3>2, BodyFetched, NullAssumption
      <4>2. c \in Alive
        BY <1>1, <3>2, BodyFetched, HomeAlive, NullAssumption
      <4>3. HandPlaced /\ notion[c].alive
        BY <4>2 DEF PlaceInv, Alive
      <4> QED
        BY <1>2, <2>1, <3>1, <3>2, <4>1, <4>3 DEF HandPlaced
    <3>3. CASE Home[p] # c \/ Kind[p] = "area"
      <4>1. HomeOf(p)' = HomeOf(p)
        BY <1>1, <2>2, <3>3, HomesAre, BodyFetched DEF HomeOf
      <4> QED
        BY <3>1, <4>1
    <3> QED
      BY <3>2, <3>3
  <2> QED
    BY <2>3, <2>4
<1>8. HandPlaced'
  BY <1>2 DEF HandPlaced
<1>9. RowsOK'
  <2>1. \A p \in Alive' : p \in Alive /\ RowStays(p)
    BY <1>1, BodyFetched DEF RowStays, IInv, TypeOK, Notion, Versions
  <2> QED
    BY <1>2, <2>1, BodyFetched, RowsStill DEF PlaceInv
<1> QED
  BY <1>3, <1>4, <1>5, <1>6, <1>7, <1>8, <1>9 DEF PlaceInv

-----------------------------------------------------------------------------
(* A reconcile that nothing disturbs: what is done stays done              *)

\* A page that is shown and placed stays so while its pair, its row, its home, the
\* place of its folder and the text of its Doc do: the rest is that of GateInv.
LEMMA StaysShown ==
    ASSUME Reconcilable, AreaOK, AreaOK', GateInv', notion' = notion,
           NEW p \in Alive, Shown(p), Placed(p), ledger'[p].known,
           Kind[p] # "action" => HomeOf(p)' = HomeOf(p),
           ledger'[p].folder = ledger[p].folder, ledger'[p].doc = ledger[p].doc,
           p \in Spine => sheet'[p] = sheet[p],
           Kind[p] # "action" =>
              /\ drive'[ledger[p].folder].parent = drive[ledger[p].folder].parent
              /\ drive'[ledger[p].doc].text = drive[ledger[p].doc].text
    PROVE  Shown(p)' /\ Placed(p)'
<1>1. p \in Pages /\ p \in Alive'
  BY DEF Alive
<1>2. ASSUME Kind[p] # "action" PROVE IsLive(ledger[p].folder)' /\ IsLive(ledger[p].doc)'
  <2>1. ledger'[p].folder # Null
    BY <1>2, NullAssumption DEF Shown, IsLive
  <2>2. HasDoc(p)'
    BY <1>1, <2>1 DEF GateInv, PairOK, NoDoc
  <2> QED
    BY <2>2 DEF HasDoc, IsLive
<1>3. Shown(p)'
  BY <1>2 DEF Shown, IsLive
<1>4. Placed(p)'
  <2>1. Kind[p] # "action" => drive[ledger[p].folder].parent = HomeOf(p)
    BY <1>1, PlacedIs
  <2>2. Kind[p] # "action" => drive'[ledger'[p].folder].parent = HomeOf(p)'
    BY <2>1
  <2> QED
    BY <1>1, <2>2, HomesAre DEF Placed, AreaOK, HomeOf
<1> QED
  BY <1>3, <1>4

\* A reconcile begins: everything seen is to do.
LEMMA StartCalm ==
    ASSUME Reconcilable, StartFull \/ StartPoll \/ StartItem
    PROVE  CalmInv'
<1>1. PICK job \in {"full", "poll", "item"}, ps \in SUBSET Pages :
          Start(job, ps) /\ (job = "full" => ps = Spine \cap Alive)
  BY StartIs
<1>2. /\ notion' = notion /\ eng'.pc = "pick" /\ eng'.job = job /\ eng'.todo = ps
      /\ \A p \in Pages : /\ eng'.prop[p] = notion[p].prop
                          /\ eng'.kids[p] = Null /\ eng'.folderOf[p] = Null
      /\ job = "full" => eng'.seen = ps /\ eng'.grow = {p \in ps : Kind[p] # "action"}
  BY <1>1 DEF Start, Idle
<1>3. CASE job # "full"
  BY <1>2, <1>3 DEF CalmInv, Calm, ReadNow, SameNow, SeenNow, DoneNow, GrowNow, HandNow
<1>4. CASE job = "full"
  <2>1. Alive' = Alive /\ ps \subseteq Pages /\ ps = Spine \cap Alive
    BY <1>1, <1>2, <1>4 DEF Alive
  <2>2. ReadNow' /\ SameNow'
    BY <1>2 DEF ReadNow, SameNow, Alive
  <2>3. SeenNow' /\ HandNow'
    BY <1>2, <1>4, <2>1 DEF SeenNow, HandNow, Crawl, ItemSteps
  <2>4. DoneNow'
    BY <1>2, <1>4 DEF DoneNow
  <2>5. GrowNow'
    BY <1>2, <1>4 DEF GrowNow, Grown
  <2> QED
    BY <2>2, <2>3, <2>4, <2>5 DEF CalmInv
<1> QED
  BY <1>1, <1>3, <1>4

\* An item is taken up: areas come before projects.
LEMMA PickCalm ==
    ASSUME IInv, CalmInv, NEW p \in Pages, Pick(p)
    PROVE  CalmInv'
<1>1. SUFFICES ASSUME Calm' PROVE CalmInv'
  BY DEF CalmInv, ReadNow, SameNow, SeenNow, DoneNow, GrowNow, HandNow
<1>2. Calm /\ eng.pc = "pick" /\ Alive' = Alive /\ eng'.pc \in {"row", "folder"}
  BY <1>1, PickIs DEF Calm, Alive
<1>3. \A q \in Pages : Children(q)' = Children(q)
  BY PickIs DEF Children, Alive
<1>4. ReadNow'
  BY <1>2, <1>3, PickIs DEF ReadNow, CalmInv
<1>5. SameNow'
  BY <1>2, PickIs DEF SameNow, CalmInv, Crawl
<1>6. SeenNow'
  <2>1. Kind[p] = "project" => \A q \in eng.todo : Kind[q] # "area"
    BY PickIs DEF Rank
  <2> QED
    BY <1>2, <2>1, PickIs DEF SeenNow, CalmInv, Crawl, ItemSteps
<1>7. DoneNow'
  <2>1. ASSUME NEW q \in eng.seen PROVE q \in eng'.todo \/ InItem(q)' \/ Done(q)'
    <3>1. q \in eng.todo \/ Done(q)
      BY <1>2 DEF CalmInv, DoneNow, InItem, ItemSteps
    <3>2. q \in Pages
      BY DEF IInv, TypeOK, Engine
    <3>3. CASE q \in eng.todo
      BY <1>2, <3>3, PickIs DEF InItem, ItemSteps
    <3>4. CASE Done(q)
      <4>1. Shown(q)' /\ Placed(q)'
        BY <3>4, PickIs DEF Done, Shown, Placed, IsLive
      <4>2. Kind[q] # "action" => Entered(q)'
        BY <1>2, <1>3, <3>2, <3>4, PickIs DEF Done, Entered, Crawl
      <4> QED
        BY <4>1, <4>2 DEF Done
    <3> QED
      BY <3>1, <3>3, <3>4
  <2> QED
    BY <2>1, PickIs DEF DoneNow
<1>8. GrowNow'
  <2>1. ASSUME NEW q \in eng.seen PROVE Grown(q)'
    <3>1. Grown(q) /\ q \in Pages
      BY <1>2 DEF CalmInv, GrowNow, Crawl, IInv, TypeOK, Engine
    <3> QED
      BY <1>2, <1>3, <3>1, PickIs DEF Grown, InItem, ItemSteps
  <2> QED
    BY <2>1, PickIs DEF GrowNow
<1>9. HandNow'
  BY PickIs DEF HandNow
<1> QED
  BY <1>4, <1>5, <1>6, <1>7, <1>8, <1>9 DEF CalmInv

\* The children of a page that is done are as Notion has them.
LEMMA RecurseCalm ==
    ASSUME IInv, CalmInv, NEW p \in Pages, Recurse(p)
    PROVE  CalmInv'
<1> DEFINE kids == ToVisit(p)
<1>1. SUFFICES ASSUME Calm' PROVE CalmInv'
  BY DEF CalmInv, ReadNow, SameNow, SeenNow, DoneNow, GrowNow, HandNow
<1>2. Calm /\ eng.pc = "pick" /\ Alive' = Alive /\ eng'.pc = "pick" /\ eng.todo = {}
  BY <1>1, RecurseIs DEF Calm, Alive
<1>3. \A q \in Pages : Children(q)' = Children(q)
  BY RecurseIs DEF Children, Alive
<1>4. p \in eng.seen /\ Done(p)
  BY <1>2, RecurseIs DEF CalmInv, SeenNow, DoneNow, InItem, ItemSteps
<1>5. /\ kids \subseteq Alive /\ \A q \in kids : Kind[q] = "page"
      /\ Kind[p] # "action" => kids = Children(p)
  <2>1. /\ Children(p) \subseteq Alive /\ \A q \in Children(p) : Kind[q] = "page"
    BY DEF Children
  <2>2. eng.kids[p] \in {Null, Children(p)}
    BY <1>2 DEF CalmInv, ReadNow
  <2>3. Kind[p] # "action" => Entered(p)
    BY <1>2, <1>4 DEF Done, Crawl
  <2> QED
    BY <2>1, <2>2, <2>3 DEF ToVisit, Listed, Entered
<1> HIDE DEF kids
<1>6. /\ eng'.todo = kids /\ eng'.seen = eng.seen \cup kids /\ eng'.grow = eng.grow \ {p}
  BY RecurseIs DEF kids
<1>7. ReadNow'
  BY <1>2, <1>3, RecurseIs DEF ReadNow, CalmInv
<1>8. SameNow'
  BY <1>2, RecurseIs DEF SameNow, CalmInv
<1>9. SeenNow'
  BY <1>2, <1>5, <1>6 DEF SeenNow, CalmInv, Crawl, ItemSteps
<1>10. DoneNow'
  <2>1. ASSUME NEW q \in eng.seen PROVE Done(q)'
    <3>1. Done(q) /\ q \in Pages
      BY <1>2 DEF CalmInv, DoneNow, InItem, ItemSteps, IInv, TypeOK, Engine
    <3>2. Shown(q)' /\ Placed(q)'
      BY <3>1, RecurseIs DEF Done, Shown, Placed, IsLive
    <3>3. Kind[q] # "action" => Entered(q)'
      BY <1>2, <1>3, <3>1, RecurseIs DEF Done, Entered, Crawl
    <3> QED
      BY <3>2, <3>3 DEF Done
  <2> QED
    BY <1>6, <2>1 DEF DoneNow
<1>11. GrowNow'
  <2>1. ASSUME NEW q \in eng'.seen PROVE Grown(q)'
    <3>1. CASE q \in kids
      BY <1>5, <1>6, <3>1 DEF Grown
    <3>2. CASE q = p
      BY <1>3, <1>5, <1>6, <3>2 DEF Grown
    <3>3. CASE q \notin kids /\ q # p
      <4>1. q \in eng.seen /\ q \in Pages
        BY <1>6, <3>3 DEF IInv, TypeOK, Engine
      <4>2. Kind[q] = "action" \/ q \in eng.grow \/ Children(q) \subseteq eng.seen
        BY <1>2, <4>1 DEF CalmInv, GrowNow, Grown, Crawl, InItem, ItemSteps
      <4> QED
        BY <1>3, <1>6, <3>3, <4>1, <4>2 DEF Grown
    <3> QED
      BY <3>1, <3>2, <3>3
  <2> QED
    BY <2>1 DEF GrowNow
<1>12. HandNow'
  BY <1>2 DEF HandNow, ItemSteps
<1> QED
  BY <1>7, <1>8, <1>9, <1>10, <1>11, <1>12 DEF CalmInv

-----------------------------------------------------------------------------
(* The item in hand, step by step                                          *)

SameItem ==
    /\ eng.pc \in ItemSteps /\ eng'.pc \in ItemSteps /\ eng'.cur = eng.cur
    /\ eng'.todo = eng.todo /\ eng'.seen = eng.seen /\ eng'.grow = eng.grow
    /\ eng'.prop = eng.prop /\ eng'.job = eng.job
    /\ \A p \in Pages : eng'.kids[p] = eng.kids[p]
                        \/ (p = eng.cur /\ eng'.kids[p] = Children(p))
    /\ \A p \in Pages \ {eng.cur} : eng'.folderOf[p] = eng.folderOf[p]
    /\ notion' = notion /\ calm' = calm

\* Such a step leaves what was read and what is to be visited as it was.
LEMMA ItemKept ==
    ASSUME IInv, CalmInv, SameItem, Calm'
    PROVE  /\ Calm /\ ReadNow' /\ SeenNow' /\ GrowNow'
           /\ eng.cur \in Alive /\ eng.cur \in Pages
           /\ Alive' = Alive /\ \A p \in Pages : Children(p)' = Children(p)
<1>1. Calm /\ Alive' = Alive
  BY DEF SameItem, Calm, Alive, ItemSteps
<1>2. \A p \in Pages : Children(p)' = Children(p)
  BY DEF SameItem, Children, Alive
<1>3. ReadNow'
  BY <1>1, <1>2 DEF SameItem, CalmInv, ReadNow
<1>4. SeenNow'
  BY <1>1 DEF SameItem, CalmInv, SeenNow, Crawl
<1>5. GrowNow'
  <2>1. ASSUME NEW q \in eng.seen PROVE Grown(q)'
    <3>1. Grown(q) /\ q \in Pages
      BY <1>1 DEF SameItem, CalmInv, GrowNow, Crawl, IInv, TypeOK, Engine
    <3> QED
      BY <1>2, <3>1 DEF SameItem, Grown, InItem
  <2> QED
    BY <2>1 DEF GrowNow, SameItem
<1>6. eng.cur \in Alive /\ eng.cur \in Pages
  BY <1>1 DEF SameItem, CalmInv, SeenNow, Alive
<1> QED
  BY <1>1, <1>2, <1>3, <1>4, <1>5, <1>6

\* A step that leaves the other pages' pairs, rows, folders and Docs alone leaves them
\* as done as they were; the folder it enters for the item is the one that was there.
LEMMA DoneKept ==
    ASSUME Reconcilable, IInv, AreaOK, AreaOK', GateInv, GateInv', CalmInv, SameItem, Calm',
           \A p \in Alive \ {eng.cur} :
              /\ ledger'[p] = ledger[p] /\ sheet'[p] = sheet[p]
              /\ ledger[p].folder \in Objs =>
                    drive'[ledger[p].folder].parent = drive[ledger[p].folder].parent
              /\ ledger[p].doc \in Objs => drive'[ledger[p].doc].text = drive[ledger[p].doc].text,
           ledger[eng.cur].folder # Null => ledger'[eng.cur].folder = ledger[eng.cur].folder
    PROVE  DoneNow'
<1> DEFINE c == eng.cur
<1>1. Calm /\ \A p \in Pages : Children(p)' = Children(p)
  BY ItemKept
<1>2. ASSUME NEW p \in eng.seen, p # c, Done(p) PROVE Done(p)'
  <2>1. p \in Alive /\ p \in Pages /\ Shown(p) /\ Placed(p)
    BY <1>1, <1>2 DEF CalmInv, SeenNow, Alive, Done
  <2>2. Kind[p] # "action" => ledger[p].folder \in Objs /\ ledger[p].doc \in Objs
    BY <2>1 DEF Shown, IsLive
  <2>3. ASSUME Kind[p] # "action" PROVE HomeOf(p)' = HomeOf(p)
    <3>1. CASE Kind[p] = "area" \/ Home[p] = Null
      BY <3>1 DEF HomeOf
    <3>2. CASE Kind[p] # "area" /\ Home[p] # Null /\ Home[p] # c
      <4>1. Home[p] \in Alive
        BY <2>1, <3>2, HomeAlive
      <4> QED
        BY <3>2, <4>1 DEF HomeOf
    <3>3. CASE Kind[p] # "area" /\ Home[p] # Null /\ Home[p] = c
      <4>1. drive[ledger[p].folder].parent = ledger[c].folder
        BY <2>1, <2>3, <3>3, PlacedIs DEF HomeOf
      <4>2. drive[ledger[p].folder].parent \in Objs \cup Fixed
        BY <2>2, <2>3 DEF IInv, TypeOK, File
      <4>3. ledger[c].folder # Null
        BY <4>1, <4>2, NullAssumption
      <4> QED
        BY <3>3, <4>3 DEF HomeOf
    <3> QED
      BY <3>1, <3>2, <3>3
  <2>4. Shown(p)' /\ Placed(p)'
    <3>1. ledger'[p] = ledger[p] /\ sheet'[p] = sheet[p] /\ ledger[p].known /\ notion' = notion
      BY <1>2, <2>1 DEF Shown, SameItem
    <3> QED
      BY <1>2, <2>1, <2>2, <2>3, <3>1, StaysShown
  <2>5. Kind[p] # "action" => Entered(p)'
    BY <1>1, <1>2, <2>1 DEF Done, Entered, SameItem, Crawl
  <2> QED
    BY <2>4, <2>5 DEF Done
<1>3. ASSUME NEW p \in eng.seen PROVE p \in eng'.todo \/ InItem(p)' \/ Done(p)'
  <2>1. p \in eng.todo \/ InItem(p) \/ Done(p)
    BY <1>1 DEF CalmInv, DoneNow
  <2>2. p = c => InItem(p)'
    BY DEF InItem, SameItem
  <2>3. p \in eng.todo => p \in eng'.todo
    BY DEF SameItem
  <2>4. InItem(p) => p = c
    BY DEF InItem
  <2> QED
    BY <1>2, <2>1, <2>2, <2>3, <2>4
<1> QED
  BY <1>3 DEF DoneNow, SameItem

\* In such a reconcile the home of the item has its folder: areas are done before
\* projects, and a page is met under a folder the crawl remembers.
LEMMA HomeIsThere ==
    ASSUME Reconcilable, IInv, GateInv, PlaceInv, CalmInv, Calm, eng.pc = "folder"
    PROVE  HomeOf(eng.cur) # Null
<1> DEFINE p == eng.cur
           a == Home[p]
<1>1. /\ p \in Pages /\ Kind[p] \in {"area", "project", "page"}
      /\ a \in Pages \cup {Null} /\ (Kind[p] = "page" => a \in Pages)
      /\ Kind[p] = "project" /\ a # Null => Kind[a] = "area"
      /\ Kind[p] # "area" => a # p
  BY HomesAre DEF IInv, CurOK, UnderOK, ItemSteps
<1>2. CASE Kind[p] = "area" \/ a = Null
  BY <1>2, NullAssumption DEF HomeOf, Fixed
<1>3. CASE Kind[p] # "area" /\ a # Null
  <2>1. a \in Alive /\ a \in Pages /\ HomeOf(p) = ledger[a].folder
    BY <1>1, <1>3, HomeAlive DEF HomeOf
  <2>2. CASE Kind[p] = "project"
    <3>1. Kind[a] = "area" /\ a \in Spine
      BY <1>1, <1>3, <2>1, <2>2 DEF Spine
    <3>2. a \in eng.seen /\ a \notin eng.todo
      BY <2>1, <2>2, <3>1 DEF CalmInv, SeenNow, ItemSteps
    <3>3. Done(a)
      BY <1>1, <1>3, <3>2 DEF CalmInv, DoneNow, InItem
    <3> QED
      BY <2>1, <3>1, <3>3, NullAssumption DEF Done, Shown, IsLive
  <2>3. CASE Kind[p] = "page"
    <3>1. eng.under = a /\ eng.folderOf[a] # Null
      BY <1>1, <2>3 DEF Calm, PlaceInv, BelowOK, IInv, UnderOK
    <3> QED
      BY <2>1, <3>1 DEF CalmInv, SameNow, Crawl, ItemSteps
  <2> QED
    BY <1>1, <1>3, <2>2, <2>3
<1> QED
  BY <1>2, <1>3

\* The folder of the item is found or made in its home.
LEMMA ResolveFolderCalm ==
    ASSUME Reconcilable, IInv, GateInv, GateInv', PlaceInv, PlaceInv', CalmInv, ResolveFolder
    PROVE  CalmInv'
<1>0. PICK c : c = eng.cur
  OBVIOUS
<1> USE <1>0
<1>1. SUFFICES ASSUME Calm' PROVE CalmInv'
  BY DEF CalmInv, ReadNow, SameNow, SeenNow, DoneNow, GrowNow, HandNow
<1>2. PICK f \in Objs :
          /\ ResolvedTo(f, ParentFolder(c))
          /\ eng' = [eng EXCEPT !.pc = "doc", !.parent = ParentFolder(c), !.fid = f]
          /\ notion[c].alive /\ ParentFolder(c) = HomeOf(c) => drive'[f].parent = HomeOf(c)
          /\ f = ledger[c].folder \/ drive[f].type = "free"
  BY FolderLands
<1>3. /\ eng.pc = "folder" /\ c \in Pages /\ eng \in Engine /\ Kind[c] # "action"
      /\ UNCHANGED <<notion, ledger, sheet>> /\ f \in Objs /\ f # Null
  BY <1>2, NullAssumption DEF ResolveFolder, IInv, TypeOK, CurOK, UnderOK, ItemSteps
<1>4. calm' = calm
  BY <1>1, <1>2 DEF ResolveFolder, Calm
<1>5. /\ SameItem /\ eng'.pc = "doc" /\ eng'.fid = f /\ eng'.folderOf = eng.folderOf
      /\ eng'.cur = c
  BY <1>2, <1>3, <1>4 DEF SameItem, Engine, ItemSteps
<1>6. /\ Calm /\ ReadNow' /\ SeenNow' /\ GrowNow' /\ c \in Alive /\ Alive' = Alive
  BY <1>1, <1>5, ItemKept
<1>7. DoneNow'
  <2>1. ASSUME NEW p \in Alive \ {c}
        PROVE  f \notin {ledger[p].folder, ledger[p].doc}
    <3>1. p \in Pages /\ p # c
      BY <2>1 DEF Alive
    <3>2. /\ ledger[p].folder # Null => drive[ledger[p].folder].type = "folder"
          /\ ledger[p].doc # Null => drive[ledger[p].doc].type = "doc"
      BY <3>1 DEF IInv, OwnObjects
    <3>3. CASE f = ledger[c].folder
      <4>1. {ledger[c].folder, ledger[c].doc} \cap {ledger[p].folder, ledger[p].doc} \subseteq {Null}
        BY <1>3, <3>1 DEF IInv, OwnObjects
      <4> QED
        BY <1>3, <3>3, <4>1
    <3>4. CASE drive[f].type = "free"
      BY <1>3, <3>2, <3>4
    <3> QED
      BY <1>2, <3>3, <3>4
  <2>2. \A p \in Alive \ {c} :
           /\ ledger'[p] = ledger[p] /\ sheet'[p] = sheet[p]
           /\ ledger[p].folder \in Objs =>
                 drive'[ledger[p].folder].parent = drive[ledger[p].folder].parent
           /\ ledger[p].doc \in Objs => drive'[ledger[p].doc].text = drive[ledger[p].doc].text
    BY <1>2, <1>3, <2>1 DEF ResolvedTo
  <2> QED
    BY <1>1, <1>3, <1>5, <2>2, DoneKept DEF PlaceInv
<1>8. SameNow'
  BY <1>3, <1>5, <1>6 DEF CalmInv, SameNow, Crawl, ItemSteps
<1>9. HandNow'
  <2>1. HomeOf(c) # Null
    BY <1>3, <1>6, HomeIsThere
  <2>2. drive'[f].parent = HomeOf(c)
    BY <1>2, <1>3, <1>6, <2>1, HomeStays DEF Alive
  <2>3. HomeOf(c)' = HomeOf(c)
    BY <1>3 DEF HomeOf
  <2> QED
    BY <1>3, <1>5, <2>2, <2>3 DEF HandNow, HomeOf
<1> QED
  BY <1>6, <1>7, <1>8, <1>9 DEF CalmInv

\* The Doc of the item is found or made in its folder.
LEMMA ResolveDocCalm ==
    ASSUME Reconcilable, IInv, GateInv, GateInv', PlaceInv, PlaceInv', CalmInv, ResolveDoc
    PROVE  CalmInv'
<1>0. PICK c : c = eng.cur
  OBVIOUS
<1> USE <1>0
<1>1. SUFFICES ASSUME Calm' PROVE CalmInv'
  BY DEF CalmInv, ReadNow, SameNow, SeenNow, DoneNow, GrowNow, HandNow
<1>2. SameItem /\ eng.pc = "doc" /\ eng'.pc = "body" /\ eng'.cur = c
  BY DocResolved DEF SameItem, ItemSteps
<1>3. /\ Calm /\ ReadNow' /\ SeenNow' /\ GrowNow' /\ c \in Alive /\ Alive' = Alive
  BY <1>1, <1>2, ItemKept
<1>4. DoneNow'
  <2>1. ASSUME NEW p \in Alive
        PROVE  /\ ledger[p].folder \in Objs => drive[ledger[p].folder].type = "folder"
               /\ ledger[p].doc \in Objs => drive[ledger[p].doc].type = "doc"
    BY <2>1, NullAssumption DEF Alive, IInv, OwnObjects
  <2>2. \A p \in Alive \ {c} :
           /\ ledger'[p] = ledger[p] /\ sheet'[p] = sheet[p]
           /\ ledger[p].folder \in Objs =>
                 drive'[ledger[p].folder].parent = drive[ledger[p].folder].parent
           /\ ledger[p].doc \in Objs => drive'[ledger[p].doc].text = drive[ledger[p].doc].text
    BY <2>1, DocResolved
  <2> QED
    BY <1>1, <1>2, <2>2, DocResolved, DoneKept DEF PlaceInv
<1>5. SameNow'
  <2>1. ASSUME NEW a \in Alive, a # c, eng'.folderOf[a] # Null PROVE ledger'[a].folder = eng'.folderOf[a]
    BY <1>2, <1>3, <2>1, DocResolved DEF CalmInv, SameNow, Crawl, ItemSteps, Alive
  <2> QED
    BY <1>2, <1>3, <2>1 DEF SameNow
<1>6. HandNow'
  <2>1. Kind[c] # "action" /\ drive[eng.fid].parent = HomeOf(c)
    BY <1>2, <1>3 DEF CalmInv, HandNow, ItemSteps
  <2>2. drive'[eng'.fid].parent = HomeOf(c) /\ ledger' = ledger
    BY <2>1, DocResolved
  <2>3. HomeOf(c)' = HomeOf(c)
    BY <2>2 DEF HomeOf
  <2> QED
    BY <1>2, <2>1, <2>2, <2>3 DEF HandNow, HomeOf
<1> QED
  BY <1>3, <1>4, <1>5, <1>6 DEF CalmInv

\* Once the pair is entered the page is live, placed, and its children are read.
LEMMA FetchBodyCalm ==
    ASSUME Reconcilable, IInv, IInv', GateInv, GateInv', PlaceInv, PlaceInv', CalmInv, FetchBody
    PROVE  CalmInv'
<1>0. PICK c : c = eng.cur
  OBVIOUS
<1> USE <1>0
<1>1. SUFFICES ASSUME Calm' PROVE CalmInv'
  BY DEF CalmInv, ReadNow, SameNow, SeenNow, DoneNow, GrowNow, HandNow
<1>2. SameItem /\ eng.pc = "body" /\ eng'.pc \in {"write", "row"} /\ eng'.cur = c
  BY BodyFetched DEF SameItem, ItemSteps
<1>3. /\ Calm /\ ReadNow' /\ SeenNow' /\ GrowNow' /\ c \in Alive /\ c \in Pages /\ Alive' = Alive
      /\ Children(c)' = Children(c)
  BY <1>1, <1>2, ItemKept
<1>4. ledger[c].folder # Null => ledger'[c].folder = ledger[c].folder
  BY <1>2, <1>3, HandFolder, BodyFetched
<1>5. DoneNow'
  <2>1. \A p \in Alive \ {c} :
           /\ ledger'[p] = ledger[p] /\ sheet'[p] = sheet[p]
           /\ ledger[p].folder \in Objs =>
                 drive'[ledger[p].folder].parent = drive[ledger[p].folder].parent
           /\ ledger[p].doc \in Objs => drive'[ledger[p].doc].text = drive[ledger[p].doc].text
    BY BodyFetched DEF Alive
  <2> QED
    BY <1>1, <1>2, <1>4, <2>1, DoneKept DEF PlaceInv
<1>6. SameNow'
  <2>1. ASSUME NEW a \in Alive, eng'.folderOf[a] # Null PROVE ledger'[a].folder = eng'.folderOf[a]
    <3>1. a \in Pages /\ eng'.folderOf = eng.folderOf
      BY BodyFetched DEF Alive
    <3>2. CASE a = c
      BY <1>2, <3>1, <3>2, BodyFetched DEF PlaceInv, SameOK
    <3>3. CASE a # c
      BY <1>2, <1>3, <2>1, <3>1, <3>3, BodyFetched DEF CalmInv, SameNow, Crawl, ItemSteps
    <3> QED
      BY <3>2, <3>3
  <2> QED
    BY <1>2, <1>3, <2>1 DEF SameNow
<1>7. HandNow'
  <2>1. Kind[c] # "action" /\ drive[eng.fid].parent = HomeOf(c)
    BY <1>2, <1>3 DEF CalmInv, HandNow, ItemSteps
  <2>2. HomeOf(c)' = HomeOf(c) /\ ledger'[c].folder = eng.fid /\ ledger'[c].folder # Null
    <3>1. Kind[c] # "area" => Home[c] # c
      BY <1>3, <2>1, HomesAre
    <3>2. Home[c] \in Pages \cup {Null}
      BY <1>3, HomesAre
    <3> QED
      BY <3>1, <3>2, BodyFetched, NullAssumption DEF HomeOf
  <2>3. HasDoc(c)'
    BY <1>3, <2>2 DEF GateInv, PairOK, NoDoc
  <2>4. Placed(c)'
    <3>1. drive'[ledger'[c].folder].parent = HomeOf(c)'
      BY <2>1, <2>2, BodyFetched
    <3>2. notion'[c].parent = Home[c] /\ Kind[c] \in {"area", "project", "action", "page"}
      BY <1>3, HomesAre DEF PlaceInv, AreaOK
    <3> QED
      BY <3>1, <3>2 DEF Placed, HomeOf
  <2>5. Entered(c)'
    <3>1. eng'.folderOf[c] # Null
      BY <1>2, <2>2, BodyFetched DEF PlaceInv, SameOK
    <3>2. eng'.kids[c] = Children(c)
      BY BodyFetched
    <3> QED
      BY <1>3, <3>1, <3>2 DEF Entered
  <2>6. ledger'[c].known /\ eng'.md = notion'[c].body
    BY BodyFetched
  <2>7. ASSUME eng'.pc = "row" PROVE drive'[ledger'[c].doc].text = notion'[c].body
    <3>1. ledger'[c].body = notion'[c].body
      BY <2>7, BodyFetched
    <3>2. notion'[c].body \in Versions
      BY <1>3 DEF IInv, TypeOK, Notion
    <3>3. notion'[c].body # Null /\ ~(notion'[c].body < notion'[c].body)
      BY <3>2, NullAssumption DEF Versions
    <3> QED
      BY <2>3, <3>1, <3>3 DEF HasDoc, Gate
  <2> QED
    BY <1>2, <2>1, <2>3, <2>4, <2>5, <2>6, <2>7 DEF HandNow
<1> QED
  BY <1>3, <1>5, <1>6, <1>7 DEF CalmInv

\* The Doc is written and then its hash recorded; after that it holds the body.
LEMMA BodyWrittenCalm ==
    ASSUME Reconcilable, IInv, IInv', GateInv, GateInv', PlaceInv, PlaceInv', CalmInv,
           WriteDoc \/ RecordBody
    PROVE  CalmInv'
<1>0. PICK c : c = eng.cur
  OBVIOUS
<1> USE <1>0
<1>1. SUFFICES ASSUME Calm' PROVE CalmInv'
  BY DEF CalmInv, ReadNow, SameNow, SeenNow, DoneNow, GrowNow, HandNow
<1>2. /\ eng.pc \in {"write", "record"} /\ c \in Pages /\ eng \in Engine
      /\ drive \in [Objs -> File] /\ ledger \in [Pages -> SyncPair]
      /\ UNCHANGED <<notion, sheet>> /\ eng.did \in Objs /\ Unclaimed(eng.did, c)
  BY DEF WriteDoc, RecordBody, Quiet, IInv, TypeOK, CurOK, ItemSteps, GateInv, HandLive
<1>3. /\ SameItem /\ eng'.cur = c /\ eng'.md = eng.md /\ eng'.kids = eng.kids
      /\ eng'.folderOf = eng.folderOf /\ eng'.pc = (IF eng.pc = "write" THEN "record" ELSE "row")
  BY <1>2 DEF WriteDoc, RecordBody, Quiet, SameItem, Engine, ItemSteps
<1>4. /\ Calm /\ ReadNow' /\ SeenNow' /\ GrowNow' /\ c \in Alive /\ Alive' = Alive
      /\ Children(c)' = Children(c)
  BY <1>1, <1>3, ItemKept
<1>5. /\ \A p \in Pages : /\ ledger'[p].folder = ledger[p].folder /\ ledger'[p].doc = ledger[p].doc
                          /\ ledger'[p].known = ledger[p].known
      /\ \A p \in Pages \ {c} : ledger'[p] = ledger[p]
      /\ eng.pc = "record" => ledger'[c].body = eng.md
  BY <1>2 DEF WriteDoc, RecordBody, Quiet, SyncPair
<1>6. /\ \A x \in Objs : drive'[x].parent = drive[x].parent
      /\ \A x \in Objs \ {eng.did} : drive'[x].text = drive[x].text
  BY <1>2 DEF WriteDoc, RecordBody, Quiet, File
<1>7. DoneNow'
  <2>1. \A p \in Alive \ {c} :
           /\ ledger'[p] = ledger[p] /\ sheet'[p] = sheet[p]
           /\ ledger[p].folder \in Objs =>
                 drive'[ledger[p].folder].parent = drive[ledger[p].folder].parent
           /\ ledger[p].doc \in Objs => drive'[ledger[p].doc].text = drive[ledger[p].doc].text
    BY <1>2, <1>5, <1>6 DEF Alive, Unclaimed
  <2> QED
    BY <1>1, <1>2, <1>3, <1>5, <2>1, DoneKept DEF PlaceInv
<1>8. SameNow'
  <2>1. ASSUME NEW a \in Alive, eng'.folderOf[a] # Null PROVE ledger'[a].folder = eng'.folderOf[a]
    BY <1>2, <1>3, <1>4, <1>5, <2>1 DEF CalmInv, SameNow, Crawl, ItemSteps, Alive
  <2> QED
    BY <1>4, <2>1 DEF SameNow
<1>9. HandNow'
  <2>1. /\ Kind[c] # "action" /\ HasDoc(c) /\ Placed(c) /\ Entered(c)
        /\ ledger[c].known /\ eng.md = notion[c].body
    BY <1>2, <1>4 DEF CalmInv, HandNow, ItemSteps
  <2>2. ledger[c].folder \in Objs
    BY <2>1 DEF HasDoc, IsLive
  <2>3. HasDoc(c)'
    BY <1>2, <1>4, <1>5, <2>2, NullAssumption DEF GateInv, PairOK, NoDoc
  <2>4. Placed(c)'
    <3>1. HomeOf(c)' = HomeOf(c) /\ Home[c] \in Pages \cup {Null}
      BY <1>2, <1>5, HomesAre DEF HomeOf
    <3>2. drive'[ledger'[c].folder].parent = HomeOf(c)'
      BY <1>2, <1>5, <1>6, <2>1, <2>2, <3>1, PlacedIs DEF PlaceInv
    <3>3. notion'[c].parent = Home[c] /\ Kind[c] \in {"area", "project", "action", "page"}
      BY <1>2, HomesAre DEF PlaceInv, AreaOK
    <3> QED
      BY <3>2, <3>3 DEF Placed, HomeOf
  <2>5. Entered(c)'
    BY <1>3, <1>4, <2>1 DEF Entered
  <2>6. ASSUME eng'.pc = "row" PROVE drive'[ledger'[c].doc].text = notion'[c].body
    <3>1. ledger'[c].body = notion'[c].body
      BY <1>2, <1>3, <1>5, <2>1, <2>6
    <3>2. notion'[c].body \in Versions
      BY <1>2 DEF IInv, TypeOK, Notion
    <3>3. notion'[c].body # Null /\ ~(notion'[c].body < notion'[c].body)
      BY <3>2, NullAssumption DEF Versions
    <3> QED
      BY <2>3, <3>1, <3>3 DEF HasDoc, Gate
  <2> QED
    BY <1>2, <1>3, <1>5, <2>1, <2>3, <2>4, <2>5, <2>6 DEF HandNow
<1> QED
  BY <1>4, <1>7, <1>8, <1>9 DEF CalmInv

\* The item in hand is done: it is shown, placed and entered in what the crawl
\* remembers, and its children are to be visited.
LEMMA FinishCalm ==
    ASSUME Reconcilable, IInv, PlaceInv, CalmInv, Calm',
           eng.pc \in {"row", "rowrecord"}, eng' = Finished(TRUE),
           notion' = notion, drive' = drive, sheet' = sheet, calm' = calm,
           \A p \in Pages : /\ ledger'[p].folder = ledger[p].folder
                            /\ ledger'[p].doc = ledger[p].doc
                            /\ ledger[p].known => ledger'[p].known,
           ledger'[eng.cur].known,
           eng.cur \in Spine /\ eng.cur \in Alive => sheet[eng.cur] = eng.prop[eng.cur]
    PROVE  CalmInv'
<1>0. PICK c : c = eng.cur
  OBVIOUS
<1> USE <1>0
<1>1. /\ SameCrawl /\ eng'.pc = "pick" /\ eng'.prop = eng.prop
      /\ eng'.todo = eng.todo /\ eng'.seen = eng.seen
      /\ eng'.grow = IF Kind[c] = "page" THEN eng.grow \cup {c} ELSE eng.grow
      /\ eng.job = "full"
  <2>1. eng' # Idle
    <3>1. Idle.job = "item"
      BY DEF Idle
    <3> QED
      BY <3>1 DEF Calm
  <2>2. /\ SameCrawl /\ eng'.pc = "pick" /\ eng'.prop = eng.prop
        /\ eng'.todo = eng.todo /\ eng'.seen = eng.seen
        /\ eng'.grow = IF eng.job = "full" /\ Kind[c] = "page"
                       THEN eng.grow \cup {c} ELSE eng.grow
    BY <2>1, FinishedIs DEF ItemSteps
  <2> QED
    BY <2>2 DEF SameCrawl, Calm
<1>2. /\ Calm /\ Alive' = Alive /\ \A p \in Pages : Children(p)' = Children(p)
  BY <1>1 DEF Calm, Alive, Children
<1>3. /\ c \in eng.seen /\ c \in Alive /\ c \in Pages
  BY <1>2 DEF CalmInv, SeenNow, ItemSteps, Alive
<1>4. eng'.kids = eng.kids /\ eng'.folderOf = eng.folderOf
  BY <1>1 DEF SameCrawl, Crawl
<1>5. ReadNow'
  BY <1>1, <1>2, <1>4 DEF ReadNow, CalmInv
<1>6. SameNow'
  BY <1>1, <1>2, <1>4 DEF SameNow, CalmInv, Crawl, ItemSteps, Alive
<1>7. SeenNow'
  BY <1>1, <1>2, <1>3 DEF SeenNow, CalmInv, Crawl, ItemSteps
<1>8. Kind[c] # "action" => /\ HasDoc(c) /\ Placed(c) /\ Entered(c)
                            /\ drive[ledger[c].doc].text = notion[c].body
  BY <1>2 DEF CalmInv, HandNow, ItemSteps
<1>9. \A p \in Pages : Placed(p)' <=> Placed(p)
  <2>1. \A p \in Pages : notion[p].parent \in Pages \cup {Null}
    BY DEF IInv, TypeOK, Notion
  <2> QED
    BY <2>1 DEF Placed
<1>10. Done(c)'
  <2>1. c \in Spine => sheet'[c] = notion'[c].prop
    BY <1>2, <1>3 DEF CalmInv, ReadNow
  <2>2. Shown(c)'
    BY <1>3, <1>8, <2>1 DEF Shown, HasDoc, IsLive
  <2>3. Placed(c)'
    BY <1>3, <1>8, <1>9 DEF Placed
  <2>4. Kind[c] # "action" => Entered(c)'
    BY <1>2, <1>3, <1>4, <1>8 DEF Entered
  <2> QED
    BY <2>2, <2>3, <2>4 DEF Done
<1>11. DoneNow'
  <2>1. ASSUME NEW p \in eng.seen PROVE p \in eng'.todo \/ Done(p)'
    <3>1. p \in Pages /\ (p \in eng.todo \/ p = c \/ Done(p))
      BY <1>2 DEF CalmInv, DoneNow, InItem, IInv, TypeOK, Engine
    <3>2. ASSUME Done(p) PROVE Done(p)'
      <4>1. Shown(p)'
        BY <3>1, <3>2 DEF Done, Shown, IsLive
      <4>2. Placed(p)'
        BY <1>9, <3>1, <3>2 DEF Done
      <4>3. Kind[p] # "action" => Entered(p)'
        BY <1>2, <1>4, <3>1, <3>2 DEF Done, Entered, Crawl, ItemSteps
      <4> QED
        BY <4>1, <4>2, <4>3 DEF Done
    <3> QED
      BY <1>1, <1>10, <3>1, <3>2
  <2> QED
    BY <1>1, <2>1 DEF DoneNow
<1>12. GrowNow'
  <2>1. ASSUME NEW p \in eng.seen PROVE Grown(p)'
    <3>1. Grown(p) /\ p \in Pages
      BY <1>2 DEF CalmInv, GrowNow, Crawl, ItemSteps, IInv, TypeOK, Engine
    <3>2. CASE p = c
      BY <1>1, <1>2, <3>1, <3>2 DEF Grown
    <3>3. CASE p # c
      BY <1>1, <1>2, <3>1, <3>3 DEF Grown, InItem
    <3> QED
      BY <3>2, <3>3
  <2> QED
    BY <1>1, <2>1 DEF GrowNow
<1>13. HandNow'
  BY <1>1 DEF HandNow, ItemSteps
<1> QED
  BY <1>5, <1>6, <1>7, <1>11, <1>12, <1>13 DEF CalmInv

\* The row is written, or shows what it should already and the item is done.
LEMMA RowCalm ==
    ASSUME Reconcilable, IInv, GateInv, GateInv', PlaceInv, PlaceInv', CalmInv, Row
    PROVE  CalmInv'
<1>0. PICK c : c = eng.cur
  OBVIOUS
<1> USE <1>0
<1>1. SUFFICES ASSUME Calm' PROVE CalmInv'
  BY DEF CalmInv, ReadNow, SameNow, SeenNow, DoneNow, GrowNow, HandNow
<1>2. /\ eng.pc = "row" /\ UNCHANGED <<notion, drive, ledger, calm>>
      /\ c \in Pages /\ sheet \in [Pages -> Versions \cup {Null}]
  BY RowIs DEF IInv, TypeOK, CurOK, ItemSteps
<1>3. CASE /\ eng' = Finished(TRUE) /\ sheet' = sheet
           /\ c \in Spine => ledger[c].prop = eng.prop[c]
  <2>1. Calm /\ c \in Alive
    <3>1. eng.job = "full"
      BY <1>1, <1>3 DEF Calm, Finished, Idle
    <3>2. Calm
      BY <1>1, <1>2, <3>1 DEF Calm
    <3> QED
      BY <1>2, <3>2 DEF CalmInv, SeenNow, ItemSteps
  <2>2. c \in Spine => sheet[c] = eng.prop[c] /\ ledger[c].known
    <3>1. SUFFICES ASSUME c \in Spine PROVE sheet[c] = eng.prop[c] /\ ledger[c].known
      OBVIOUS
    <3>2. /\ ledger[c].prop = eng.prop[c] /\ eng.prop[c] = notion[c].prop
          /\ notion[c].prop \in Versions
      BY <1>2, <1>3, <2>1, <3>1 DEF CalmInv, ReadNow, IInv, TypeOK, Notion
    <3>3. ledger[c].prop # Null /\ ~(notion[c].prop < notion[c].prop)
      BY <3>2, NullAssumption DEF Versions
    <3> QED
      BY <2>1, <3>2, <3>3 DEF PlaceInv, RowsOK, RowTrue
  <2>3. ledger[c].known
    <3>1. CASE Kind[c] = "action"
      BY <1>2, <2>2, <3>1 DEF Spine
    <3>2. CASE Kind[c] # "action"
      BY <1>2, <2>1, <3>2 DEF CalmInv, HandNow, ItemSteps, HasDoc
    <3> QED
      BY <3>1, <3>2
  <2> QED
    BY <1>1, <1>2, <1>3, <2>2, <2>3, FinishCalm
<1>4. CASE /\ sheet' = [sheet EXCEPT ![c] = eng.prop[c]]
           /\ SameCrawl /\ eng'.pc = "rowrecord" /\ eng'.prop = eng.prop
           /\ eng'.cur = c /\ eng'.todo = eng.todo
           /\ eng'.seen = eng.seen /\ eng'.grow = eng.grow
  <2>1. /\ SameItem /\ eng'.kids = eng.kids /\ eng'.folderOf = eng.folderOf
    BY <1>2, <1>4 DEF SameItem, SameCrawl, ItemSteps, Crawl
  <2>2. /\ Calm /\ ReadNow' /\ SeenNow' /\ GrowNow' /\ c \in Alive /\ Alive' = Alive
        /\ Children(c)' = Children(c)
    BY <1>1, <1>2, <2>1, ItemKept
  <2>3. DoneNow'
    <3>1. \A p \in Alive \ {c} : ledger'[p] = ledger[p] /\ sheet'[p] = sheet[p]
      BY <1>2, <1>4 DEF Alive
    <3> QED
      BY <1>1, <1>2, <2>1, <3>1, DoneKept DEF PlaceInv
  <2>4. SameNow'
    BY <1>2, <1>4, <2>1, <2>2 DEF SameNow, CalmInv, Crawl, ItemSteps
  <2>5. HandNow'
    <3>1. Kind[c] # "action" => /\ HasDoc(c) /\ Placed(c) /\ Entered(c)
                                /\ drive[ledger[c].doc].text = notion[c].body
      BY <1>2, <2>2 DEF CalmInv, HandNow, ItemSteps
    <3>2. Kind[c] # "action" => HasDoc(c)' /\ Placed(c)' /\ Entered(c)'
      BY <1>2, <2>1, <2>2, <3>1 DEF HasDoc, IsLive, Gate, Placed, Entered
    <3> QED
      BY <1>2, <1>4, <3>1, <3>2 DEF HandNow
  <2> QED
    BY <2>2, <2>3, <2>4, <2>5 DEF CalmInv
<1> QED
  BY <1>3, <1>4, RowIs

\* The row is recorded, and the item is done.
LEMMA RecordRowCalm ==
    ASSUME Reconcilable, IInv, PlaceInv, CalmInv, RecordRow
    PROVE  CalmInv'
<1>1. SUFFICES ASSUME Calm' PROVE CalmInv'
  BY DEF CalmInv, ReadNow, SameNow, SeenNow, DoneNow, GrowNow, HandNow
<1>2. /\ eng.pc = "rowrecord" /\ eng.cur \in Pages /\ ledger \in [Pages -> SyncPair]
      /\ sheet[eng.cur] = eng.prop[eng.cur]
  BY DEF RecordRow, IInv, TypeOK, CurOK, ItemSteps, PlaceInv, RowsOK
<1>3. /\ notion' = notion /\ drive' = drive /\ sheet' = sheet /\ calm' = calm
      /\ eng' = Finished(TRUE)
      /\ ledger' = [ledger EXCEPT ![eng.cur].known = TRUE, ![eng.cur].row = TRUE,
                                  ![eng.cur].prop = eng.prop[eng.cur]]
  BY DEF RecordRow, Quiet
<1>4. /\ \A p \in Pages : /\ ledger'[p].folder = ledger[p].folder
                          /\ ledger'[p].doc = ledger[p].doc
                          /\ ledger[p].known => ledger'[p].known
      /\ ledger'[eng.cur].known
  BY <1>2, <1>3 DEF SyncPair
<1> QED
  BY <1>1, <1>2, <1>3, <1>4, FinishCalm

-----------------------------------------------------------------------------
(* After the crawl                                                         *)

\* When nothing is left to do every page of Notion has been seen: the pages seen, with
\* those that are gone, hold the areas, projects and actions, and the children of each.
LEMMA AllSeen ==
    ASSUME Reconcilable, GateInv, PlaceInv, CalmInv, Calm,
           eng.pc = "pick", eng.todo = {}, eng.grow = {}
    PROVE  Alive \subseteq eng.seen
<1> DEFINE S == eng.seen \cup (Pages \ Alive)
<1>1. eng.seen \subseteq Alive /\ Spine \cap Alive \subseteq eng.seen
  BY DEF CalmInv, SeenNow
<1>2. S \subseteq Pages /\ Alive \subseteq Pages
  BY <1>1 DEF Alive
<1>3. Spine \subseteq S
  BY <1>1 DEF Spine
<1>4. ASSUME NEW c \in Pages, Home[c] \in S, Kind[Home[c]] # "action" PROVE c \in S
  <2>1. SUFFICES ASSUME c \in Alive PROVE c \in eng.seen
    BY <1>4
  <2>2. Home[c] # Null
    BY <1>2, <1>4, NullAssumption
  <2>3. Home[c] \in eng.seen
    BY <1>4, <2>2, HomeAlive
  <2>4. Children(Home[c]) \subseteq eng.seen
    <3>1. Grown(Home[c])
      BY <2>3 DEF CalmInv, GrowNow, Crawl
    <3> QED
      BY <1>4, <3>1 DEF Grown, InItem, ItemSteps
  <2>5. CASE Kind[c] = "page"
    <3>1. c \in Children(Home[c])
      BY <2>1, <2>5 DEF Children, PlaceInv, AreaOK
    <3> QED
      BY <2>4, <3>1
  <2>6. CASE Kind[c] # "page"
    <3>1. c \in Spine
      BY <2>6, HomesAre DEF Spine
    <3> QED
      BY <1>1, <2>1, <3>1
  <2> QED
    BY <2>5, <2>6
<1> HIDE DEF S
<1>5. Reached(S)
  BY <1>3, <1>4 DEF Reached
<1>6. S = Pages
  BY <1>2, <1>5 DEF Reconcilable
<1> QED
  BY <1>2, <1>6 DEF S

\* Then what is done stays done, whatever is removed or pruned.
LEMMA RestCalm ==
    ASSUME Reconcilable, IInv, AreaOK, AreaOK', GateInv', CalmInv, Calm, Calm',
           eng.pc \notin ItemSteps, eng'.pc \notin Crawl,
           eng.todo = {}, Alive \subseteq eng.seen,
           eng'.prop = eng.prop, eng'.kids = eng.kids, eng'.todo = eng.todo,
           eng'.seen = eng.seen, eng'.grow = eng.grow, notion' = notion,
           \A p \in Pages : /\ ledger'[p].folder = ledger[p].folder
                            /\ ledger'[p].doc = ledger[p].doc
                            /\ ledger'[p].known = ledger[p].known,
           \A p \in Alive : sheet'[p] = sheet[p],
           \A x \in Objs : drive'[x].parent = drive[x].parent /\ drive'[x].text = drive[x].text
    PROVE  CalmInv'
<1>1. Alive' = Alive /\ \A p \in Pages : Children(p)' = Children(p)
  BY DEF Alive, Children
<1>2. ReadNow'
  BY <1>1 DEF ReadNow, CalmInv
<1>3. SeenNow'
  BY <1>1 DEF SeenNow, CalmInv, Crawl
<1>4. DoneNow'
  <2>1. ASSUME NEW p \in eng.seen PROVE Done(p)'
    <3>1. Done(p) /\ p \in Alive
      BY DEF CalmInv, DoneNow, SeenNow, InItem
    <3>2. p \in Pages /\ Shown(p) /\ Placed(p)
      BY <3>1 DEF Done, Alive
    <3>3. HomeOf(p)' = HomeOf(p)
      BY <3>2, HomesAre DEF HomeOf
    <3>4. Kind[p] # "action" => ledger[p].folder \in Objs /\ ledger[p].doc \in Objs
      BY <3>2 DEF Shown, IsLive
    <3>5. ledger'[p].known
      BY <3>2 DEF Shown
    <3>6. Shown(p)' /\ Placed(p)'
      BY <3>1, <3>2, <3>3, <3>4, <3>5, StaysShown
    <3> QED
      BY <3>6 DEF Done
  <2> QED
    BY <2>1 DEF DoneNow
<1> QED
  BY <1>2, <1>3, <1>4 DEF CalmInv, SameNow, GrowNow, HandNow, Crawl

\* What _remove_unseen and the pruning do to a reconcile that nothing disturbs.
Removing == \/ BeginRemove \/ (\E p \in Pages : Refetch(p)) \/ RemoveDoc \/ RemoveFolder
            \/ ClearRow \/ TombstonePair \/ EndRemove \/ Prune

\* Before such a step the crawl is over; after it what was mirrored is as it was.
LEMMA RemovingIs ==
    ASSUME IInv, Verified, Removing, calm', eng'.job = "full", eng'.pc # "idle"
    PROVE  /\ eng.pc \notin Crawl \cup {"idle"}
              \/ (eng.pc = "pick" /\ eng.todo = {} /\ eng.grow = {})
           /\ eng'.pc \notin Crawl /\ eng'.job = eng.job
           /\ eng'.prop = eng.prop /\ eng'.kids = eng.kids /\ eng'.todo = eng.todo
           /\ eng'.seen = eng.seen /\ eng'.grow = eng.grow /\ notion' = notion /\ calm' = calm
           /\ \A p \in Pages : /\ ledger'[p].folder = ledger[p].folder
                               /\ ledger'[p].doc = ledger[p].doc
                               /\ ledger'[p].known = ledger[p].known
           /\ \A x \in Objs : drive'[x].parent = drive[x].parent /\ drive'[x].text = drive[x].text
<1>1. /\ eng \in Engine /\ ledger \in [Pages -> SyncPair] /\ drive \in [Objs -> File]
  BY DEF IInv, TypeOK
<1>2. /\ notion' = notion /\ calm' = calm
      /\ \A p \in Pages : /\ ledger'[p].folder = ledger[p].folder
                          /\ ledger'[p].doc = ledger[p].doc
                          /\ ledger'[p].known = ledger[p].known
  <2>1. notion' = notion /\ calm' = calm
    BY DEF Removing, BeginRemove, Refetch, RemoveDoc, RemoveFolder, RemoveFile, ClearRow,
       TombstonePair, EndRemove, Prune, Quiet
  <2>2. CASE TombstonePair
    BY <1>1, <2>1, <2>2 DEF TombstonePair, SyncPair
  <2>3. CASE ledger' = ledger
    BY <2>1, <2>3
  <2> QED
    BY <2>2, <2>3 DEF Removing, BeginRemove, Refetch, RemoveDoc, RemoveFolder, RemoveFile,
       ClearRow, EndRemove, Prune, Quiet
<1>3. \A x \in Objs : drive'[x].parent = drive[x].parent /\ drive'[x].text = drive[x].text
  <2>1. CASE RemoveDoc \/ RemoveFolder \/ Prune
    <3>1. drive' = drive \/ \E os : drive' = Trashed(os)
      BY <2>1 DEF RemoveDoc, RemoveFolder, RemoveFile, Prune
    <3> QED
      BY <1>1, <3>1, TrashedOnly
  <2>2. CASE drive' = drive
    BY <2>2
  <2> QED
    BY <2>1, <2>2 DEF Removing, BeginRemove, Refetch, ClearRow, TombstonePair, EndRemove, Quiet
<1>4. /\ eng.pc \in RemoveSteps \cup {"remove", "prune"}
         \/ (eng.pc = "pick" /\ eng.todo = {} /\ eng.grow = {})
      /\ eng'.pc \in RemoveSteps \cup {"remove", "prune", "done"} /\ eng'.job = eng.job
      /\ eng'.prop = eng.prop /\ eng'.kids = eng.kids /\ eng'.todo = eng.todo
      /\ eng'.seen = eng.seen /\ eng'.grow = eng.grow
  <2>1. CASE BeginRemove
    BY <1>1, <2>1 DEF BeginRemove, Engine
  <2>2. CASE \E p \in Pages : Refetch(p)
    <3>1. PICK p \in Pages : Refetch(p)
      BY <2>2
    <3> QED
      BY <1>1, <3>1 DEF Refetch, Engine, RemoveSteps
  <2>3. CASE RemoveDoc \/ RemoveFolder
    BY <1>1, <2>3 DEF RemoveDoc, RemoveFolder, RemoveFile, Engine, RemoveSteps
  <2>4. CASE ClearRow
    BY <1>1, <2>4 DEF ClearRow, Engine, RemoveSteps
  <2>5. CASE TombstonePair
    BY <1>1, <2>5 DEF TombstonePair, Engine, RemoveSteps
  <2>6. CASE EndRemove
    <3>1. eng.pc = "remove" /\ eng' = [eng EXCEPT !.pc = "prune"]
      BY <2>6 DEF EndRemove, Idle
    <3> QED
      BY <1>1, <3>1 DEF Engine
  <2>7. CASE Prune
    BY <1>1, <2>7 DEF Prune, Engine
  <2> QED
    BY <2>1, <2>2, <2>3, <2>4, <2>5, <2>6, <2>7 DEF Removing
<1> QED
  BY <1>2, <1>3, <1>4 DEF Crawl, ItemSteps, RemoveSteps

\* Such a step leaves what is done done.
LEMMA RemovingCalm ==
    ASSUME Reconcilable, IInv, Verified, GateInv, GateInv', PlaceInv, PlaceInv', CalmInv, Removing
    PROVE  CalmInv'
<1>1. SUFFICES ASSUME Calm' PROVE CalmInv'
  BY DEF CalmInv, ReadNow, SameNow, SeenNow, DoneNow, GrowNow, HandNow
<1>2. /\ eng.pc \notin Crawl \cup {"idle"} \/ (eng.pc = "pick" /\ eng.todo = {} /\ eng.grow = {})
      /\ eng'.pc \notin Crawl /\ eng'.job = eng.job /\ calm' = calm
  BY <1>1, RemovingIs DEF Calm
<1>3. Calm /\ eng.pc \notin ItemSteps
  BY <1>1, <1>2 DEF Calm, Crawl, ItemSteps
<1>4. eng.todo = {} /\ Alive \subseteq eng.seen
  BY <1>2, <1>3, AllSeen DEF CalmInv, SeenNow
<1>5. \A p \in Alive : sheet'[p] = sheet[p]
  <2>1. Quietly
    BY DEF Removing, Quietly
  <2> QED
    BY <2>1, QuietlyLeaves DEF RowStays
<1>6. /\ eng'.prop = eng.prop /\ eng'.kids = eng.kids /\ eng'.todo = eng.todo
      /\ eng'.seen = eng.seen /\ eng'.grow = eng.grow /\ notion' = notion
      /\ \A p \in Pages : /\ ledger'[p].folder = ledger[p].folder
                          /\ ledger'[p].doc = ledger[p].doc
                          /\ ledger'[p].known = ledger[p].known
      /\ \A x \in Objs : drive'[x].parent = drive[x].parent /\ drive'[x].text = drive[x].text
  BY <1>1, RemovingIs DEF Calm
<1> QED
  BY <1>1, <1>2, <1>3, <1>4, <1>5, <1>6, RestCalm DEF PlaceInv

-----------------------------------------------------------------------------
(* The theorem on convergence                                              *)

\* At the start nothing is mirrored, and no job runs.
LEMMA ConvInit == ASSUME Reconcilable, Init PROVE PlaceInv /\ CalmInv
<1>1. /\ \A p \in Pages : ledger[p] = NoRow /\ notion[p].parent = Home[p]
      /\ eng.pc = "idle" /\ eng.job = "item" /\ \A p \in Pages : eng.kids[p] = Null
  BY DEF Init, Idle
<1>2. \A p \in Pages : ledger[p].folder = Null /\ ledger[p].parent = Null /\ ledger[p].prop = Null
  BY <1>1 DEF NoRow
<1>3. AreaOK /\ BelowOK /\ SameOK /\ HandPlaced
  BY <1>1 DEF AreaOK, BelowOK, SameOK, HandPlaced, Crawl, ItemSteps
<1>4. UsedOK /\ PlaceOK /\ RowsOK
  BY <1>1, <1>2, NullAssumption DEF UsedOK, PlaceOK, RowsOK, RowTrue, Alive
<1>5. CalmInv
  BY <1>1 DEF CalmInv, Calm, ReadNow, SameNow, SeenNow, DoneNow, GrowNow, HandNow
<1> QED
  BY <1>3, <1>4, <1>5 DEF PlaceInv

\* Every step keeps folders in their homes and rows true.
LEMMA PlaceStep ==
    ASSUME Reconcilable, IInv, IInv', Verified, GateInv, PlaceInv, [Next]_vars
    PROVE  PlaceInv'
<1>1. TypeOK'
  BY DEF IInv
<1>2. CASE StartFull \/ StartPoll \/ StartItem
  BY <1>1, <1>2, StartPlaced
<1>3. ASSUME NEW p \in Pages, Pick(p) \/ Recurse(p) PROVE PlaceInv'
  BY <1>1, <1>3, PickPlaced, RecursePlaced
<1>4. CASE ResolveFolder \/ ResolveDoc \/ FetchBody \/ Row \/ RecordRow
  BY <1>1, <1>4, ResolveFolderPlaced, ResolveDocPlaced, FetchBodyPlaced, RowPlaced, RecordRowPlaced
<1>5. CASE Quietly
  BY <1>1, <1>5, QuietlyPlaced
<1>6. CASE Environment
  BY <1>1, <1>6, EnvironmentPlaced
<1>7. CASE UNCHANGED vars
  BY <1>7 DEF vars, PlaceInv, AreaOK, BelowOK, SameOK, UsedOK, PlaceOK, HandPlaced, RowsOK,
     RowTrue, RowRead, HomeOf, Alive
<1> QED
  BY <1>2, <1>3, <1>4, <1>5, <1>6, <1>7
     DEF Next, MirrorPage, Remove, Faults, Skips, Quietly

\* Every step of a reconcile that nothing disturbs keeps done what is done; a move, a
\* fault and the end of a job leave nothing to keep.
LEMMA CalmStep ==
    ASSUME Reconcilable, IInv, IInv', Verified, GateInv, GateInv', PlaceInv, PlaceInv', CalmInv,
           [Next]_vars
    PROVE  CalmInv'
<1>1. ~Calm' => CalmInv'
  BY DEF CalmInv, ReadNow, SameNow, SeenNow, DoneNow, GrowNow, HandNow
<1>2. CASE StartFull \/ StartPoll \/ StartItem
  BY <1>2, StartCalm
<1>3. ASSUME NEW p \in Pages, Pick(p) \/ Recurse(p) PROVE CalmInv'
  BY <1>3, PickCalm, RecurseCalm
<1>4. CASE MirrorPage
  BY <1>4, ResolveFolderCalm, ResolveDocCalm, FetchBodyCalm, BodyWrittenCalm, RowCalm,
     RecordRowCalm DEF MirrorPage
<1>5. CASE Removing
  BY <1>5, RemovingCalm
<1>6. CASE ItemFails
  <2>1. SUFFICES ASSUME Calm' PROVE FALSE
    BY <1>1
  <2>2. /\ eng.pc = "record" /\ ~ledger[eng.cur].known /\ calm' = calm /\ eng' = Finished(FALSE)
    BY <1>6, <2>1 DEF ItemFails, Calm
  <2>3. eng.job = "full"
    BY <2>1, <2>2 DEF Calm, Finished, Idle
  <2>4. Calm
    BY <2>1, <2>2, <2>3 DEF Calm
  <2> QED
    BY <2>2, <2>4 DEF CalmInv, HandNow, ItemSteps
<1>7. CASE RemoveFails \/ Environment
  <2>1. calm' = FALSE
    BY <1>7 DEF RemoveFails, Environment, EditBody, EditProp, Archive, Restore, Reparent,
       TrashByHand, EditDocByHand, ResetLedger, Move
  <2> QED
    BY <1>1, <2>1 DEF Calm
<1>8. CASE EndFull \/ Crash
  <2>1. eng' = Idle
    BY <1>8 DEF EndFull, Crash
  <2> QED
    BY <1>1, <2>1 DEF Calm, Idle
<1>9. CASE Skips
  BY <1>1, <1>9, SkipsIs DEF Calm
<1>10. CASE UNCHANGED vars
  BY <1>10 DEF vars, CalmInv, ReadNow, SameNow, SeenNow, DoneNow, GrowNow, HandNow, Calm, InItem,
     Entered, Done, Shown, Placed, Grown, HomeOf, HasDoc, Gate, IsLive, Children, Alive
<1> QED
  BY <1>2, <1>3, <1>4, <1>5, <1>6, <1>7, <1>8, <1>9, <1>10
     DEF Next, Remove, Faults, Skips, Removing

\* Only a full reconcile comes to the pruning.
OnlyFull == eng.pc \in {"prune", "done"} => eng.job = "full"

\* A step of the crawl leads to another or ends the job.
LEMMA WhereTo ==
    ASSUME IInv, Next
    PROVE  Removing \/ RemoveFails \/ Skips \/ Environment \/ eng' = Idle \/ eng'.pc \in Crawl
<1>1. eng \in Engine
  BY DEF IInv, TypeOK
<1>2. CASE StartFull \/ StartPoll \/ StartItem
  <2>1. PICK job, ps : Start(job, ps)
    BY <1>2 DEF StartFull, StartPoll, StartItem
  <2> QED
    BY <2>1 DEF Start, Idle, Crawl
<1>3. ASSUME NEW p \in Pages, Pick(p) \/ Recurse(p) PROVE eng'.pc \in Crawl
  BY <1>3, PickIs, RecurseIs DEF Crawl, ItemSteps
<1>4. CASE ResolveFolder
  BY <1>1, <1>4 DEF ResolveFolder, Engine, Crawl, ItemSteps
<1>5. CASE ResolveDoc
  BY <1>1, <1>5 DEF ResolveDoc, Engine, Crawl, ItemSteps
<1>6. CASE FetchBody
  BY <1>1, <1>6 DEF FetchBody, Engine, Crawl, ItemSteps
<1>7. CASE WriteDoc \/ RecordBody
  BY <1>1, <1>7 DEF WriteDoc, RecordBody, Engine, Crawl, ItemSteps
<1>8. CASE Row \/ RecordRow \/ ItemFails
  <2>1. eng.pc \in ItemSteps
    BY <1>8 DEF Row, RecordRow, ItemFails, ItemSteps
  <2>2. eng'.pc = "rowrecord" \/ \E done \in BOOLEAN : eng' = Finished(done)
    BY <1>1, <1>8 DEF Row, RecordRow, ItemFails, Engine
  <2> QED
    BY <2>1, <2>2, FinishedIs DEF Crawl, ItemSteps
<1>9. CASE EndFull \/ Crash
  BY <1>9 DEF EndFull, Crash
<1> QED
  BY <1>2, <1>3, <1>4, <1>5, <1>6, <1>7, <1>8, <1>9
     DEF Next, MirrorPage, Remove, Faults, Skips, Removing

\* The environment changes nothing of the engine.
LEMMA EnvironmentIs == Environment => eng' = eng /\ calm' = FALSE
  BY DEF Environment, EditBody, EditProp, Archive, Restore, Reparent, TrashByHand,
     EditDocByHand, ResetLedger, Move

\* No step leads there from another job.
LEMMA OnlyFullStep ==
    ASSUME IInv, OnlyFull, [Next]_vars
    PROVE  OnlyFull'
<1>1. eng \in Engine
  BY DEF IInv, TypeOK
<1>2. CASE eng' = Idle \/ eng'.pc \in Crawl \/ eng' = eng
  BY <1>2 DEF OnlyFull, Idle, Crawl, ItemSteps
<1>3. CASE BeginRemove \/ RemoveDoc \/ RemoveFolder \/ ClearRow
  BY <1>1, <1>3 DEF BeginRemove, RemoveDoc, RemoveFolder, RemoveFile, ClearRow, OnlyFull, Engine
<1>4. ASSUME NEW p \in Pages, Refetch(p) PROVE OnlyFull'
  BY <1>1, <1>4 DEF Refetch, OnlyFull, Engine
<1>5. CASE TombstonePair \/ RemoveFails
  BY <1>1, <1>5 DEF TombstonePair, RemoveFails, OnlyFull, Engine
<1>6. CASE EndRemove \/ Prune
  BY <1>1, <1>6 DEF EndRemove, Prune, Idle, OnlyFull, Engine
<1>7. CASE Skips
  BY <1>7, SkipsIs DEF OnlyFull, RemoveSteps
<1> QED
  BY <1>2, <1>3, <1>4, <1>5, <1>6, <1>7, WhereTo, EnvironmentIs DEF Removing, vars

\* All that the convergence rests on, besides IInv.
ConvInv == VerifiedDelete /\ Verified /\ GateInv /\ PlaceInv /\ CalmInv /\ OnlyFull

\* It holds at the start.
LEMMA ConvergeInit == ASSUME Reconcilable, Init PROVE ConvInv
<1>1. VerifiedDelete /\ Verified /\ OnlyFull
  BY DEF Init, VerifiedDelete, Verified, OnlyFull, NoRow, Idle, RemoveSteps, Alive
<1> QED
  BY <1>1, GateInit, ConvInit DEF ConvInv, Reconcilable

\* Every step preserves it.
LEMMA ConvergeStep ==
    ASSUME Reconcilable, IInv, IInv', ConvInv, [Next]_vars
    PROVE  ConvInv'
<1>1. Unspoilt
  BY DEF Reconcilable
<1>2. VerifiedDelete /\ Verified /\ GateInv /\ PlaceInv /\ CalmInv /\ OnlyFull
  BY DEF ConvInv
<1>3. VerifiedDelete' /\ Verified'
  BY <1>1, <1>2, VerifiedStep, NotAllowed
<1>4. GateInv'
  BY <1>1, <1>2, GateStep
<1>5. PlaceInv'
  BY <1>2, PlaceStep
<1>6. CalmInv'
  BY <1>2, <1>4, <1>5, CalmStep
<1>7. OnlyFull'
  BY <1>2, OnlyFullStep
<1> QED
  BY <1>3, <1>4, <1>5, <1>6, <1>7 DEF ConvInv

\* At the end of such a reconcile every page of Notion has been seen, and is done.
LEMMA AllDone ==
    ASSUME CalmInv, OnlyFull, calm, eng.pc \in {"prune", "done"}
    PROVE  \A p \in Alive : Shown(p) /\ Placed(p)
  BY DEF CalmInv, SeenNow, DoneNow, Calm, OnlyFull, Done, InItem, ItemSteps, Crawl

\* A full reconcile that nothing disturbs leaves every page of Notion shown with its
\* present body and row, in its place, from whatever failed steps, crashes, resets of the
\* ledger, edits and polls left behind: what Reconcilable excludes does break it.
THEOREM ReconcileConverges == ASSUME Reconcilable PROVE Spec => []Converges
<1>1. Init => ConvInv
  BY ConvergeInit
<1>2. IInv /\ IInv' /\ ConvInv /\ [Next]_vars => ConvInv'
  BY ConvergeStep
<1>3. ConvInv => Converges
  BY AllDone DEF ConvInv, Converges
<1> QED
  BY <1>1, <1>2, <1>3, Invariant, PTL DEF Spec

-----------------------------------------------------------------------------
(* Nothing else: what holds besides                                        *)

\* What belongs to a page of Notion; an action has a row only.
Owned    == {o \in Objs : \E p \in Alive : o \in {ledger[p].folder, ledger[p].doc}}
ActionOK == \A p \in Alive : Kind[p] = "action" => ledger[p].folder = Null

\* A page that is gone and still tracked is one that _remove_unseen has yet to drop.
Dropping == eng.pc = "remove" \/ eng.pc \in RemoveSteps
CleanNow == Calm =>
    /\ Dropping => \A p \in Tracked \ Alive : p \in eng.rem \/ (eng.pc # "remove" /\ p = eng.cur)
    /\ eng.pc \in {"prune", "done"} => Tracked \subseteq Alive

\* All that this rests on, besides what the convergence does.
RestInv == ActionOK /\ CleanNow /\ NothingElse

\* No step enters a folder for an action.
LEMMA ActionStep ==
    ASSUME Reconcilable, IInv, Verified, PlaceInv, ActionOK, [Next]_vars
    PROVE  ActionOK'
<1>1. SUFFICES \A p \in Alive' : p \in Alive /\ (\/ ledger'[p].folder \in {ledger[p].folder, Null}
                                                \/ Kind[p] # "action")
  BY DEF ActionOK
<1>2. CASE ledger' = ledger /\ Alive' = Alive
  BY <1>2
<1>3. CASE Quietly
  BY <1>3, QuietlyLeaves DEF Alive
<1>4. CASE FetchBody
  <2>1. Alive' = Alive /\ \A p \in Alive : p = eng.cur => Kind[p] # "action"
    BY <1>4, BodyFetched DEF PlaceInv, HandPlaced, Alive
  <2> QED
    BY <1>4, <2>1, BodyFetched DEF Alive
<1>5. CASE RecordRow
  <2>1. ledger \in [Pages -> SyncPair]
    BY DEF IInv, TypeOK
  <2> QED
    BY <1>5, <2>1 DEF RecordRow, Quiet, SyncPair, Alive
<1>6. CASE Environment
  <2>1. notion \in [Pages -> Notion] /\ "restore" \notin Allowed
    BY DEF IInv, TypeOK, Reconcilable, Unspoilt
  <2>2. \A p \in Alive' : p \in Alive
    BY <1>6, <2>1 DEF Environment, EditBody, EditProp, Archive, Restore, Reparent,
       TrashByHand, EditDocByHand, ResetLedger, Move, Alive, Notion
  <2>3. \A p \in Pages : ledger'[p] = ledger[p] \/ ledger'[p] = NoRow
    BY <1>6 DEF Environment, EditBody, EditProp, Archive, Restore, Reparent,
       TrashByHand, EditDocByHand, ResetLedger
  <2> QED
    BY <2>2, <2>3 DEF Alive, NoRow
<1>7. CASE StartFull \/ StartPoll \/ StartItem
  BY <1>2, <1>7, StartIs DEF Start, Alive
<1>8. ASSUME NEW p \in Pages, Pick(p) \/ Recurse(p) PROVE ledger' = ledger /\ Alive' = Alive
  BY <1>8, PickIs, RecurseIs DEF Alive
<1>9. CASE ResolveFolder \/ ResolveDoc \/ Row
  BY <1>2, <1>9 DEF ResolveFolder, ResolveDoc, Row, Quiet, Alive
<1> QED
  BY <1>2, <1>3, <1>4, <1>5, <1>6, <1>7, <1>8, <1>9
     DEF Next, MirrorPage, Remove, Faults, Skips, Quietly, vars, Alive

\* No step forgets a page that is gone.
LEMMA CleanStep ==
    ASSUME IInv, SeenNow, CleanNow, [Next]_vars
    PROVE  CleanNow'
<1>1. SUFFICES ASSUME Calm', ~UNCHANGED vars
               PROVE  /\ Dropping' => \A p \in (Tracked \ Alive)' :
                            p \in eng'.rem \/ (eng'.pc # "remove" /\ p = eng'.cur)
                      /\ eng'.pc \in {"prune", "done"} => (Tracked \subseteq Alive)'
  <2>1. UNCHANGED vars => CleanNow'
    BY DEF vars, CleanNow, Calm, Dropping, Tracked, Alive
  <2> QED
    BY <2>1 DEF CleanNow
<1>2. eng \in Engine /\ ledger \in [Pages -> SyncPair]
  BY DEF IInv, TypeOK
<1>3. CASE eng' = Idle \/ eng'.pc \in Crawl
  BY <1>1, <1>3 DEF Calm, Idle, Dropping, Crawl, ItemSteps, RemoveSteps
<1>4. CASE RemoveFails \/ Skips \/ Environment
  BY <1>1, <1>4, EnvironmentIs, SkipsIs DEF RemoveFails, Calm
<1>5. ASSUME Removing PROVE Alive' = Alive /\ calm' = calm
  BY <1>1, <1>5 DEF Removing, BeginRemove, Refetch, RemoveDoc, RemoveFolder, RemoveFile,
     ClearRow, TombstonePair, EndRemove, Prune, Quiet, Alive, Calm
<1>6. CASE BeginRemove
  <2>1. /\ eng.pc = "pick" /\ eng'.pc = "remove" /\ eng'.job = eng.job /\ ledger' = ledger
        /\ eng.job = "full" => eng'.rem = Tracked \ eng.seen
    BY <1>2, <1>6 DEF BeginRemove, Engine, Quiet
  <2>2. eng.seen \subseteq Alive /\ eng.job = "full"
    BY <1>1, <1>5, <1>6, <2>1 DEF Calm, SeenNow, Removing
  <2>3. Tracked' = Tracked
    BY <2>1 DEF Tracked
  <2> QED
    BY <1>5, <1>6, <2>1, <2>2, <2>3 DEF Removing
<1>7. ASSUME NEW p \in Pages, Refetch(p)
      PROVE  \A q \in (Tracked \ Alive)' : q \in eng'.rem \/ (eng'.pc # "remove" /\ q = eng'.cur)
  <2>1. /\ eng.pc = "remove" /\ eng'.job = eng.job /\ ledger' = ledger /\ notion' = notion
        /\ eng'.rem = eng.rem \ {p}
        /\ p \in Alive \/ (eng'.pc # "remove" /\ eng'.cur = p)
    BY <1>2, <1>7 DEF Refetch, Gone, Engine, Alive
  <2>2. Tracked' = Tracked /\ Alive' = Alive /\ Calm
    BY <1>1, <1>5, <1>7, <2>1 DEF Tracked, Alive, Calm, Removing
  <2> QED
    BY <2>1, <2>2 DEF CleanNow, Dropping
<1>8. CASE RemoveDoc \/ RemoveFolder \/ ClearRow
  <2>1. /\ eng.pc \in RemoveSteps /\ eng'.pc \in RemoveSteps /\ eng.pc # "idle"
        /\ eng.pc # "remove" /\ eng'.pc # "remove" /\ eng'.job = eng.job /\ ledger' = ledger
        /\ eng'.rem = eng.rem /\ eng'.cur = eng.cur
    BY <1>2, <1>8 DEF RemoveDoc, RemoveFolder, RemoveFile, ClearRow, Engine, Quiet, RemoveSteps
  <2>2. Tracked' = Tracked /\ Calm
    BY <1>1, <1>5, <1>8, <2>1 DEF Tracked, Calm, Removing
  <2> QED
    BY <1>5, <1>8, <2>1, <2>2 DEF CleanNow, Dropping, RemoveSteps, Removing
<1>9. CASE TombstonePair
  <2>1. /\ eng.pc = "tombstone" /\ eng'.pc = "remove" /\ eng'.job = eng.job /\ eng'.rem = eng.rem
        /\ \A p \in Pages : p # eng.cur => ledger'[p] = ledger[p]
        /\ eng.cur \in Pages => ledger'[eng.cur].tombstone
    BY <1>2, <1>9 DEF TombstonePair, Engine, Quiet, SyncPair
  <2>2. Tracked' \subseteq Tracked \ {eng.cur} /\ Calm
    BY <1>1, <1>5, <1>9, <2>1 DEF Tracked, Calm, Removing
  <2> QED
    BY <1>5, <1>9, <2>1, <2>2 DEF CleanNow, Dropping, RemoveSteps, Removing
<1>10. CASE EndRemove \/ Prune
  <2>1. /\ eng.pc = "prune" \/ (eng.pc = "remove" /\ eng.rem = {})
        /\ eng'.pc \in {"prune", "done"} /\ eng'.job = eng.job /\ ledger' = ledger
    <3>1. CASE EndRemove
      <4>1. eng' # Idle
        BY <1>1, <1>3 DEF Calm, Idle
      <4> QED
        BY <1>2, <3>1, <4>1 DEF EndRemove, Engine, Quiet
    <3>2. CASE Prune
      BY <1>2, <3>2 DEF Prune, Engine
    <3> QED
      BY <1>10, <3>1, <3>2
  <2>2. Tracked' = Tracked /\ Calm
    BY <1>1, <1>5, <1>10, <2>1 DEF Tracked, Calm, Removing
  <2> QED
    BY <1>5, <1>10, <2>1, <2>2 DEF CleanNow, Dropping, RemoveSteps, Removing
<1>11. Removing => CleanNow'
  <2>1. ASSUME NEW p \in Pages, Refetch(p) PROVE CleanNow'
    <3>1. eng'.pc \notin {"prune", "done"}
      BY <1>2, <2>1 DEF Refetch, Engine
    <3> QED
      BY <1>7, <2>1, <3>1 DEF CleanNow
  <2> QED
    BY <1>6, <1>8, <1>9, <1>10, <2>1 DEF Removing, CleanNow
<1> QED
  BY <1>1, <1>3, <1>4, <1>11, WhereTo DEF CleanNow

\* An object is among what is at or below it.
LEMMA SelfIsUnder == ASSUME NEW o PROVE o \in Under(o)
<1>1. PICK g : Levels(o, MaxObjs, g) /\ Under(o) = g[MaxObjs]
  BY UnderIs
<1> DEFINE Bad == {k \in 0..MaxObjs : o \notin g[k]}
<1>2. SUFFICES ASSUME Bad # {} PROVE FALSE
  BY <1>1, BoundAssumption
<1>3. PICK k \in Bad : \A j \in Bad : <<j, k>> \notin Less
  <2>1. Bad \subseteq Nat
    OBVIOUS
  <2> HIDE DEF Bad
  <2> QED
    BY <1>2, <2>1, LessIsWellFounded, WFMin
<1>4. k # 0
  BY <1>1, BoundAssumption DEF Levels
<1>5. k \in 0..MaxObjs /\ k - 1 \in 0..MaxObjs /\ k - 1 < k
  BY <1>4, BoundAssumption
<1>6. g[k] = Down(g[k - 1])
  BY <1>1, <1>4, <1>5 DEF Levels
<1>7. <<k - 1, k>> \in Less
  BY <1>5 DEF Less
<1>8. o \in g[k - 1]
  BY <1>3, <1>5, <1>7
<1> QED
  BY <1>6, <1>8 DEF Down

\* When the pruning comes every page of Notion is in its place: above what is owned
\* there is only what is owned, up to the standing folders.
LEMMA OwnedIsClosed ==
    ASSUME Reconcilable, IInv, GateInv, PlaceInv, ActionOK,
           \A p \in Alive : Shown(p) /\ Placed(p),
           NEW x \in Owned
    PROVE  drive[x].parent \in Fixed \/ drive[x].parent \in Owned
<1>1. PICK p \in Alive : x \in {ledger[p].folder, ledger[p].doc}
  BY DEF Owned
<1>2. p \in Pages /\ x \in Objs /\ x # Null /\ drive[x].parent \in Objs \cup Fixed
  BY <1>1, NullAssumption DEF Alive, Owned, IInv, TypeOK, File
<1>3. HasDoc(p) /\ Kind[p] # "action"
  <2>1. HasDoc(p)
    BY <1>1, <1>2 DEF GateInv, PairOK, NoDoc
  <2>2. ledger[p].folder # Null
    BY <2>1, NullAssumption DEF HasDoc, IsLive
  <2> QED
    BY <2>1, <2>2 DEF ActionOK
<1>4. CASE x = ledger[p].doc
  <2>1. drive[x].parent = ledger[p].folder /\ ledger[p].folder \in Objs
    BY <1>3, <1>4 DEF HasDoc, IsLive
  <2> QED
    BY <2>1 DEF Owned
<1>5. CASE x = ledger[p].folder
  <2>1. drive[x].parent = HomeOf(p)
    BY <1>2, <1>3, <1>5, PlacedIs DEF PlaceInv
  <2>2. CASE Kind[p] = "area" \/ Home[p] = Null
    BY <2>1, <2>2 DEF HomeOf, Fixed
  <2>3. CASE Kind[p] # "area" /\ Home[p] # Null
    <3>1. Home[p] \in Alive /\ drive[x].parent = ledger[Home[p]].folder
      BY <1>2, <2>1, <2>3, HomeAlive DEF HomeOf
    <3> QED
      BY <1>2, <3>1 DEF Owned
  <2> QED
    BY <2>2, <2>3
<1> QED
  BY <1>1, <1>4, <1>5

\* So below an object that no page owns there is none that is owned.
LEMMA NothingOwnedBelow ==
    ASSUME Reconcilable, IInv, GateInv, PlaceInv, ActionOK,
           \A p \in Alive : Shown(p) /\ Placed(p),
           NEW o \in Objs \ Owned
    PROVE  Under(o) \cap Owned = {}
<1> DEFINE S == Objs \ Owned
<1>1. ASSUME NEW x \in Objs, drive[x].parent \in S PROVE x \in S
  BY <1>1, OwnedIsClosed, FixedAssumption
<1> HIDE DEF S
<1>2. Under(o) \subseteq S
  <2>1. o \in S
    BY DEF S
  <2> QED
    BY <1>1, <2>1, UnderClosed
<1> QED
  BY <1>2 DEF S

\* And the pruning takes it, and what is below it.
LEMMA PruneTakesTheRest ==
    ASSUME Reconcilable, IInv, GateInv, PlaceInv, CalmInv, OnlyFull, ActionOK, CleanNow, Prune
    PROVE  NothingElse'
<1>1. SUFFICES ASSUME calm', NEW o \in Objs, IsLive(o)', drive'[o].parent # Root
               PROVE  \E p \in Alive' : o \in {ledger'[p].folder, ledger'[p].doc}
  BY DEF NothingElse
<1>2. /\ calm' = calm /\ notion' = notion /\ ledger' = ledger /\ drive' = Trashed(Orphans)
      /\ eng.pc = "prune" /\ drive \in [Objs -> File]
  <2>1. PICK spared \in SUBSET Orphans :
           /\ spared = {} /\ UNCHANGED <<faults, calm>>
           /\ drive' = Trashed(Orphans \ spared)
    BY <1>1 DEF Prune
  <2>2. Orphans \ spared = Orphans
    BY <2>1
  <2> QED
    BY <2>1, <2>2 DEF Prune, IInv, TypeOK
<1>3. Calm
  BY <1>1, <1>2 DEF Calm, OnlyFull
<1>4. \A p \in Alive : Shown(p) /\ Placed(p)
  BY <1>1, <1>2, AllDone
<1>5. SUFFICES ASSUME o \notin Owned PROVE FALSE
  BY <1>1, <1>2 DEF Owned, Alive
<1>6. IsLive(o) /\ drive[o].parent # Root
  <2>1. drive'[o] = IF \E y \in Orphans : o \in Under(y)
                    THEN [drive[o] EXCEPT !.trashed = TRUE] ELSE drive[o]
    BY <1>2 DEF Trashed
  <2>2. drive[o] \in File
    BY <1>2
  <2> QED
    BY <1>1, <2>1, <2>2 DEF IsLive, File
<1>7. o \in Orphans
  <2>1. ASSUME NEW x \in Under(o), IsLive(x) PROVE x \notin Keep
    <3>1. SUFFICES ASSUME x \in Keep PROVE x \in Owned
      BY <1>4, <1>5, NothingOwnedBelow
    <3>2. PICK p \in Tracked : x \in {ledger[p].folder, ledger[p].doc}
      BY <3>1 DEF Keep
    <3>3. p \in Alive /\ x \in Objs
      BY <1>2, <1>3, <2>1 DEF CleanNow, IsLive
    <3> QED
      BY <3>2, <3>3 DEF Owned
  <2> QED
    BY <1>6, <2>1 DEF Orphans
<1>8. drive'[o].trashed
  <2>1. o \in Under(o)
    BY <1>6, SelfIsUnder
  <2>2. drive[o] \in File /\ drive'[o] = [drive[o] EXCEPT !.trashed = TRUE]
    BY <1>2, <1>7, <2>1 DEF Trashed
  <2> QED
    BY <2>2 DEF File
<1> QED
  BY <1>1, <1>8 DEF IsLive

\* Only the pruning comes to the end of a full reconcile.
LEMMA RemovingEnds == ASSUME IInv, Removing, eng'.pc = "done" PROVE Prune
<1>1. eng \in Engine
  BY DEF IInv, TypeOK
<1>2. CASE BeginRemove \/ RemoveDoc \/ RemoveFolder \/ ClearRow
  BY <1>1, <1>2 DEF BeginRemove, RemoveDoc, RemoveFolder, RemoveFile, ClearRow, Engine
<1>3. ASSUME NEW p \in Pages, Refetch(p) PROVE FALSE
  BY <1>1, <1>3 DEF Refetch, Engine
<1>4. CASE TombstonePair
  BY <1>1, <1>4 DEF TombstonePair, Engine
<1>5. CASE EndRemove
  BY <1>1, <1>5 DEF EndRemove, Idle, Engine
<1> QED
  BY <1>2, <1>3, <1>4, <1>5 DEF Removing

\* At the end of a full reconcile that nothing disturbs no Drive object is left below the
\* section folders but the folders and Docs of the pages of Notion, whatever was created
\* and lost, archived, half removed or forgotten before.
THEOREM ReconcileLeavesNothingElse == ASSUME Reconcilable PROVE Spec => []NothingElse
<1>1. Init => ConvInv /\ RestInv
  <2>1. SUFFICES ASSUME Init PROVE ConvInv /\ RestInv
    OBVIOUS
  <2>2. ConvInv
    BY <2>1, ConvergeInit
  <2>3. eng.pc = "idle" /\ \A p \in Pages : ledger[p].folder = Null
    BY <2>1 DEF Init, Idle, NoRow
  <2>4. RestInv
    BY <2>3 DEF RestInv, ActionOK, CleanNow, Calm, NothingElse, Alive
  <2> QED
    BY <2>2, <2>4
<1>2. IInv /\ IInv' /\ ConvInv /\ RestInv /\ [Next]_vars => ConvInv' /\ RestInv'
  <2>1. SUFFICES ASSUME IInv, IInv', ConvInv, RestInv, [Next]_vars PROVE ConvInv' /\ RestInv'
    OBVIOUS
  <2>2. ConvInv'
    BY <2>1, ConvergeStep
  <2>3. ActionOK' /\ CleanNow'
    BY <2>1, ActionStep, CleanStep DEF ConvInv, RestInv, CalmInv
  <2>4. NothingElse'
    <3>1. CASE UNCHANGED vars
      BY <2>1, <3>1 DEF RestInv, vars, NothingElse, IsLive, Alive
    <3>2. CASE Prune
      BY <2>1, <3>2, PruneTakesTheRest DEF ConvInv, RestInv
    <3>3. CASE ~Prune /\ Next
      <4>1. SUFFICES ASSUME calm', eng'.pc = "done" PROVE FALSE
        BY DEF NothingElse
      <4> QED
        BY <2>1, <3>3, <4>1, WhereTo, RemovingEnds, EnvironmentIs, SkipsIs
           DEF RemoveFails, Idle, Crawl, ItemSteps
    <3> QED
      BY <2>1, <3>1, <3>2, <3>3
  <2> QED
    BY <2>2, <2>3, <2>4 DEF RestInv
<1>3. RestInv => NothingElse
  BY DEF RestInv
<1> QED
  BY <1>1, <1>2, <1>3, Invariant, PTL DEF Spec

=============================================================================
