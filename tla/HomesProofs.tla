---------------------------- MODULE HomesProofs ----------------------------
(***************************************************************************)
(* Why nothing that the mirror finds by name is made twice, why there is   *)
(* one root until a live one is taken for trashed, and why the hash gate   *)
(* of a generated Doc never hides an old text, for every number of objects,*)
(* versions and faults, where every caller holds the mirror lock: between  *)
(* looking for a name and making it nobody else makes it.                  *)
(* The refresh after a /command does not hold the lock (MCHomes_command).  *)
(***************************************************************************)
EXTENDS Homes, FiniteSetTheorems, TLAPS

\* Where a thread is, and what it holds.
Places  == {"idle", "root", "findroot", "makeroot", "sheet", "findsheet", "makesheet", "row",
            "rowhash", "fetch", "doc", "makedoc", "gate", "write", "hash"}
Local   == [pc : Places, job : {"item", "full", "poll"}, ret : {"idle", "sheet", "findsheet", "doc"},
            row : Versions \cup {None}, md : Versions \cup {None}, obj : Objs \cup {None}]
LocalOK == t \in [Threads -> Local]

\* The lock is held by every thread that works: one at a time.
LockOK  == \A i \in Threads : t[i].pc # "idle" => lock = i

\* What is not made yet, and what the configuration names.
DriveOK == /\ \A o \in Objs : drive[o].type = "free" => drive[o] = Made("free", None)
           /\ drive[Root].type = "folder" /\ drive[Sheet].type = "sheet"

\* One of each, and none where a thread is about to make one.
Single(S) == \A x, y \in S : x = y
OneOK   == Single(Named) /\ \A f \in Objs : Single(In(f, "doc")) /\ Single(In(f, "sheet"))
Found   == {"findsheet", "makesheet", "doc", "makedoc", "gate", "write", "hash"}
Knows(l) == /\ l.pc = "makeroot" => Named = {}
            /\ l.pc \in Found => l.obj \in Objs
            /\ l.pc = "makesheet" => In(l.obj, "sheet") = {}
            /\ l.pc = "makedoc" => In(l.obj, "doc") = {}
            /\ l.pc \in {"gate", "write", "hash"} => drive[l.obj].type = "doc"
MakesOK  == \A i \in Threads : Knows(t[i])

\* A Doc shows at least what is recorded of it, and nothing newer than what the
\* working thread has fetched: fetched texts grow, and one thread writes.
Fetched(i) == \/ t[i].pc \in {"doc", "makedoc", "gate", "write", "hash"}
              \/ t[i].pc \in {"root", "findroot", "makeroot"} /\ t[i].ret = "doc"
TextOK  == \A o \in Objs : /\ drive[o].type # "doc" => hash[o] = None
                           /\ drive[o].type = "doc" => hash[o] <= drive[o].text /\ drive[o].text <= want.doc
MdOK    == \A i \in Threads : Fetched(i) =>
             /\ t[i].md \in 1..want.doc
             /\ \A o \in Objs : drive[o].type = "doc" => drive[o].text <= t[i].md
             /\ t[i].pc = "hash" => drive[t[i].obj].text = t[i].md

OneInv  == TypeOK /\ LocalOK /\ LockOK /\ DriveOK /\ OneOK /\ MakesOK
GateInv == OneInv /\ TextOK /\ MdOK

-----------------------------------------------------------------------------
(* What is there by name                                                   *)

\* The lists by name lose members as things are trashed, and gain at most the
\* object that is made.
LEMMA ListsShrink ==
    ASSUME TypeOK, TypeOK', NEW o,
           \A x \in Objs : drive[x].trashed => drive'[x].trashed,
           \A x \in Objs \ {o} : drive'[x].type = drive[x].type /\ drive'[x].in = drive[x].in
    PROVE  /\ \A x \in Named' : x \in Named \/ (x = o /\ drive'[x].type = "folder")
           /\ \A f \in Objs, type \in {"doc", "sheet"} : \A x \in In(f, type)' :
                 x \in In(f, type) \/ (x = o /\ drive'[x].type = type /\ drive'[x].in = f)
<1>1. \A x \in Objs \ {o} : Live(x)' => Live(x)
  BY DEF Live, TypeOK
<1> QED
  BY <1>1 DEF Roots, Named, In

\* Where a step makes nothing, what was single stays so.
LEMMA NothingMade ==
    ASSUME TypeOK, TypeOK', OneOK,
           \A x \in Objs : /\ drive[x].trashed => drive'[x].trashed
                           /\ drive'[x].type = drive[x].type /\ drive'[x].in = drive[x].in
    PROVE  /\ OneOK' /\ Named' \subseteq Named
           /\ \A f \in Objs, type \in {"doc", "sheet"} : In(f, type)' \subseteq In(f, type)
<1>1. None \notin Objs
  BY DEF None, Objs
<1>2. /\ \A x \in Named' : x \in Named \/ (x = None /\ drive'[x].type = "folder")
      /\ \A f \in Objs, type \in {"doc", "sheet"} : \A x \in In(f, type)' :
            x \in In(f, type) \/ (x = None /\ drive'[x].type = type /\ drive'[x].in = f)
  BY ListsShrink
<1>3. Named' \subseteq Objs /\ \A f \in Objs, type \in {"doc", "sheet"} : In(f, type)' \subseteq Objs
  BY DEF Roots, Named, In
<1>4. Named' \subseteq Named /\ \A f \in Objs, type \in {"doc", "sheet"} : In(f, type)' \subseteq In(f, type)
  BY <1>1, <1>2, <1>3
<1> QED
  BY <1>4 DEF OneOK, Single

\* Where one thing is made that was not there, it is the only one.
LEMMA OneMade ==
    ASSUME TypeOK, TypeOK', OneOK, NEW o \in Fresh, NEW new, drive' = [drive EXCEPT ![o] = new],
           DriveOK,
           new.type = "folder" => Named = {},
           new.type \in {"doc", "sheet"} => new.in \in Objs /\ In(new.in, new.type) = {}
    PROVE  OneOK'
<1>1. /\ drive'[o] = new /\ \A x \in Objs \ {o} : drive'[x] = drive[x]
      /\ ~drive[o].trashed
  BY DEF TypeOK, Fresh, DriveOK, Made
<1>2. /\ \A x \in Named' : x \in Named \/ (x = o /\ new.type = "folder")
      /\ \A f \in Objs, type \in {"doc", "sheet"} : \A x \in In(f, type)' :
            x \in In(f, type) \/ (x = o /\ new.type = type /\ new.in = f)
  BY <1>1, ListsShrink
<1> QED
  BY <1>2 DEF OneOK, Single

-----------------------------------------------------------------------------
\* At the start there are the two configured objects.
LEMMA InitOne == Init => OneInv
<1> SUFFICES ASSUME Init PROVE OneInv
  OBVIOUS
<1> USE HomesAssumption DEF Init
<1>0. Root \in Objs /\ Sheet \in Objs /\ Root # Sheet /\ None \notin Objs /\ 1 \in Versions
  BY DEF Objs, Root, Sheet, None, Versions
<1>1. TypeOK /\ DriveOK
  <2>1. /\ drive[Root] = Made("folder", None) /\ drive[Sheet] = Made("sheet", Root)
        /\ \A o \in Objs \ {Root, Sheet} : drive[o] = Made("free", None)
    BY <1>0
  <2>2. drive \in [Objs -> [type : {"free", "folder", "sheet", "doc"}, in : Objs \cup {None},
                           trashed : BOOLEAN, text : Versions \cup {None}]]
    BY <1>0, <2>1 DEF Made
  <2>3. DriveOK
    BY <1>0, <2>1 DEF DriveOK, Made
  <2>4. rt \in [{"root", "sheet"} -> Objs] /\ rt.root = Root /\ rt.sheet = Sheet
    BY <1>0 DEF Configured
  <2>5. want \in [{"doc", "row"} -> Versions]
    BY <1>0
  <2> QED
    BY <2>2, <2>3, <2>4, <2>5 DEF TypeOK, DriveOK, Idle
<1>2. LocalOK /\ LockOK /\ MakesOK
  BY DEF LocalOK, Local, Places, LockOK, MakesOK, Knows, Found, Idle
<1>3. OneOK
  BY DEF OneOK, Single, Roots, Named, In, Live, Made, Root, Sheet, None
<1> QED
  BY <1>1, <1>2, <1>3 DEF OneInv

-----------------------------------------------------------------------------
(* Steps of the thread with the lock                                       *)

\* Where all take the lock, the others are idle.
LEMMA Alone ==
    ASSUME OneInv, NEW i \in Threads, t[i].pc # "idle"
    PROVE  lock = i /\ \A j \in Threads \ {i} : t[j].pc = "idle"
  BY DEF OneInv, LockOK

\* A step of the thread with the lock leaves the others idle.
LEMMA ThreadMoves ==
    ASSUME OneInv, NEW i \in Threads, t[i].pc # "idle",
           NEW l, l \in Local, t' = [t EXCEPT ![i] = l],
           lock' = lock \/ (l.pc = "idle" /\ lock' = None),
           t'[i] = l => Knows(t[i])'
    PROVE  LocalOK' /\ LockOK' /\ MakesOK' /\ lock' \in Locked \cup {None}
<1>1. t' \in [Threads -> Local] /\ t'[i] = l /\ \A j \in Threads \ {i} : t'[j] = t[j] /\ t[j].pc = "idle"
  BY Alone DEF OneInv, LocalOK
<1>2. \A j \in Threads \ {i} : Knows(t[j])'
  BY <1>1 DEF Knows, Found
<1>3. LockOK'
  BY <1>1, Alone DEF LockOK
<1> QED
  BY <1>1, <1>2, <1>3 DEF LocalOK, MakesOK, OneInv, TypeOK

\* What a thread knows stays so while the drive does.
LEMMA StillKnown ==
    ASSUME OneInv, NEW i \in Threads, t[i].pc # "idle", UNCHANGED drive,
           NEW l, l \in Local, Knows(l), t' = [t EXCEPT ![i] = l],
           lock' = lock \/ (l.pc = "idle" /\ lock' = None)
    PROVE  LocalOK' /\ LockOK' /\ MakesOK' /\ lock' \in Locked \cup {None}
<1>1. Named' = Named
  BY DEF Roots, Named, Live
<1>2. \A f : In(f, "sheet")' = In(f, "sheet") /\ In(f, "doc")' = In(f, "doc")
  BY DEF In, Live
<1>3. t'[i] = l => Knows(t[i])'
  BY <1>1, <1>2 DEF Knows
<1> QED
  BY <1>3, ThreadMoves

\* The typing of the rest.
LEMMA TypeKept ==
    ASSUME OneInv, LockOK', lock' \in Locked \cup {None}, UNCHANGED <<want, drive>>,
           rt' \in [{"root", "sheet"} -> Objs], drive[rt'.root].type = "folder", drive[rt'.sheet].type = "sheet",
           hash' \in [Objs -> Versions \cup {None}], rowHash' \in Versions \cup {None}, misread' \in BOOLEAN
    PROVE  TypeOK' /\ DriveOK' /\ OneOK'
<1>1. TypeOK'
  BY DEF OneInv, TypeOK, LockOK
<1>2. DriveOK'
  BY DEF OneInv, DriveOK
<1>3. OneOK'
  BY DEF OneInv, OneOK, Single, Roots, Named, In, Live
<1> QED
  BY <1>1, <1>2, <1>3

-----------------------------------------------------------------------------
(* One lemma for each kind of step                                         *)

\* A job begins when no other works.
LEMMA BeginOne == ASSUME Threads \subseteq Locked, OneInv, NEW i \in Threads, Begin(i) PROVE OneInv'
<1> USE HomesAssumption DEF OneInv, Begin
<1>1. lock = None /\ lock' = i /\ \A j \in Threads : t[j].pc = "idle"
  BY DEF Takes, LockOK
<1>2. PICK job \in {"full", "poll"} :
        t' = [t EXCEPT ![i] = [Idle EXCEPT !.job = job, !.row = want.row,
                                           !.pc = IF job = "full" THEN "root" ELSE "row", !.ret = "sheet"]]
  BY DEF At
<1>3. /\ t' \in [Threads -> Local] /\ \A j \in Threads \ {i} : t'[j] = t[j]
      /\ t'[i].pc \in {"root", "row"}
  BY <1>2 DEF LocalOK, Local, Places, Idle, TypeOK
<1>4. LocalOK' /\ LockOK' /\ MakesOK'
  BY <1>1, <1>3 DEF LocalOK, LockOK, MakesOK, Knows, Found
<1>5. TypeOK' /\ DriveOK' /\ OneOK'
  BY <1>1, <1>4, TypeKept DEF TypeOK
<1> QED
  BY <1>4, <1>5

\* The root is live or looked for by its name.
LEMMA RootOne == ASSUME OneInv, NEW i \in Threads, RootLive(i) \/ FindRoot(i) PROVE OneInv'
<1> USE DEF OneInv, At
<1>1. UNCHANGED <<want, drive, hash, rowHash, lock>> /\ t[i] \in Local /\ misread' \in BOOLEAN
  BY DEF RootLive, FindRoot, LocalOK, TypeOK
<1>2. CASE RootLive(i)
  <2>1. PICK l \in Local : /\ t' = [t EXCEPT ![i] = l]
                           /\ l = [t[i] EXCEPT !.pc = t[i].ret, !.obj = rt.root] \/ l = [t[i] EXCEPT !.pc = "findroot"]
    <3>1. [t[i] EXCEPT !.pc = t[i].ret, !.obj = rt.root] \in Local /\ [t[i] EXCEPT !.pc = "findroot"] \in Local
      BY <1>1 DEF Local, Places, TypeOK
    <3> QED
      BY <1>2, <3>1 DEF RootLive, Goto
  <2>2. t[i].pc # "idle" /\ Knows(l)
    BY <1>1, <1>2, <2>1 DEF RootLive, Knows, Found, Local, TypeOK
  <2>3. LocalOK' /\ LockOK' /\ MakesOK' /\ lock' \in Locked \cup {None}
    BY <1>1, <2>1, <2>2, StillKnown
  <2> QED
    BY <1>1, <1>2, <2>3, TypeKept DEF RootLive, TypeOK
<1>3. CASE FindRoot(i)
  <2>1. PICK l \in Local : /\ t' = [t EXCEPT ![i] = l]
                           /\ \/ Named = {} /\ l = [t[i] EXCEPT !.pc = "makeroot"] /\ UNCHANGED rt
                              \/ \E o \in Named : /\ l = [t[i] EXCEPT !.pc = t[i].ret, !.obj = o]
                                                  /\ rt' = [rt EXCEPT !.root = o]
    <3>1. /\ [t[i] EXCEPT !.pc = "makeroot"] \in Local
          /\ \A o \in Named : [t[i] EXCEPT !.pc = t[i].ret, !.obj = o] \in Local
      BY <1>1 DEF Local, Places, Roots, Named
    <3>2. CASE Named = {}
      BY <1>3, <3>1, <3>2 DEF FindRoot, Goto
    <3>3. CASE Named # {}
      <4>1. PICK o \in Named : Repointed(i, o)
        BY <1>3, <3>3 DEF FindRoot
      <4>2. t' = [t EXCEPT ![i] = [t[i] EXCEPT !.pc = t[i].ret, !.obj = o]]
        BY <4>1 DEF Repointed
      <4> QED
        BY <3>1, <4>1, <4>2 DEF Repointed
    <3> QED
      BY <3>2, <3>3
  <2>2. t[i].pc # "idle" /\ Knows(l)
    BY <1>1, <1>3, <2>1 DEF FindRoot, Knows, Found, Local, Roots, Named
  <2>3. LocalOK' /\ LockOK' /\ MakesOK' /\ lock' \in Locked \cup {None}
    BY <1>1, <2>1, <2>2, StillKnown
  <2>4. rt' \in [{"root", "sheet"} -> Objs] /\ drive[rt'.root].type = "folder" /\ drive[rt'.sheet].type = "sheet"
    <3>1. rt' = rt \/ \E o \in Named : rt' = [rt EXCEPT !.root = o]
      BY <2>1
    <3>2. \A o \in Named : o \in Objs /\ drive[o].type = "folder"
      BY DEF Roots, Named
    <3> QED
      BY <3>1, <3>2 DEF TypeOK
  <2> QED
    BY <1>1, <2>3, <2>4, TypeKept DEF TypeOK
<1> QED
  BY <1>2, <1>3

\* So is the sheet.
LEMMA SheetOne == ASSUME OneInv, NEW i \in Threads, SheetLive(i) \/ FindSheet(i) PROVE OneInv'
<1> USE DEF OneInv, At
<1>1. UNCHANGED <<want, drive, hash, rowHash, lock, misread>> /\ t[i] \in Local /\ t[i].pc # "idle"
  BY DEF SheetLive, FindSheet, LocalOK
<1>2. PICK l \in Local : /\ t' = [t EXCEPT ![i] = l] /\ Knows(l)
                         /\ rt' = rt \/ \E o \in Objs : drive[o].type = "sheet" /\ rt' = [rt EXCEPT !.sheet = o]
  <2>1. /\ [t[i] EXCEPT !.pc = "row"] \in Local /\ [t[i] EXCEPT !.pc = "makesheet"] \in Local
        /\ [t[i] EXCEPT !.pc = "root", !.ret = "findsheet"] \in Local
    BY <1>1 DEF Local, Places
  <2>2. Knows([t[i] EXCEPT !.pc = "row"]) /\ Knows([t[i] EXCEPT !.pc = "root", !.ret = "findsheet"])
    BY <1>1 DEF Knows, Found, Local
  <2>3. CASE SheetLive(i)
    BY <2>1, <2>2, <2>3 DEF SheetLive, Goto
  <2>4. CASE FindSheet(i) /\ In(t[i].obj, "sheet") = {}
    <3>1. t[i].obj \in Objs
      BY <2>4 DEF FindSheet, MakesOK, Knows, Found
    <3>2. Knows([t[i] EXCEPT !.pc = "makesheet"])
      BY <1>1, <2>4, <3>1 DEF Knows, Found, Local
    <3> QED
      BY <2>1, <2>4, <3>2 DEF FindSheet, Goto
  <2>5. CASE FindSheet(i) /\ In(t[i].obj, "sheet") # {}
    BY <2>1, <2>2, <2>5 DEF FindSheet, Goto, In
  <2> QED
    BY <2>3, <2>4, <2>5
<1>3. LocalOK' /\ LockOK' /\ MakesOK' /\ lock' \in Locked \cup {None}
  BY <1>1, <1>2, StillKnown
<1>4. rt' \in [{"root", "sheet"} -> Objs] /\ drive[rt'.root].type = "folder" /\ drive[rt'.sheet].type = "sheet"
  BY <1>2 DEF TypeOK
<1> QED
  BY <1>1, <1>3, <1>4, TypeKept DEF TypeOK

\* The Doc is looked for by its name, and its gate passed or not.
LEMMA DocOne ==
    ASSUME OneInv, NEW i \in Threads, FindDoc(i) \/ DocGate(i) \/ RecordDoc(i)
    PROVE  OneInv'
<1> USE DEF OneInv, At
<1>1. UNCHANGED <<want, drive, rt, rowHash, misread>> /\ t[i] \in Local /\ t[i].pc # "idle" /\ t[i].obj \in Objs
  BY DEF FindDoc, DocGate, RecordDoc, LocalOK, MakesOK, Knows, Found
<1>2. Idle \in Local /\ Knows(Idle)
  BY DEF Idle, Local, Places, Knows, Found
<1>3. PICK l \in Local : /\ t' = [t EXCEPT ![i] = l] /\ Knows(l)
                         /\ lock' = lock \/ (l.pc = "idle" /\ lock' = None)
  <2>1. CASE FindDoc(i) /\ In(t[i].obj, "doc") = {}
    <3>1. [t[i] EXCEPT !.pc = "makedoc"] \in Local /\ Knows([t[i] EXCEPT !.pc = "makedoc"])
      BY <1>1, <2>1 DEF Local, Places, Knows, Found
    <3> QED
      BY <2>1, <3>1 DEF FindDoc, ByName, Goto
  <2>2. CASE FindDoc(i) /\ In(t[i].obj, "doc") # {}
    <3>1. PICK o \in In(t[i].obj, "doc") : t' = [t EXCEPT ![i] = [t[i] EXCEPT !.pc = "gate", !.obj = o]]
      BY <2>2 DEF FindDoc, ByName
    <3>2. /\ [t[i] EXCEPT !.pc = "gate", !.obj = o] \in Local
          /\ Knows([t[i] EXCEPT !.pc = "gate", !.obj = o])
      BY <1>1 DEF In, Local, Places, Knows, Found
    <3> QED
      BY <2>2, <3>1, <3>2 DEF FindDoc
  <2>3. CASE DocGate(i) /\ hash[Key(t[i].obj)] # t[i].md
    <3>1. [t[i] EXCEPT !.pc = "write"] \in Local /\ Knows([t[i] EXCEPT !.pc = "write"])
      BY <1>1, <2>3 DEF DocGate, MakesOK, Local, Places, Knows, Found
    <3> QED
      BY <2>3, <3>1 DEF DocGate, Goto
  <2>4. CASE t' = [t EXCEPT ![i] = Idle] /\ Released(i)
    BY <1>2, <2>4 DEF Released, Idle
  <2> QED
    BY <2>1, <2>2, <2>3, <2>4 DEF DocGate, RecordDoc
<1>4. LocalOK' /\ LockOK' /\ MakesOK' /\ lock' \in Locked \cup {None}
  BY <1>1, <1>3, StillKnown
<1>5. hash' \in [Objs -> Versions \cup {None}]
  BY <1>1 DEF FindDoc, DocGate, RecordDoc, Gated, Key, TypeOK, Local
<1> QED
  BY <1>1, <1>4, <1>5, TypeKept DEF TypeOK

\* What should be shown is fetched, or the row recorded.
LEMMA FetchOne == ASSUME OneInv, NEW i \in Threads, Fetch(i) \/ RecordRow(i) \/ Fails(i) PROVE OneInv'
<1> USE DEF OneInv, At
<1>1. UNCHANGED <<want, drive, rt, hash, misread>> /\ t[i] \in Local /\ t[i].pc # "idle"
  BY DEF Fetch, RecordRow, Fails, LocalOK
<1>2. PICK l \in Local : /\ t' = [t EXCEPT ![i] = l] /\ Knows(l)
                         /\ lock' = lock \/ (l.pc = "idle" /\ lock' = None)
  <2>1. /\ [t[i] EXCEPT !.pc = "root", !.ret = "doc", !.md = want.doc] \in Local
        /\ [t[i] EXCEPT !.pc = "fetch"] \in Local /\ Idle \in Local
    BY <1>1 DEF Local, Places, Idle, TypeOK
  <2>2. /\ Knows([t[i] EXCEPT !.pc = "root", !.ret = "doc", !.md = want.doc])
        /\ Knows([t[i] EXCEPT !.pc = "fetch"]) /\ Knows(Idle)
    BY <1>1 DEF Knows, Found, Idle, Local
  <2> QED
    BY <2>1, <2>2 DEF Fetch, RecordRow, Fails, Goto, Released, Idle
<1>3. LocalOK' /\ LockOK' /\ MakesOK' /\ lock' \in Locked \cup {None}
  BY <1>1, <1>2, StillKnown
<1>4. rowHash' \in Versions \cup {None}
  BY <1>1 DEF Fetch, RecordRow, Fails, TypeOK, Local
<1> QED
  BY <1>1, <1>3, <1>4, TypeKept DEF TypeOK

\* A text is written: what is there by name stays what it is.
LEMMA WriteOne == ASSUME OneInv, NEW i \in Threads, RowGate(i) \/ WriteDoc(i) PROVE OneInv'
<1> USE DEF OneInv, At
<1>1. UNCHANGED <<want, rt, hash, rowHash, lock, misread>> /\ t[i] \in Local /\ t[i].pc # "idle"
  BY DEF RowGate, WriteDoc, LocalOK
<1>2. PICK pc \in {"fetch", "rowhash", "hash"} :
        /\ t' = [t EXCEPT ![i] = [t[i] EXCEPT !.pc = pc]]
        /\ pc = "hash" => t[i].pc = "write"
  BY <1>1 DEF RowGate, WriteDoc, Goto
<1>3. /\ drive' = drive \/ \E o \in Objs, v \in Versions \cup {None} :
                              drive[o].type # "free" /\ drive' = [drive EXCEPT ![o].text = v]
      /\ t[i].pc = "write" => t[i].obj \in Objs /\ drive[t[i].obj].type = "doc"
  <2>1. t[i].pc = "write" => t[i].obj \in Objs /\ drive[t[i].obj].type = "doc"
    BY DEF MakesOK, Knows, Found
  <2>2. CASE RowGate(i)
    <3>1. drive' = drive \/ drive' = [drive EXCEPT ![rt.sheet].text = t[i].row]
      BY <2>2 DEF RowGate
    <3>2. rt.sheet \in Objs /\ drive[rt.sheet].type = "sheet" /\ t[i].row \in Versions \cup {None}
      BY <1>1 DEF TypeOK, Local
    <3> QED
      BY <2>1, <3>1, <3>2
  <2>3. CASE WriteDoc(i)
    <3>1. t[i].md \in Versions \cup {None}
      BY <1>1 DEF Local
    <3> QED
      BY <2>1, <2>3, <3>1 DEF WriteDoc
  <2> QED
    BY <2>2, <2>3
<1>4. /\ drive' \in [Objs -> [type : {"free", "folder", "sheet", "doc"}, in : Objs \cup {None},
                               trashed : BOOLEAN, text : Versions \cup {None}]]
      /\ \A x \in Objs : /\ drive'[x].trashed = drive[x].trashed /\ drive'[x].type = drive[x].type
                         /\ drive'[x].in = drive[x].in
                         /\ drive[x].type = "free" => drive'[x] = drive[x]
  BY <1>3 DEF TypeOK
<1>5. [t[i] EXCEPT !.pc = pc] \in Local
  BY <1>1 DEF Local, Places
<1>6. Knows(t[i])'
  BY <1>1, <1>2, <1>3, <1>4 DEF Knows, Found, LocalOK, Local
<1>7. LocalOK' /\ LockOK' /\ MakesOK' /\ lock' \in Locked \cup {None}
  BY <1>1, <1>2, <1>5, <1>6, ThreadMoves
<1>8. TypeOK'
  BY <1>1, <1>4, <1>7 DEF TypeOK, LockOK
<1>9. OneOK' /\ DriveOK'
  BY <1>4, <1>8, NothingMade, HomesAssumption DEF DriveOK, Root, Sheet, Objs
<1> QED
  BY <1>7, <1>8, <1>9

\* What is made was looked for in vain, and nobody made it since.
LEMMA MakeOne ==
    ASSUME OneInv, NEW i \in Threads, MakeRoot(i) \/ MakeSheet(i) \/ MakeDoc(i)
    PROVE  OneInv'
<1> USE DEF OneInv, At
<1>1. UNCHANGED <<want, hash, rowHash, lock, misread>> /\ t[i] \in Local /\ t[i].pc # "idle" /\ Knows(t[i])
  BY DEF MakeRoot, MakeSheet, MakeDoc, LocalOK, MakesOK
<1>2. PICK o \in Fresh, type \in {"folder", "sheet", "doc"}, in \in Objs \cup {None}, trashed \in BOOLEAN :
        /\ drive' = [drive EXCEPT ![o] = [type |-> type, in |-> in, trashed |-> trashed, text |-> None]]
        /\ type = "folder" => Named = {}
        /\ type # "folder" => in \in Objs /\ In(in, type) = {}
        /\ \/ rt' = rt
           \/ type = "folder" /\ rt' = [rt EXCEPT !.root = o]
           \/ type = "sheet" /\ rt' = [rt EXCEPT !.sheet = o]
        /\ \/ t' = [t EXCEPT ![i] = [t[i] EXCEPT !.pc = t[i].ret, !.obj = o]]
           \/ t' = [t EXCEPT ![i] = [t[i] EXCEPT !.pc = "row"]]
           \/ type = "doc" /\ t' = [t EXCEPT ![i] = [t[i] EXCEPT !.pc = "gate", !.obj = o]]
  <2>1. CASE MakeRoot(i)
    BY <1>1, <2>1 DEF MakeRoot, Made, Repointed, Knows
  <2>2. CASE MakeSheet(i)
    BY <1>1, <2>2 DEF MakeSheet, Made, Goto, Knows, Found
  <2>3. CASE MakeDoc(i)
    <3>1. t[i].obj \in Objs /\ In(t[i].obj, "doc") = {}
      BY <1>1, <2>3 DEF MakeDoc, Knows, Found
    <3>2. drive[t[i].obj].trashed \in BOOLEAN
      BY <3>1 DEF TypeOK
    <3>3. [Made("doc", t[i].obj) EXCEPT !.trashed = drive[t[i].obj].trashed]
              = [type |-> "doc", in |-> t[i].obj, trashed |-> drive[t[i].obj].trashed, text |-> None]
      BY DEF Made
    <3>4. PICK o \in Fresh :
            /\ drive' = [drive EXCEPT ![o] = [Made("doc", t[i].obj) EXCEPT !.trashed = drive[t[i].obj].trashed]]
            /\ t' = [t EXCEPT ![i].pc = "gate", ![i].obj = o]
      BY <2>3, Zenon DEF MakeDoc
    <3>5. drive' = [drive EXCEPT ![o] = [type |-> "doc", in |-> t[i].obj,
                                         trashed |-> drive[t[i].obj].trashed, text |-> None]]
      BY <3>3, <3>4, Zenon
    <3>6. rt' = rt /\ t' = [t EXCEPT ![i] = [t[i] EXCEPT !.pc = "gate", !.obj = o]]
      BY <2>3, <3>4 DEF MakeDoc
    <3> QED
      BY <3>1, <3>2, <3>5, <3>6
  <2> QED
    BY <2>1, <2>2, <2>3
<1> DEFINE new == [type |-> type, in |-> in, trashed |-> trashed, text |-> None]
<1>3. /\ o \in Objs /\ drive[o].type = "free" /\ drive'[o] = new
      /\ \A x \in Objs \ {o} : drive'[x] = drive[x]
      /\ drive' \in [Objs -> [type : {"free", "folder", "sheet", "doc"}, in : Objs \cup {None},
                               trashed : BOOLEAN, text : Versions \cup {None}]]
  BY <1>2 DEF Fresh, TypeOK
<1>4. PICK l \in Local : t' = [t EXCEPT ![i] = l] /\ l.pc # "makeroot" /\ l.pc # "makesheet" /\ l.pc # "makedoc"
                         /\ (l.pc \in Found => l.obj = o)
                         /\ (l.pc \in {"gate", "write", "hash"} => type = "doc")
  <2>1. /\ [t[i] EXCEPT !.pc = t[i].ret, !.obj = o] \in Local /\ [t[i] EXCEPT !.pc = "row"] \in Local
        /\ [t[i] EXCEPT !.pc = "gate", !.obj = o] \in Local
    BY <1>1, <1>3 DEF Local, Places
  <2> QED
    BY <1>1, <1>2, <2>1 DEF Found, Local
<1>5. Knows(t[i])'
  BY <1>3, <1>4 DEF Knows, Found, LocalOK
<1>6. LocalOK' /\ LockOK' /\ MakesOK' /\ lock' \in Locked \cup {None}
  BY <1>1, <1>4, <1>5, ThreadMoves
<1>7. /\ rt' \in [{"root", "sheet"} -> Objs] /\ drive'[rt'.root].type = "folder"
      /\ drive'[rt'.sheet].type = "sheet"
  BY <1>2, <1>3 DEF TypeOK
<1>8. TypeOK'
  BY <1>1, <1>3, <1>6, <1>7 DEF TypeOK, LockOK
<1>9. OneOK'
  BY <1>2, <1>3, <1>8, OneMade
<1>10. DriveOK'
  <2>1. Root \in Objs \ {o} /\ Sheet \in Objs \ {o}
    BY <1>3, HomesAssumption DEF DriveOK, Root, Sheet, Objs
  <2> QED
    BY <1>3, <2>1 DEF DriveOK
<1> QED
  BY <1>6, <1>8, <1>9, <1>10

\* A thing that is trashed is found by no name.
LEMMA TrashOne == ASSUME OneInv, NEW o \in Objs, Trash(o) PROVE OneInv'
<1> USE DEF OneInv
<1>1. /\ drive' = [drive EXCEPT ![o].trashed = TRUE] /\ drive[o].type # "free"
      /\ UNCHANGED <<want, rt, hash, rowHash, lock, t, misread>>
  BY DEF Trash, Live
<1>2. TypeOK'
  BY <1>1 DEF TypeOK
<1>3. \A x \in Objs : /\ drive[x].trashed => drive'[x].trashed
                      /\ drive'[x].type = drive[x].type /\ drive'[x].in = drive[x].in
                      /\ drive[x].type = "free" => drive'[x] = drive[x]
  BY <1>1 DEF TypeOK
<1>4. /\ OneOK' /\ Named' \subseteq Named
      /\ \A f \in Objs, type \in {"doc", "sheet"} : In(f, type)' \subseteq In(f, type)
  BY <1>2, <1>3, NothingMade
<1>5. MakesOK'
  <2>1. SUFFICES ASSUME NEW i \in Threads PROVE Knows(t[i])'
    BY <1>1 DEF MakesOK
  <2>2. Knows(t[i])
    BY DEF MakesOK
  <2> QED
    BY <1>1, <1>3, <1>4, <2>2 DEF Knows, Found
<1>6. LocalOK' /\ LockOK' /\ DriveOK'
  BY <1>1, <1>3, HomesAssumption DEF LocalOK, LockOK, DriveOK, Root, Sheet, Objs
<1> QED
  BY <1>2, <1>4, <1>5, <1>6

\* A restart forgets the threads and goes back to the configured objects, which are
\* what they were made as; a change in Notion touches neither.
LEMMA OutsideOne == ASSUME OneInv, Crash \/ \E what \in {"doc", "row"}, v \in Versions : Change(what, v) PROVE OneInv'
<1> USE HomesAssumption DEF OneInv
<1>1. CASE Crash
  <2>1. LocalOK' /\ LockOK' /\ MakesOK'
    BY <1>1 DEF Crash, LocalOK, Local, Places, LockOK, MakesOK, Knows, Found, Idle
  <2>2. Configured \in [{"root", "sheet"} -> Objs] /\ Configured.root = Root /\ Configured.sheet = Sheet
    BY DEF Configured, Root, Sheet, Objs
  <2> QED
    BY <1>1, <2>1, <2>2, TypeKept DEF Crash, TypeOK, DriveOK
<1>2. CASE \E what \in {"doc", "row"}, v \in Versions : Change(what, v)
  <2>1. UNCHANGED <<drive, rt, hash, rowHash, lock, t, misread>> /\ want' \in [{"doc", "row"} -> Versions]
    BY <1>2 DEF Change, TypeOK
  <2>2. TypeOK' /\ DriveOK' /\ LocalOK' /\ LockOK'
    BY <2>1 DEF TypeOK, DriveOK, LocalOK, LockOK
  <2>3. OneOK' /\ Named' = Named /\ \A f : In(f, "sheet")' = In(f, "sheet") /\ In(f, "doc")' = In(f, "doc")
    BY <2>1 DEF OneOK, Single, Roots, Named, In, Live
  <2>4. MakesOK'
    BY <2>1, <2>3 DEF MakesOK, Knows
  <2> QED
    BY <2>2, <2>3, <2>4
<1> QED
  BY <1>1, <1>2

\* Every step keeps what is single single.
LEMMA NextOne == ASSUME Threads \subseteq Locked, OneInv, [Next]_vars PROVE OneInv'
<1>1. ASSUME NEW i \in Threads, Begin(i) \/ Work(i) \/ Fails(i) PROVE OneInv'
  BY <1>1, BeginOne, RootOne, SheetOne, DocOne, FetchOne, WriteOne, MakeOne DEF Work
<1>2. CASE Crash \/ Env
  BY <1>2, TrashOne, OutsideOne DEF Env
<1>3. CASE UNCHANGED vars
  <2>1. Named' = Named /\ \A f : In(f, "sheet")' = In(f, "sheet") /\ In(f, "doc")' = In(f, "doc")
    BY <1>3 DEF vars, Roots, Named, In, Live
  <2> QED
    <3>1. MakesOK'
      BY <1>3, <2>1 DEF vars, OneInv, MakesOK, Knows
    <3> QED
      BY <1>3, <2>1, <3>1 DEF vars, OneInv, TypeOK, LocalOK, LockOK, DriveOK, OneOK, Single
<1> QED
  BY <1>1, <1>2, <1>3 DEF Next

\* A set whose members are all the same has no two: that is how "never twice" is proved.
LEMMA AtMostOne == ASSUME NEW S, \A x, y \in S : x = y PROVE Cardinality(S) <= 1
<1>1. S = {} \/ \E x \in S : S = {x}
  OBVIOUS
<1>2. CASE S = {}
  BY <1>2, FS_EmptySet
<1>3. CASE \E x \in S : S = {x}
  <2>1. PICK x \in S : S = {x}
    BY <1>3
  <2>2. Cardinality({x}) = 1
    BY FS_Singleton
  <2> QED
    BY <2>1, <2>2
<1> QED
  BY <1>1, <1>2, <1>3

-----------------------------------------------------------------------------
(* One root, while no live one is taken for trashed                        *)

\* A folder is in no other, all else is in a folder, and so will be what is made.
FolderOK == /\ \A o \in Objs : /\ drive[o].type = "folder" => drive[o].in = None
                               /\ drive[o].type \in {"doc", "sheet"} =>
                                     drive[o].in \in Objs /\ drive[drive[o].in].type = "folder"
            /\ \A i \in Threads : t[i].pc \in {"findsheet", "makesheet", "doc", "makedoc"} =>
                                     t[i].obj \in Objs /\ drive[t[i].obj].type = "folder"

\* The configured root is the one in use as long as it is live, and a root is looked
\* for when the one in use is not.
RootOK == misread \/ /\ Single(Roots)
                     /\ Live(Root) => rt.root = Root
                     /\ \A i \in Threads : t[i].pc \in {"findroot", "makeroot"} => ~Live(rt.root)

HomeInv == OneInv /\ FolderOK /\ RootOK

\* At the start the sheet is in the root.
LEMMA InitHome == Init => HomeInv
<1> SUFFICES ASSUME Init PROVE HomeInv
  OBVIOUS
<1> USE HomesAssumption DEF Init
<1>1. FolderOK
  BY DEF FolderOK, Objs, Root, Sheet, None, Made, Idle
<1>2. RootOK
  BY DEF RootOK, Single, Roots, Live, Made, Root, Sheet, None, Configured, Idle
<1> QED
  BY <1>1, <1>2, InitOne DEF HomeInv

\* A step that makes nothing: what is dead stays so.
LEMMA HomeStill ==
    ASSUME HomeInv, OneInv',
           \A x \in Objs : /\ drive[x].trashed => drive'[x].trashed
                           /\ drive'[x].type = drive[x].type /\ drive'[x].in = drive[x].in,
           misread' = misread \/ misread',
           rt'.root = rt.root \/ rt'.root = Root \/ (~Live(rt.root) /\ Live(Root) = FALSE),
           \A i \in Threads : t'[i].pc \in {"findsheet", "makesheet", "doc", "makedoc"} =>
                \/ t[i].pc \in {"findsheet", "makesheet", "doc", "makedoc"} /\ t'[i].obj = t[i].obj
                \/ t'[i].obj \in Objs /\ drive[t'[i].obj].type = "folder",
           misread' \/ \A i \in Threads : t'[i].pc \in {"findroot", "makeroot"} =>
                          ~Live(rt.root) /\ rt'.root = rt.root
    PROVE  HomeInv'
<1> USE DEF HomeInv
<1>1. \A x \in Objs : Live(x)' => Live(x)
  BY DEF Live, OneInv, TypeOK
<1>2. FolderOK'
  BY DEF FolderOK
<1>3. Roots' \subseteq Roots /\ Root \in Objs /\ rt.root \in Objs
  BY <1>1, HomesAssumption DEF Roots, Root, Objs, OneInv, TypeOK
<1>4. RootOK'
  BY <1>1, <1>3 DEF RootOK, Single
<1> QED
  BY <1>2, <1>4

\* The steps of the thread with the lock that make nothing.
LEMMA WorkHome ==
    ASSUME Threads \subseteq Locked, HomeInv, OneInv', NEW i \in Threads,
           \/ Begin(i) \/ Fails(i) \/ SheetLive(i) \/ FindSheet(i) \/ RowGate(i) \/ RecordRow(i)
           \/ Fetch(i) \/ FindDoc(i) \/ DocGate(i) \/ WriteDoc(i) \/ RecordDoc(i)
    PROVE  HomeInv'
<1> USE DEF At, Goto
<1>1. t \in [Threads -> Local] /\ drive \in [Objs -> [type : {"free", "folder", "sheet", "doc"}, in : Objs \cup {None},
                                 trashed : BOOLEAN, text : Versions \cup {None}]]
  BY DEF HomeInv, OneInv, LocalOK, TypeOK
<1>2. UNCHANGED misread /\ rt'.root = rt.root
  BY DEF HomeInv, OneInv, TypeOK, Begin, Fails, SheetLive, FindSheet, RowGate, RecordRow, Fetch,
         FindDoc, DocGate, WriteDoc, RecordDoc
<1>3. \A j \in Threads \ {i} : t'[j] = t[j]
  BY <1>1 DEF Begin, Fails, SheetLive, FindSheet, RowGate, RecordRow, Fetch, FindDoc, DocGate,
              WriteDoc, RecordDoc
<1>4. /\ t'[i].pc \notin {"findroot", "makeroot", "findsheet", "doc"}
      /\ t'[i].pc \in {"makesheet", "makedoc"} => t[i].pc \in {"findsheet", "doc"} /\ t'[i].obj = t[i].obj
  <2>0. t[i] \in Local
    BY <1>1
  <2>1. CASE Fails(i)
    BY <1>1, <2>1 DEF Fails, Idle
  <2>6. CASE Begin(i)
    <3>1. t'[i].pc \in {"root", "row", "fetch"}
      BY <1>1, <2>6 DEF Begin, Idle
    <3> QED
      BY <3>1
  <2>2. CASE SheetLive(i) \/ FindSheet(i)
    BY <1>1, <2>0, <2>2 DEF SheetLive, FindSheet, Local
  <2>3. CASE RowGate(i) \/ RecordRow(i) \/ Fetch(i)
    BY <1>1, <2>0, <2>3 DEF RowGate, RecordRow, Fetch, Idle, Local
  <2>4. CASE FindDoc(i)
    BY <1>1, <2>0, <2>4 DEF FindDoc, Local
  <2>5. CASE DocGate(i) \/ WriteDoc(i) \/ RecordDoc(i)
    BY <1>1, <2>0, <2>5 DEF DocGate, WriteDoc, RecordDoc, Idle, Local
  <2> QED
    BY <2>1, <2>2, <2>3, <2>4, <2>5, <2>6
<1>6. \A x \in Objs : /\ drive[x].trashed => drive'[x].trashed
                      /\ drive'[x].type = drive[x].type /\ drive'[x].in = drive[x].in
  <2>1. CASE RowGate(i)
    BY <1>1, <2>1 DEF RowGate, HomeInv, OneInv, TypeOK
  <2>2. CASE WriteDoc(i)
    BY <1>1, <2>2 DEF WriteDoc
  <2>3. CASE UNCHANGED drive
    BY <2>3
  <2> QED
    BY <2>1, <2>2, <2>3 DEF Begin, Fails, SheetLive, FindSheet, RecordRow, Fetch, FindDoc, DocGate,
                            RecordDoc
<1>7. misread \/ \A j \in Threads : t'[j].pc \in {"findroot", "makeroot"} => ~Live(rt.root)
  BY <1>3, <1>4 DEF HomeInv, RootOK
<1> QED
  BY <1>2, <1>3, <1>4, <1>6, <1>7, HomeStill

\* The root is looked at, and found by name.
LEMMA RootHome == ASSUME HomeInv, OneInv', NEW i \in Threads, RootLive(i) \/ FindRoot(i) PROVE HomeInv'
<1> USE DEF At, Goto
<1>1. t \in [Threads -> Local] /\ UNCHANGED drive /\ drive[rt.root].type = "folder" /\ rt.root \in Objs
      /\ rt \in [{"root", "sheet"} -> Objs] /\ t[i] \in Local
  BY DEF HomeInv, OneInv, LocalOK, TypeOK, RootLive, FindRoot
<1>2. \A j \in Threads \ {i} : t'[j] = t[j]
  BY <1>1 DEF RootLive, FindRoot, Repointed
<1>3. CASE RootLive(i)
  <2>1. rt' = rt
    BY <1>3 DEF RootLive
  <2>2. \/ t'[i].pc = "findroot" /\ (misread' \/ ~Live(rt.root))
        \/ t'[i].pc = t[i].ret /\ t'[i].obj = rt.root
    <3>1. CASE t' = [t EXCEPT ![i].pc = "findroot"]
      BY <1>1, <1>3, <3>1 DEF RootLive, Local
    <3>2. CASE t' = [t EXCEPT ![i].pc = t[i].ret, ![i].obj = rt.root]
      BY <1>1, <3>2 DEF Local
    <3> QED
      BY <1>3, <3>1, <3>2 DEF RootLive
  <2>3. misread' = misread \/ misread'
    BY <1>3 DEF RootLive
  <2>4. misread' \/ \A j \in Threads : t'[j].pc \in {"findroot", "makeroot"} => ~Live(rt.root)
    BY <1>1, <1>2, <2>2, <2>3 DEF HomeInv, RootOK, Local
  <2>5. \A j \in Threads : t'[j].pc \in {"findsheet", "makesheet", "doc", "makedoc"} =>
           \/ t[j].pc \in {"findsheet", "makesheet", "doc", "makedoc"} /\ t'[j].obj = t[j].obj
           \/ t'[j].obj \in Objs /\ drive[t'[j].obj].type = "folder"
    BY <1>1, <1>2, <2>2
  <2> QED
    BY <1>1, <2>1, <2>3, <2>4, <2>5, HomeStill
<1>4. CASE FindRoot(i)
  <2>1. misread' = misread /\ t[i].pc = "findroot"
    BY <1>4 DEF FindRoot
  <2>2. misread \/ ~Live(rt.root)
    BY <2>1 DEF HomeInv, RootOK
  <2>3. \/ t'[i].pc = "makeroot" /\ rt' = rt
        \/ /\ t'[i].pc = t[i].ret /\ t'[i].obj \in Objs /\ drive[t'[i].obj].type = "folder"
           /\ rt'.root = t'[i].obj
    <3>1. CASE Named = {}
      BY <1>1, <1>4, <3>1 DEF FindRoot, Local
    <3>2. CASE Named # {}
      <4>1. PICK o \in Named : Repointed(i, o)
        BY <1>4, <3>2 DEF FindRoot
      <4> QED
        BY <1>1, <4>1 DEF Repointed, Named, Roots, Local
    <3> QED
      BY <3>1, <3>2
  <2>4. \A j \in Threads : t'[j].pc \in {"findsheet", "makesheet", "doc", "makedoc"} =>
           \/ t[j].pc \in {"findsheet", "makesheet", "doc", "makedoc"} /\ t'[j].obj = t[j].obj
           \/ t'[j].obj \in Objs /\ drive[t'[j].obj].type = "folder"
    BY <1>2, <2>3
  <2>5. FolderOK'
    BY <1>1, <2>4 DEF HomeInv, FolderOK
  <2>6. RootOK'
    <3>1. CASE misread
      BY <2>1, <3>1 DEF RootOK
    <3>2. CASE ~misread
      <4>1. ~Live(Root) /\ ~Live(Root)'
        BY <1>1, <2>2, <3>2 DEF HomeInv, RootOK, Live
      <4>2. Roots' = Roots
        BY <1>1 DEF Roots, Live
      <4>3. \A j \in Threads \ {i} : t'[j].pc = "idle"
        BY <1>2, <2>1, Alone DEF HomeInv
      <4>4. t'[i].pc \in {"findroot", "makeroot"} => rt' = rt
        BY <1>1, <2>3 DEF Local
      <4>5. \A j \in Threads : t'[j].pc \in {"findroot", "makeroot"} => ~Live(rt.root)'
        BY <1>1, <2>2, <3>2, <4>3, <4>4 DEF Live
      <4> QED
        BY <3>2, <4>1, <4>2, <4>5 DEF HomeInv, RootOK, Single
    <3> QED
      BY <3>1, <3>2
  <2> QED
    BY <2>5, <2>6 DEF HomeInv
<1> QED
  BY <1>3, <1>4

\* A root is made where none is live; what else is made is in a folder.
LEMMA MakeHome ==
    ASSUME HomeInv, OneInv', NEW i \in Threads, MakeRoot(i) \/ MakeSheet(i) \/ MakeDoc(i)
    PROVE  HomeInv'
<1> USE DEF At, Goto
<1>1. /\ t \in [Threads -> Local] /\ t[i] \in Local /\ rt \in [{"root", "sheet"} -> Objs]
      /\ drive \in [Objs -> [type : {"free", "folder", "sheet", "doc"}, in : Objs \cup {None},
                             trashed : BOOLEAN, text : Versions \cup {None}]]
      /\ drive[rt.root].type = "folder" /\ None \notin Objs
  BY DEF HomeInv, OneInv, LocalOK, TypeOK, None, Objs
<1>2. misread' = misread /\ \A j \in Threads \ {i} : t'[j] = t[j]
  BY <1>1 DEF MakeRoot, MakeSheet, MakeDoc, Repointed
<1>3. \A j \in Threads \ {i} : t'[j].pc = "idle"
  BY <1>2, Alone DEF HomeInv, MakeRoot, MakeSheet, MakeDoc
<1>4. PICK o \in Fresh : /\ drive' = [drive EXCEPT ![o] = drive'[o]]
                         /\ \/ MakeRoot(i) /\ drive'[o] = Made("folder", None) /\ rt' = [rt EXCEPT !.root = o]
                               /\ t'[i].pc = t[i].ret /\ t'[i].obj = o
                            \/ /\ ~MakeRoot(i) /\ drive'[o].type \in {"sheet", "doc"} /\ drive'[o].in = t[i].obj
                               /\ rt'.root = rt.root /\ t'[i].pc \in {"row", "gate"}
  <2>1. CASE MakeRoot(i)
    <3>1. PICK o \in Fresh : Repointed(i, o) /\ drive' = [drive EXCEPT ![o] = Made("folder", None)]
      BY <2>1 DEF MakeRoot
    <3>2. drive'[o] = Made("folder", None)
      BY <1>1, <3>1 DEF Fresh
    <3>3. drive' = [drive EXCEPT ![o] = drive'[o]]
      BY <3>1, <3>2, Zenon
    <3>4. t'[i].pc = t[i].ret /\ t'[i].obj = o /\ rt' = [rt EXCEPT !.root = o]
      BY <1>1, <3>1 DEF Repointed, Local
    <3> QED
      BY <2>1, <3>2, <3>3, <3>4
  <2>2. CASE MakeSheet(i)
    <3>1. PICK o \in Fresh : /\ drive' = [drive EXCEPT ![o] = Made("sheet", t[i].obj)]
                             /\ rt' = [rt EXCEPT !.sheet = o]
      BY <2>2 DEF MakeSheet
    <3>2. drive'[o] = Made("sheet", t[i].obj)
      BY <1>1, <3>1 DEF Fresh
    <3>3. drive' = [drive EXCEPT ![o] = drive'[o]]
      BY <3>1, <3>2, Zenon
    <3>4. drive'[o].type = "sheet" /\ drive'[o].in = t[i].obj
      BY <3>2 DEF Made
    <3>5. t'[i].pc = "row" /\ rt'.root = rt.root /\ ~MakeRoot(i)
      BY <1>1, <2>2, <3>1 DEF MakeSheet, MakeRoot, Local
    <3> QED
      BY <3>3, <3>4, <3>5
  <2>3. CASE MakeDoc(i)
    <3>1. PICK o \in Fresh :
            /\ drive' = [drive EXCEPT ![o] = [Made("doc", t[i].obj) EXCEPT !.trashed = drive[t[i].obj].trashed]]
            /\ t' = [t EXCEPT ![i].pc = "gate", ![i].obj = o]
      BY <2>3, Zenon DEF MakeDoc
    <3>2. drive'[o] = [Made("doc", t[i].obj) EXCEPT !.trashed = drive[t[i].obj].trashed]
      BY <1>1, <3>1 DEF Fresh
    <3>3. drive'[o].type = "doc" /\ drive'[o].in = t[i].obj
      BY <3>2 DEF Made
    <3>4. drive' = [drive EXCEPT ![o] = drive'[o]]
      BY <3>1, <3>2, Zenon
    <3>5. t'[i].pc = "gate" /\ rt' = rt /\ ~MakeRoot(i)
      BY <1>1, <2>3, <3>1 DEF MakeDoc, MakeRoot, Local
    <3> QED
      BY <3>3, <3>4, <3>5
  <2> QED
    BY <2>1, <2>2, <2>3
<1>5. o \in Objs /\ drive[o].type = "free" /\ \A x \in Objs \ {o} : drive'[x] = drive[x]
  BY <1>1, <1>4 DEF Fresh
<1>6. ~MakeRoot(i) => t[i].obj \in Objs /\ drive[t[i].obj].type = "folder"
  BY DEF HomeInv, FolderOK, MakeSheet, MakeDoc
<1>7. FolderOK'
  <2>1. ASSUME NEW x \in Objs
        PROVE  /\ drive'[x].type = "folder" => drive'[x].in = None
               /\ drive'[x].type \in {"doc", "sheet"} => drive'[x].in \in Objs /\ drive'[drive'[x].in].type = "folder"
    BY <1>4, <1>5, <1>6 DEF HomeInv, FolderOK, Made
  <2>2. t'[i].pc \in {"findsheet", "makesheet", "doc", "makedoc"} =>
           t'[i].obj \in Objs /\ drive'[t'[i].obj].type = "folder"
    BY <1>4, <1>5 DEF Made
  <2> QED
    BY <1>3, <2>1, <2>2 DEF FolderOK
<1>8. \A x \in Objs \ {o} : drive[x].type = "folder" => (Live(x)' <=> Live(x))
  BY <1>5 DEF HomeInv, FolderOK, Live
<1>9. RootOK'
  <2>1. CASE misread
    BY <1>2, <2>1 DEF RootOK
  <2>2. CASE ~misread
    <3>1. Single(Roots) /\ (Live(Root) => rt.root = Root) /\ (t[i].pc = "makeroot" => ~Live(rt.root))
      BY <2>2 DEF HomeInv, RootOK
    <3>2. Root \in Objs \ {o} /\ drive[Root].type = "folder" /\ drive[rt.root].type = "folder" /\ rt.root \in Objs \ {o}
      BY <1>1, <1>5, HomesAssumption DEF HomeInv, OneInv, DriveOK, Root, Objs
    <3>3. t'[i].pc \notin {"findroot", "makeroot"}
      BY <1>1, <1>4 DEF Local
    <3>4. CASE MakeRoot(i)
      <4>1. Named = {} /\ ~Live(Root)
        BY <3>1, <3>4 DEF MakeRoot, HomeInv, OneInv, MakesOK, Knows
      <4>2. Roots = {}
        BY <4>1 DEF Roots, Named
      <4>3. Roots' \subseteq {o}
        BY <1>5, <1>8, <4>2 DEF Roots
      <4>4. ~Live(Root)'
        BY <1>8, <3>2, <4>1
      <4> QED
        BY <1>3, <3>3, <4>3, <4>4 DEF RootOK, Single
    <3>5. CASE ~MakeRoot(i)
      <4>1. Roots' = Roots
        BY <1>4, <1>5, <1>8, <3>5 DEF Roots
      <4>2. (Live(Root)' => rt'.root = Root)
        BY <1>4, <1>8, <3>1, <3>2, <3>5
      <4> QED
        BY <1>3, <3>1, <3>3, <4>1, <4>2 DEF RootOK, Single
    <3> QED
      BY <3>4, <3>5
  <2> QED
    BY <2>1, <2>2
<1> QED
  BY <1>7, <1>9 DEF HomeInv

\* Trash, a restart, and what Notion has next.
LEMMA OutsideHome == ASSUME HomeInv, OneInv', Crash \/ Env PROVE HomeInv'
<1>1. misread' = misread /\ (rt' = rt \/ rt'.root = Root)
  BY DEF Crash, Configured, Env, Trash, Change
<1>2. \A x \in Objs : /\ drive[x].trashed => drive'[x].trashed
                      /\ drive'[x].type = drive[x].type /\ drive'[x].in = drive[x].in
  BY DEF HomeInv, OneInv, TypeOK, Crash, Env, Trash, Change
<1>3. (t' = t /\ rt' = rt) \/ \A i \in Threads : t'[i].pc = "idle"
  BY DEF Crash, Idle, Env, Trash, Change
<1>4. misread \/ \A i \in Threads : t'[i].pc \in {"findroot", "makeroot"} => ~Live(rt.root) /\ rt'.root = rt.root
  BY <1>3 DEF HomeInv, RootOK
<1> QED
  BY <1>1, <1>2, <1>3, <1>4, HomeStill

\* Every step keeps one root.
LEMMA NextHome == ASSUME Threads \subseteq Locked, HomeInv, [Next]_vars PROVE HomeInv'
<1>1. OneInv'
  BY NextOne DEF HomeInv
<1>2. ASSUME NEW i \in Threads, Begin(i) \/ Work(i) \/ Fails(i) PROVE HomeInv'
  BY <1>1, <1>2, WorkHome, RootHome, MakeHome DEF Work
<1>3. CASE Crash \/ Env
  BY <1>1, <1>3, OutsideHome
<1>4. CASE UNCHANGED vars
  BY <1>1, <1>4 DEF vars, HomeInv, FolderOK, RootOK, Roots, Live, Single
<1> QED
  BY <1>2, <1>3, <1>4 DEF Next

\* "idempotent by name": where every caller holds the mirror lock, no folder bears the
\* root's name twice and none has two index sheets or generated Docs, whatever is
\* trashed, misread, fails or is restarted between the search and the making; and until
\* a live root is taken for trashed there is one root, of whichever name, one such Doc
\* and one sheet at all (google_mirror.py ensure_root, ensure_index_sheet, ensure_doc).
THEOREM NeverTwice == ASSUME Threads \subseteq Locked PROVE Spec => []OneOfEach
<1>1. ASSUME HomeInv PROVE OneOfEach
  <2>1. Single(Named) /\ \A f \in Objs : Single(In(f, "doc")) /\ Single(In(f, "sheet"))
    BY <1>1 DEF HomeInv, OneInv, OneOK
  <2>2. ASSUME ~misread, NEW type \in {"doc", "sheet"} PROVE Single(AllOf(type))
    <3> SUFFICES ASSUME NEW f \in Objs, NEW x \in In(f, type), NEW g \in Objs, NEW y \in In(g, type)
                 PROVE  x = y
      BY DEF AllOf, Single
    <3>1. ASSUME NEW h \in Objs, NEW z \in In(h, type) PROVE h \in Roots
      <4>1. z \in Objs /\ drive[z].in = h /\ drive[z].type = type /\ Live(z) /\ None \notin Objs
        BY DEF In, None, Objs
      <4>2. drive[h].type = "folder" /\ drive[h].in = None /\ ~drive[h].trashed
        BY <1>1, <4>1 DEF HomeInv, FolderOK, Live
      <4> QED
        BY <4>2 DEF Roots, Live
    <3>2. f = g
      BY <1>1, <2>2, <3>1 DEF HomeInv, RootOK, Single
    <3> QED
      BY <2>1, <3>2 DEF Single
  <2>3. ~misread => Single(Roots)
    BY <1>1 DEF HomeInv, RootOK
  <2> QED
    BY <2>1, <2>2, <2>3, AtMostOne DEF Single, OneOfEach
<1> QED
  BY InitHome, NextHome, <1>1, PTL DEF Spec

-----------------------------------------------------------------------------
(* The gate of a generated Doc                                             *)

\* A step that writes and records nothing, and fetches nothing new.
LEMMA GateStill ==
    ASSUME GateInv, OneInv', UNCHANGED hash, want'.doc >= want.doc,
           \A o \in Objs : /\ drive'[o].type = "doc" => \/ drive[o].type = "doc" /\ drive'[o].text = drive[o].text
                                                        \/ drive[o].type # "doc" /\ drive'[o].text = None
                           /\ drive[o].type = "doc" => drive'[o].type = "doc",
           \A i \in Threads : Fetched(i)' => Fetched(i) /\ t'[i].md = t[i].md,
           \A i \in Threads : t'[i].pc = "hash" => t[i].pc = "hash" /\ t'[i].obj = t[i].obj
    PROVE  GateInv'
<1> USE DEF GateInv
<1>1. /\ want.doc \in Nat /\ want'.doc \in Nat
      /\ \A o \in Objs : drive[o].text \in Nat /\ drive'[o].text \in Nat /\ hash[o] \in Nat
      /\ \A i \in Threads : t[i].md \in Nat
  BY DEF OneInv, TypeOK, Versions, None, LocalOK, Local
<1>2. TextOK'
  BY <1>1 DEF TextOK, None
<1>3. MdOK'
  <2>1. SUFFICES ASSUME NEW i \in Threads, Fetched(i)'
                 PROVE  /\ t'[i].md \in 1..want'.doc
                        /\ \A o \in Objs : drive'[o].type = "doc" => drive'[o].text <= t'[i].md
                        /\ t'[i].pc = "hash" => drive'[t'[i].obj].text = t'[i].md
    BY DEF MdOK
  <2>2. Fetched(i) /\ t'[i].md = t[i].md
    BY <2>1
  <2>3. /\ t[i].md \in 1..want.doc /\ \A o \in Objs : drive[o].type = "doc" => drive[o].text <= t[i].md
        /\ t[i].pc = "hash" => drive[t[i].obj].text = t[i].md
    BY <2>2 DEF MdOK
  <2>4. t[i].pc = "hash" => t[i].obj \in Objs /\ drive[t[i].obj].type = "doc"
    BY DEF OneInv, MakesOK, Knows, Found
  <2> QED
    BY <1>1, <2>2, <2>3, <2>4 DEF None
<1> QED
  BY <1>2, <1>3

\* At the start no Doc is there.
LEMMA InitGate == Init => GateInv
<1> SUFFICES ASSUME Init PROVE GateInv
  OBVIOUS
<1>1. TextOK /\ MdOK
  BY HomesAssumption DEF Init, TextOK, MdOK, Fetched, Made, Idle
<1> QED
  BY <1>1, InitOne DEF GateInv

\* The steps on the way to the Doc, and those that end a job.
LEMMA WayGate ==
    ASSUME GateInv, OneInv', NEW i \in Threads,
           \/ Begin(i) \/ RootLive(i) \/ FindRoot(i) \/ SheetLive(i) \/ FindSheet(i)
           \/ RecordRow(i) \/ FindDoc(i) \/ DocGate(i) \/ Fails(i)
    PROVE  GateInv'
<1> USE DEF At, Goto
<1>1. UNCHANGED <<drive, hash, want>>
  BY DEF Begin, RootLive, FindRoot, SheetLive, FindSheet, RecordRow, FindDoc, DocGate, Gated, Fails
<1>2. t \in [Threads -> Local] /\ \A j \in Threads \ {i} : t'[j] = t[j]
  BY DEF GateInv, OneInv, LocalOK, Begin, RootLive, FindRoot, Repointed, SheetLive, FindSheet,
         RecordRow, FindDoc, DocGate, Fails
<1>3. t'[i].pc # "hash" /\ (Fetched(i)' => Fetched(i) /\ t'[i].md = t[i].md)
  <2>1. CASE SheetLive(i) \/ FindSheet(i) \/ RecordRow(i) \/ Fails(i)
    BY <1>2, <2>1 DEF SheetLive, FindSheet, RecordRow, Fails, Fetched, Idle, Local
  <2>2. CASE RootLive(i) \/ FindRoot(i)
    BY <1>2, <2>2 DEF RootLive, FindRoot, Repointed, Fetched, Local
  <2>3. CASE FindDoc(i) \/ DocGate(i)
    BY <1>2, <2>3 DEF FindDoc, DocGate, Fetched, Idle, Local
  <2>4. CASE Begin(i)
    <3>1. t'[i].pc \in {"root", "row", "fetch"} /\ t'[i].ret = "sheet"
      BY <1>2, <2>4 DEF Begin, Idle
    <3> QED
      BY <3>1 DEF Fetched
  <2> QED
    BY <2>1, <2>2, <2>3, <2>4
<1>4. \A j \in Threads : Fetched(j)' => Fetched(j) /\ t'[j].md = t[j].md
  BY <1>2, <1>3 DEF Fetched
<1>5. want'.doc >= want.doc
  BY <1>1 DEF GateInv, OneInv, TypeOK, Versions
<1> QED
  BY <1>1, <1>2, <1>3, <1>4, <1>5, GateStill

\* What is made is blank.
LEMMA MakeGate ==
    ASSUME GateInv, OneInv', NEW i \in Threads, MakeRoot(i) \/ MakeSheet(i) \/ MakeDoc(i)
    PROVE  GateInv'
<1> USE DEF At, Goto
<1>1. UNCHANGED <<hash, want>> /\ t \in [Threads -> Local] /\ \A j \in Threads \ {i} : t'[j] = t[j]
  BY DEF MakeRoot, MakeSheet, MakeDoc, Repointed, GateInv, OneInv, LocalOK
<1>2. \E o \in Objs : /\ drive[o].type = "free" /\ drive'[o].text = None
                      /\ \A x \in Objs \ {o} : drive'[x] = drive[x]
  BY DEF MakeRoot, MakeSheet, MakeDoc, Fresh, Made, GateInv, OneInv, TypeOK
<1>3. t'[i].pc # "hash" /\ (Fetched(i)' => Fetched(i) /\ t'[i].md = t[i].md)
  BY <1>1 DEF MakeRoot, Repointed, MakeSheet, MakeDoc, Fetched, Local
<1>4. \A j \in Threads : Fetched(j)' => Fetched(j) /\ t'[j].md = t[j].md
  BY <1>1, <1>3 DEF Fetched
<1>5. want'.doc >= want.doc
  BY <1>1 DEF GateInv, OneInv, TypeOK, Versions
<1> QED
  BY <1>1, <1>2, <1>3, <1>4, <1>5, GateStill

\* What is fetched is what there is, and no Doc shows anything newer.
LEMMA FetchGate == ASSUME GateInv, OneInv', NEW i \in Threads, Fetch(i) PROVE GateInv'
<1> USE DEF GateInv, At
<1>1. /\ UNCHANGED <<drive, hash, want>> /\ t \in [Threads -> Local]
      /\ \A j \in Threads \ {i} : t'[j] = t[j]
      /\ \/ t'[i].pc = "idle"
         \/ t'[i].pc = "root" /\ t'[i].md = want.doc
  BY DEF Fetch, OneInv, LocalOK, Local, Idle
<1>2. TextOK'
  BY <1>1 DEF TextOK
<1>3. want.doc \in Nat \ {0} /\ \A o \in Objs : drive[o].type = "doc" => drive[o].text <= want.doc
  BY DEF TextOK, OneInv, TypeOK, Versions
<1>4. MdOK'
  <2>1. ASSUME NEW j \in Threads \ {i}, Fetched(j)'
        PROVE  /\ t'[j].md \in 1..want.doc
               /\ \A o \in Objs : drive[o].type = "doc" => drive[o].text <= t'[j].md
               /\ t'[j].pc = "hash" => drive[t'[j].obj].text = t'[j].md
    BY <1>1, <2>1 DEF MdOK, Fetched
  <2>2. ASSUME Fetched(i)'
        PROVE  /\ t'[i].md \in 1..want.doc
               /\ \A o \in Objs : drive[o].type = "doc" => drive[o].text <= t'[i].md
               /\ t'[i].pc # "hash"
    BY <1>1, <1>3, <2>2 DEF Fetched
  <2> QED
    BY <1>1, <2>1, <2>2 DEF MdOK
<1> QED
  BY <1>2, <1>4

\* The row's text is on the sheet; the Doc's is the newest there is.
LEMMA WriteGate == ASSUME GateInv, OneInv', NEW i \in Threads, RowGate(i) \/ WriteDoc(i) PROVE GateInv'
<1> USE DEF GateInv, At, Goto
<1>1. /\ UNCHANGED <<hash, want>> /\ t \in [Threads -> Local]
      /\ \A j \in Threads \ {i} : t'[j] = t[j]
  BY DEF RowGate, WriteDoc, OneInv, LocalOK
<1>2. want.doc \in Nat
  BY DEF OneInv, TypeOK, Versions
<1>3. CASE RowGate(i)
  <2>1. rt.sheet \in Objs /\ drive[rt.sheet].type = "sheet"
    BY DEF OneInv, TypeOK
  <2>2. \A o \in Objs : drive'[o].type = drive[o].type /\ (drive[o].type = "doc" => drive'[o].text = drive[o].text)
    BY <1>3, <2>1 DEF RowGate, OneInv, TypeOK
  <2>3. t'[i].pc \in {"fetch", "rowhash"}
    BY <1>1, <1>3 DEF RowGate, Local
  <2>4. \A j \in Threads : Fetched(j)' => Fetched(j) /\ t'[j].md = t[j].md
    BY <1>1, <2>3 DEF Fetched
  <2> QED
    BY <1>1, <1>2, <2>2, <2>3, <2>4, GateStill
<1>4. CASE WriteDoc(i)
  <2> DEFINE d == t[i].obj
  <2>1. d \in Objs /\ drive[d].type = "doc" /\ t[i].md \in 1..want.doc
        /\ \A o \in Objs : drive[o].type = "doc" => drive[o].text <= t[i].md
    BY <1>4 DEF WriteDoc, OneInv, MakesOK, Knows, Found, MdOK, Fetched
  <2>2. /\ drive'[d].type = "doc" /\ drive'[d].text = t[i].md
        /\ \A o \in Objs \ {d} : drive'[o] = drive[o]
    BY <1>4, <2>1 DEF WriteDoc, OneInv, TypeOK
  <2>3. t'[i] = [t[i] EXCEPT !.pc = "hash"]
    BY <1>1, <1>4 DEF WriteDoc
  <2>4. \A o \in Objs : hash[o] \in Nat /\ drive[o].text \in Nat
    BY DEF OneInv, TypeOK, Versions, None
  <2> HIDE DEF d
  <2>5. TextOK'
    BY <1>1, <1>2, <2>1, <2>2, <2>4 DEF TextOK
  <2>6. \A j \in Threads \ {i} : ~Fetched(j)'
    <3>1. t[i].pc # "idle"
      BY <1>4 DEF WriteDoc
    <3> QED
      BY <1>1, <3>1, Alone DEF Fetched
  <2>7. t'[i].md = t[i].md /\ t'[i].obj = d
    BY <1>1, <2>3 DEF Local, d
  <2>8. MdOK'
    BY <1>1, <1>2, <2>1, <2>2, <2>6, <2>7 DEF MdOK
  <2> QED
    BY <2>5, <2>8
<1> QED
  BY <1>3, <1>4

\* The hash is recorded of the text that was written.
LEMMA RecordGate == ASSUME GateInv, OneInv', NEW i \in Threads, RecordDoc(i) PROVE GateInv'
<1> USE DEF GateInv, At
<1>1. /\ t[i].obj \in Objs /\ drive[t[i].obj].type = "doc" /\ drive[t[i].obj].text = t[i].md
      /\ t[i].md \in 1..want.doc
  BY DEF RecordDoc, OneInv, MakesOK, Knows, Found, MdOK, Fetched
<1>2. /\ hash'[t[i].obj] = t[i].md /\ \A o \in Objs \ {t[i].obj} : hash'[o] = hash[o]
      /\ UNCHANGED <<drive, want>> /\ t'[i] = Idle /\ \A j \in Threads \ {i} : t'[j] = t[j]
  BY <1>1 DEF RecordDoc, Key, OneInv, TypeOK, LocalOK
<1>3. TextOK'
  <2>1. want.doc \in Nat
    BY DEF OneInv, TypeOK, Versions
  <2> QED
    BY <1>1, <1>2, <2>1 DEF TextOK
<1>4. MdOK'
  BY <1>2 DEF MdOK, Fetched, Idle
<1> QED
  BY <1>3, <1>4

\* Trash, a restart, and what Notion has next.
LEMMA OutsideGate ==
    ASSUME "revert" \notin Allowed, GateInv, OneInv', Crash \/ Env
    PROVE  GateInv'
<1> USE DEF GateInv
<1>1. CASE Crash
  <2>1. UNCHANGED <<drive, hash, want>> /\ \A i \in Threads : t'[i] = Idle
    BY <1>1 DEF Crash
  <2>2. want'.doc >= want.doc
    BY <2>1 DEF OneInv, TypeOK, Versions
  <2>3. \A i \in Threads : ~Fetched(i)' /\ t'[i].pc # "hash"
    BY <2>1 DEF Fetched, Idle
  <2> QED
    BY <2>1, <2>2, <2>3, GateStill
<1>2. CASE \E o \in Objs : Trash(o)
  <2>1. UNCHANGED <<t, hash, want>>
    BY <1>2 DEF Trash
  <2>2. \A x \in Objs : drive'[x].type = drive[x].type /\ drive'[x].text = drive[x].text
    BY <1>2 DEF Trash, OneInv, TypeOK
  <2>3. want'.doc >= want.doc
    BY <2>1 DEF OneInv, TypeOK, Versions
  <2>4. \A i \in Threads : Fetched(i)' => Fetched(i)
    BY <2>1 DEF Fetched
  <2> QED
    BY <2>1, <2>2, <2>3, <2>4, GateStill
<1>3. CASE \E what \in {"doc", "row"}, v \in Versions : Change(what, v)
  <2>1. UNCHANGED <<t, hash, drive>>
    BY <1>3 DEF Change
  <2>2. want'.doc >= want.doc
    BY <1>3 DEF Change, OneInv, TypeOK, Versions
  <2>3. \A i \in Threads : Fetched(i)' => Fetched(i)
    BY <2>1 DEF Fetched
  <2> QED
    BY <2>1, <2>2, <2>3, GateStill
<1> QED
  BY <1>1, <1>2, <1>3 DEF Env

\* Every step keeps it.
LEMMA NextGate ==
    ASSUME Threads \subseteq Locked, "revert" \notin Allowed, GateInv, [Next]_vars
    PROVE  GateInv'
<1>1. OneInv'
  BY NextOne DEF GateInv
<1>2. ASSUME NEW i \in Threads, Begin(i) \/ Work(i) \/ Fails(i) PROVE GateInv'
  BY <1>1, <1>2, WayGate, MakeGate, FetchGate, WriteGate, RecordGate DEF Work
<1>3. CASE Crash \/ Env
  BY <1>1, <1>3, OutsideGate
<1>4. CASE UNCHANGED vars
  BY <1>1, <1>4 DEF vars, GateInv, TextOK, MdOK, Fetched
<1> QED
  BY <1>2, <1>3, <1>4 DEF Next

\* The hash gate of a generated Doc (mirror_out.py _write_doc_if_changed): where the
\* callers hold the lock and what should be shown does not go back to what it was, a
\* Doc recorded with what it should show now shows it, whatever was trashed, made
\* anew, not fetched or broken off.
THEOREM GateOfDoc ==
    ASSUME Threads \subseteq Locked, "revert" \notin Allowed
    PROVE  Spec => []GateTrue
<1>1. GateInv => GateTrue
  <2>1. ASSUME GateInv, NEW o \in Objs, drive[o].type = "doc", hash[o] = want.doc
        PROVE  drive[o].text = want.doc
    <3>1. hash[o] \in Nat /\ drive[o].text \in Nat /\ want.doc \in Nat
      BY <2>1 DEF GateInv, OneInv, TypeOK, Versions, None
    <3>2. hash[o] <= drive[o].text /\ drive[o].text <= want.doc
      BY <2>1 DEF GateInv, TextOK
    <3> QED
      BY <2>1, <3>1, <3>2
  <2> QED
    BY <2>1 DEF GateTrue, Key
<1> QED
  BY InitGate, NextGate, <1>1, PTL DEF Spec
=============================================================================
