----------------------------- MODULE PruneTree -----------------------------
(***************************************************************************)
(* The sweep at the end of a reconcile (mirror_out.py _prune_untracked):   *)
(* the ids the ledger keeps are read, the mirror folder is walked with one *)
(* listing per folder down to max_depth (google_mirror.py drive_tree), the *)
(* walked tree is judged, the victims are trashed one by one.  Beside it,  *)
(* the mirroring of a new page: its folder, its Doc, and only then the     *)
(* ledger's pair.                                                          *)
(***************************************************************************)
EXTENDS Naturals, Sequences, FiniteSets

CONSTANTS Objs,      \* Drive ids, in the order Drive hands them out
          Sections,  \* the folders at depth 1 with a known name
          Planted,   \* the objects there at the start, tracked or not
          Trees,     \* which is in which: a set of [Planted -> Planted \cup {Root}]
          MaxDepth,  \* drive_tree's max_depth
          Locked,    \* the mirroring takes the lock (poll), or does not (webhook)
          MaxPages, MaxFaults    \* bounds on pages mirrored and on failures

Root == 0

ASSUME PruneAssumption == /\ Objs \subseteq Nat \ {Root} /\ IsFiniteSet(Objs)
                          /\ Sections \subseteq Planted /\ Planted \subseteq Objs
                          /\ Trees \subseteq [Planted -> Planted \cup {Root}]
                          /\ MaxDepth \in Nat /\ MaxPages \in Nat /\ Locked \in BOOLEAN

VARIABLES drive,    \* [Objs -> [type, in, trashed]]
          tracked,  \* the folder and Doc ids of the ledger's live pairs
          p,        \* the prune: [pc, keep, tree, todo, victims]
          w,        \* the mirroring of a page: [pc, folder, doc]
          pages, faults

vars == <<drive, tracked, p, w, pages, faults>>

Asleep == [pc |-> "idle", keep |-> {}, tree |-> <<>>, todo |-> {}, victims |-> {}]
NoPage == [pc |-> "idle", folder |-> Root, doc |-> Root]
Made(type, in) == [type |-> type, in |-> in, trashed |-> FALSE]

\* Orphans of old code and of failed runs, and what a user put or moved where:
\* any of the trees, of folders and Docs, anything but the sections tracked.
Init == /\ \E in \in Trees, docs \in SUBSET (Planted \ Sections) :
             /\ \A o \in Planted : in[o] \notin docs
             /\ drive = [o \in Objs |-> IF o \notin Planted THEN Made("free", Root)
                                       ELSE Made(IF o \in docs THEN "doc" ELSE "folder", in[o])]
             /\ tracked \in SUBSET (Planted \ Sections)
        /\ p = Asleep /\ w = NoPage /\ pages = 0 /\ faults = 0

Exists(o) == o = Root \/ (drive[o].type # "free" /\ ~drive[o].trashed)
Folder(o) == o = Root \/ drive[o].type = "folder"
Kids(f)   == {o \in Objs : Exists(o) /\ drive[o].in = f}
Within(o) ==   \* o and everything below it
    LET in[x \in Objs] == x = o \/ (drive[x].in # Root /\ in[drive[x].in])
    IN  {x \in Objs : Exists(x) /\ in[x]}
Fresh == {o \in Objs \ Planted : drive[o].type = "free"
                                 /\ \A x \in Objs \ Planted : x < o => drive[x].type # "free"}
Fault == faults < MaxFaults /\ faults' = faults + 1

Alone   == Locked => p.pc = "idle" /\ w.pc = "idle"

-----------------------------------------------------------------------------
(* The prune                                                               *)

StartPrune ==
    /\ p.pc = "idle" /\ Alone
    /\ p' = [Asleep EXCEPT !.pc = "walk", !.keep = tracked, !.todo = {1},
                           !.tree = <<[id |-> Root, depth |-> 0, up |-> 0]>>]
    /\ UNCHANGED <<drive, tracked, w, pages, faults>>

Listing(k) ==
    LET kids == Kids(p.tree[k].id)
    IN  [n \in 1..Cardinality(kids) |->
           [id |-> CHOOSE o \in kids : Cardinality({x \in kids : x <= o}) = n,
            depth |-> p.tree[k].depth + 1, up |-> k]]

List ==      \* list_children of the next folder, depth first
    /\ p.pc = "walk"
    /\ \E k \in p.todo :
         /\ \A j \in p.todo : \/ p.tree[j].depth < p.tree[k].depth
                              \/ p.tree[j].depth = p.tree[k].depth /\ k <= j
         /\ LET tree == p.tree \o Listing(k)
            IN  p' = [p EXCEPT !.tree = tree,
                        !.todo = (@ \ {k}) \cup {j \in (Len(p.tree) + 1)..Len(tree) :
                                    Folder(tree[j].id) /\ tree[j].depth < MaxDepth}]
    /\ UNCHANGED <<drive, tracked, w, pages, faults>>

ListFails == /\ p.pc = "walk" /\ p.todo # {} /\ Fault /\ p' = Asleep   \* "prune: skipping"
             /\ UNCHANGED <<drive, tracked, w, pages>>

KidsOf(k) == {j \in 1..Len(p.tree) : p.tree[j].up = k}
Orphan(k) == LET orphan[j \in 1..Len(p.tree)] == p.tree[j].id \notin p.keep
                                                 /\ \A i \in KidsOf(j) : orphan[i]
             IN  orphan[k]
Untracked(k)  == p.tree[k].id \notin p.keep                \* mutant: whatever it holds
SomeOrphan(k) ==                                           \* mutant: any() for all()
    p.tree[k].id \notin p.keep /\ (Folder(p.tree[k].id) => \E i \in KidsOf(k) : Orphan(i))
Whole(k) == Orphan(k)

AnyEmpty(k) == p.tree[k].depth = 1 /\ Folder(p.tree[k].id) /\ KidsOf(k) = {}   \* mutant
Obsolete(k) == /\ p.tree[k].depth = 1 /\ Folder(p.tree[k].id) /\ KidsOf(k) = {}
               /\ p.tree[k].id \notin Sections

Visit ==
    /\ p.pc = "walk" /\ p.todo = {}
    /\ p' = [p EXCEPT !.pc = "trash",
               !.victims = {p.tree[k].id : k \in {j \in 1..Len(p.tree) :
                              Obsolete(j) \/ (p.tree[j].depth >= 2 /\ Whole(j))}}]
    /\ UNCHANGED <<drive, tracked, w, pages, faults>>

Trash ==     \* what a folder holds goes with it; a failure is logged
    /\ p.pc = "trash"
    /\ \E v \in p.victims :
         /\ (Within(v) \ {v}) \cap p.victims = {}    \* children are listed first
         /\ p' = [p EXCEPT !.victims = @ \ {v}]
         /\ \/ /\ drive' = [o \in Objs |-> [drive[o] EXCEPT !.trashed = @ \/ o \in Within(v)]]
               /\ UNCHANGED faults
            \/ Fault /\ UNCHANGED drive
    /\ UNCHANGED <<tracked, w, pages>>

EndPrune == /\ p.pc = "trash" /\ p.victims = {} /\ p' = Asleep
            /\ UNCHANGED <<drive, tracked, w, pages, faults>>

Crash == /\ Fault /\ p' = Asleep /\ w' = NoPage
         /\ UNCHANGED <<drive, tracked, pages>>

-----------------------------------------------------------------------------
(* The mirroring of a new page (_mirror_body_item)                         *)

MakeFolder ==      \* _resolve_folder: under a section, another page's folder, or the root
    /\ w.pc = "idle" /\ Alone
    /\ pages < MaxPages /\ pages' = pages + 1
    /\ \E f \in {x \in Sections \cup tracked \cup {Root} : Exists(x) /\ Folder(x)}, o \in Fresh :
         /\ drive' = [drive EXCEPT ![o] = Made("folder", f)]
         /\ w' = [w EXCEPT !.pc = "doc", !.folder = o]
    /\ UNCHANGED <<tracked, p, faults>>

MakeDoc ==         \* _resolve_doc
    /\ w.pc = "doc"
    /\ \E o \in Fresh : /\ drive' = [drive EXCEPT ![o] = [Made("doc", w.folder) EXCEPT
                                                            !.trashed = drive[w.folder].trashed]]
                        /\ w' = [w EXCEPT !.pc = "pair", !.doc = o]
    /\ UNCHANGED <<tracked, p, pages, faults>>

Record ==          \* upsert_pair
    /\ w.pc = "pair" /\ tracked' = tracked \cup {w.folder, w.doc} /\ w' = NoPage
    /\ UNCHANGED <<drive, p, pages, faults>>

Prune == List \/ Visit \/ Trash \/ EndPrune
Next  == StartPrune \/ Prune \/ ListFails \/ Crash \/ MakeFolder \/ MakeDoc \/ Record

\* A reconcile comes again, and goes on once begun; so does a mirroring.
Fairness == WF_vars(StartPrune \/ Prune) /\ WF_vars(MakeDoc \/ Record)
Spec == Init /\ [][Next]_vars /\ Fairness

-----------------------------------------------------------------------------
(* What is promised                                                        *)

TypeOK == /\ drive \in [Objs -> [type : {"free", "folder", "doc"}, in : Objs \cup {Root},
                                 trashed : BOOLEAN]]
          /\ tracked \subseteq Objs /\ p.keep \subseteq Objs /\ p.victims \subseteq Objs
          /\ p.todo \subseteq 1..Len(p.tree)
          /\ \A k \in 1..Len(p.tree) : p.tree[k].id \in Objs \cup {Root} /\ p.tree[k].up < k
          /\ (p.pc # "idle" /\ Locked) => w.pc = "idle"

Depth1  == {o \in Objs : drive[o].in = Root}
Orphans == {o \in Objs : Exists(o) /\ o \notin Depth1 /\ Within(o) \cap tracked = {}}

Deserted == {o \in Depth1 \ Sections : Folder(o) /\ Kids(o) = {}}

\* "a container that holds tracked items is never removed": what the ledger tracks is
\* never pruned, unless it is a page's folder that lies directly under the root, not
\* in a section, and has nothing left in it: there the keep set is not asked.
KeepsTracked == \A o \in tracked : drive[o].trashed => o \in Deserted

\* The same without the exception: "any genuinely-tracked item is in the keep set, so
\* a transient mirror failure can't cause a false prune" (_prune_untracked).  The code
\* does not keep it for a folder directly under the root.
KeepsAll == \A o \in tracked : ~drive[o].trashed

\* What is trashed had nothing tracked below it and lay inside a section, or was
\* an empty folder no section goes by; the sections and the Docs beside them stay.
OnlyOrphans ==
    [][\A o \in Objs : drive'[o].trashed /\ ~drive[o].trashed => o \in Orphans \cup Deserted]_vars

\* Whatever a failed run left behind, and however often a trashing fails: in the
\* end no folder and no Doc lingers that no page of the ledger needs.
SweptInTheEnd == <>[](Orphans = {})
=============================================================================
