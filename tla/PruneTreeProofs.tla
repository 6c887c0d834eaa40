--------------------------- MODULE PruneTreeProofs ---------------------------
(***************************************************************************)
(* What PruneTree promises, for any objects, any trees and any max_depth:  *)
(* a sweep that holds the mirror lock, of trees its walk reaches the       *)
(* bottom of, trashes nothing that the ledger tracks, but for an empty     *)
(* folder right under the root.  The walk's list is shown to hold every    *)
(* object there is, each in its place, and so what it judges to be an      *)
(* orphan has nothing tracked below it in Drive.                           *)
(***************************************************************************)
EXTENDS PruneTree, FiniteSetTheorems, FunctionTheorems, SequenceTheorems,
        WellFoundedInduction, TLAPS

\* The trees have no cycle, and with every page that may come the deepest of
\* their objects is still in a folder that drive_tree lists: the run prune_sweep
\* meets this, and a chain of objects beyond max_depth does not.
InReach == \E d \in Nat :
    /\ d + MaxPages < MaxDepth
    /\ \A in \in Trees : \E level \in [Planted -> 1..d] :
         \A o \in Planted : in[o] # Root => level[in[o]] < level[o]

-----------------------------------------------------------------------------
(* The inductive invariant                                                 *)

Object == [type : {"free", "folder", "doc"}, in : Objs \cup {Root}, trashed : BOOLEAN]
Entry  == [id : Objs \cup {Root}, depth : Nat, up : Nat]

Shaped == /\ drive \in [Objs -> Object]
          /\ tracked \subseteq Objs
          /\ p \in [pc : {"idle", "walk", "trash"}, keep : SUBSET Objs, tree : Seq(Entry),
                    todo : SUBSET Nat, victims : SUBSET Objs]
          /\ w \in [pc : {"idle", "doc", "pair"}, folder : Objs \cup {Root},
                    doc : Objs \cup {Root}]
          /\ pages \in 0..MaxPages

\* Types, and what the sweep and the mirroring hold of one another's fields.
Typed == /\ Shaped
         /\ \A k \in 1..Len(p.tree) : p.tree[k].up < k
                                      /\ (p.tree[k].depth # 0 => p.tree[k].id \in Objs)
         /\ p.todo \subseteq 1..Len(p.tree)
         /\ w.pc # "idle" => w.folder \in Objs
         /\ w.pc = "pair" => w.doc \in Objs
         /\ (p.pc # "idle" /\ Locked) => w.pc = "idle"

\* Nothing lies in a Doc or in nothing; what is in the trash took its own along.
Filed == \A o \in Objs :
            /\ drive[o].type = "free" => drive[o].in = Root /\ ~drive[o].trashed
            /\ drive[o].in # Root => drive[drive[o].in].type = "folder"
            /\ drive[o].in # Root /\ drive[drive[o].in].trashed => drive[o].trashed

\* What a pair names, or is about to, was made.
Paired == /\ \A o \in tracked : drive[o].type # "free"
          /\ w.pc # "idle" => w.folder \in Objs /\ drive[w.folder].type = "folder"
          /\ w.pc = "pair" => w.doc \in Objs /\ drive[w.doc].type = "doc"

\* The lock: what a sweep read of the ledger stays, and no page is half mirrored.
Apart == /\ p.pc # "idle" => w.pc = "idle" /\ p.keep = tracked
         /\ w.pc # "idle" => ~drive[w.folder].trashed
         /\ w.pc = "pair" => ~drive[w.doc].trashed

\* Levels fall towards the root and leave room for the pages still to come.
Levelled(level) ==
    \A o \in Objs :
      /\ level[o] + (MaxPages - pages) + (IF drive[o].type = "folder" THEN 1 ELSE 0) <= MaxDepth
      /\ drive[o].in # Root => level[drive[o].in] < level[o]
Shallow == MaxPages < MaxDepth /\ \E level \in [Objs -> 1..MaxDepth] : Levelled(level)

\* The list of the walk: every entry in its folder, none twice, none missing
\* from a folder that is listed.
Ids == {p.tree[k].id : k \in 1..Len(p.tree)}
Placed == /\ p.tree # <<>>
          /\ p.tree[1] = [id |-> Root, depth |-> 0, up |-> 0]
          /\ \A k \in 2..Len(p.tree) :
               /\ p.tree[k].up \in 1..(k - 1)
               /\ p.tree[k].id \in Objs /\ Exists(p.tree[k].id)
               /\ drive[p.tree[k].id].in = p.tree[p.tree[k].up].id
               /\ p.tree[k].depth = p.tree[p.tree[k].up].depth + 1
Once   == \A j, k \in 1..Len(p.tree) : p.tree[j].id = p.tree[k].id => j = k
Ahead  == \A k \in p.todo : k \in 1..Len(p.tree)
                            /\ \A j \in 1..Len(p.tree) : p.tree[j].up # k
Listed == \A k \in 1..Len(p.tree) :
            Folder(p.tree[k].id) /\ (k = 1 \/ p.tree[k].depth < MaxDepth) /\ k \notin p.todo
               => Kids(p.tree[k].id) \subseteq Ids
Walked == Placed /\ Once /\ Ahead /\ Listed

\* What is about to be trashed holds nothing tracked, or is an empty folder that lies
\* directly under the root, which may be tracked, and is no section.
Spent(v)  == IF drive[v].in = Root
             THEN v \notin Sections /\ Folder(v) /\ Within(v) \subseteq {v}
             ELSE Within(v) \cap tracked = {}
Condemned == \A v \in p.victims : Spent(v)

Base == Typed /\ Filed /\ Paired /\ Shallow
IInv == /\ Base /\ Apart /\ KeepsTracked
        /\ p.pc = "walk" => Walked
        /\ p.pc = "trash" => Condemned

-----------------------------------------------------------------------------
(* Sets, orders and the objects below one                                  *)

Less == {q \in Nat \X Nat : q[1] < q[2]}

\* Of some things with a level each, one has the least: every argument down a
\* tree is one about the highest object it could fail for.
LEMMA LeastOne ==
    ASSUME NEW S, NEW level, S # {}, \A x \in S : level[x] \in Nat
    PROVE  \E x \in S : \A y \in S : level[x] <= level[y]
<1> DEFINE Of == {level[x] : x \in S}
<1>1. Of \subseteq Nat /\ Of # {}
  OBVIOUS
<1>2. IsWellFoundedOn(Less, Nat)
  BY NatLessThanWellFounded DEF OpToRel, Less
<1>3. PICK n \in Of : \A m \in Of : <<m, n>> \notin Less
  <2> HIDE DEF Of
  <2> QED
    BY <1>1, <1>2, WFMin
<1>4. PICK x \in S : n = level[x]
  BY <1>3
<1>5. ASSUME NEW y \in S PROVE level[x] <= level[y]
  <2>1. <<level[y], level[x]>> \notin Less
    BY <1>3, <1>4
  <2>2. level[y] \in Nat /\ level[x] \in Nat
    OBVIOUS
  <2>3. ~(level[y] < level[x])
    BY <2>1, <2>2 DEF Less
  <2> QED
    BY <2>2, <2>3
<1> QED
  BY <1>5

\* How many of S are not beyond o: its place in a listing.
Count(S, o) == Cardinality({x \in S : x <= o})
Nth(S, n)   == CHOOSE o \in S : Count(S, o) = n

\* A listing has every kid once: counting those up to each numbers a finite set.
LEMMA Numbered ==
    ASSUME NEW S \in SUBSET Nat, IsFiniteSet(S)
    PROVE  /\ Cardinality(S) \in Nat
           /\ \A n \in 1..Cardinality(S) : Nth(S, n) \in S /\ Count(S, Nth(S, n)) = n
           /\ \A o \in S : Count(S, o) \in 1..Cardinality(S) /\ Nth(S, Count(S, o)) = o
<1> DEFINE c == Cardinality(S)
           f == [o \in S |-> Count(S, o)]
<1>1. c \in Nat
  BY FS_CardinalityType
<1>2. ASSUME NEW o \in S PROVE Count(S, o) \in 1..c /\ IsFiniteSet({x \in S : x <= o})
  <2> DEFINE T == {x \in S : x <= o}
  <2>1. T \in SUBSET S /\ o \in T
    OBVIOUS
  <2>2. IsFiniteSet(T) /\ Cardinality(T) <= c /\ Cardinality(T) \in Nat
    <3> HIDE DEF T
    <3> QED
      BY <2>1, FS_Subset, FS_CardinalityType
  <2>3. Cardinality(T) # 0
    <3> HIDE DEF T
    <3> QED
      BY <2>1, <2>2, FS_EmptySet
  <2> QED
    BY <1>1, <2>2, <2>3 DEF Count
<1>3. ASSUME NEW o \in S, NEW q \in S, o < q PROVE Count(S, o) # Count(S, q)
  <2> DEFINE T == {x \in S : x <= o}
             U == {x \in S : x <= q}
  <2>1. o \in Nat /\ q \in Nat
    OBVIOUS
  <2>2. T \in SUBSET U /\ q \in U /\ q \notin T
    <3>1. ASSUME NEW x \in S, x <= o PROVE x <= q
      BY <1>3, <2>1, <3>1, x \in Nat
    <3>2. q <= q /\ ~(q <= o)
      BY <1>3, <2>1
    <3> QED
      BY <3>1, <3>2
  <2>3. IsFiniteSet(U)
    BY <1>2
  <2>4. Cardinality(T) # Cardinality(U)
    <3> HIDE DEF T, U
    <3> QED
      BY <2>2, <2>3, FS_Subset
  <2> QED
    BY <2>4 DEF Count
<1>4. ASSUME NEW o \in S, NEW q \in S, Count(S, o) = Count(S, q) PROVE o = q
  <2>1. o \in Nat /\ q \in Nat
    OBVIOUS
  <2>2. ~(o < q) /\ ~(q < o)
    BY <1>3, <1>4
  <2> QED
    BY <2>1, <2>2
<1>5. f \in Injection(S, 1..c)
  BY <1>2, <1>4 DEF Injection, IsInjective
<1>6. IsFiniteSet(1..c) /\ Cardinality(1..c) = c
  BY <1>1, FS_Interval
<1>7. f \in Surjection(S, 1..c)
  <2> HIDE DEF f
  <2> QED
    BY <1>5, <1>6, FS_Injection
<1>8. \A n \in 1..c : \E o \in S : Count(S, o) = n
  BY <1>7 DEF Surjection
<1>9. \A n \in 1..c : Nth(S, n) \in S /\ Count(S, Nth(S, n)) = n
  BY <1>8 DEF Nth
<1>10. ASSUME NEW o \in S PROVE Nth(S, Count(S, o)) = o
  BY <1>2, <1>4, <1>9
<1> QED
  BY <1>1, <1>2, <1>9, <1>10

\* What Within(o) asks of its function: true of o, and of what is in what it is true of.
Below(d, o, f) == f = [x \in Objs |-> x = o \/ (d[x].in # Root /\ f[d[x].in])]
Chosen(d, o)   == CHOOSE f : Below(d, o, f)

\* There is such a function, whatever is in what: it is true of the objects that
\* are in every set that has o and, with a folder, all that is in it.
LEMMA BelowExists == ASSUME NEW d \in [Objs -> Object], NEW o PROVE Below(d, o, Chosen(d, o))
<1> DEFINE Closed(S) == /\ o \in Objs => o \in S
                        /\ \A y \in Objs : d[y].in # Root /\ d[y].in \in S => y \in S
           B == {x \in Objs : \A S \in SUBSET Objs : Closed(S) => x \in S}
           f == [x \in Objs |-> x \in B]
           g == [x \in Objs |-> x = o \/ (d[x].in # Root /\ f[d[x].in])]
<1>0. \A x \in Objs : d[x].in \in Objs \cup {Root}
  BY DEF Object
<1>1. ASSUME NEW x \in Objs PROVE x \in B <=> (x = o \/ (d[x].in # Root /\ f[d[x].in]))
  <2>1. CASE x = o
    BY <2>1
  <2>2. CASE x # o /\ d[x].in # Root /\ d[x].in \in B
    BY <2>2, <1>0
  <2>3. CASE x # o /\ ~(d[x].in # Root /\ d[x].in \in B)
    <3>1. ~(d[x].in # Root /\ f[d[x].in])
      BY <2>3, <1>0
    <3>2. Closed(B)
      OBVIOUS
    <3>3. Closed(B \ {x})
      BY <2>3, <3>2
    <3>4. B \ {x} \in SUBSET Objs
      OBVIOUS
    <3>5. x \notin B
      BY <3>3, <3>4
    <3> QED
      BY <2>3, <3>1, <3>5
  <2> QED
    BY <2>1, <2>2, <2>3
<1>2. f = g
  BY <1>1
<1>3. \E h : Below(d, o, h)
  BY <1>2 DEF Below
<1> QED
  BY <1>3 DEF Chosen

\* What it is true of.
LEMMA BelowAt ==
    ASSUME NEW d \in [Objs -> Object], NEW o, NEW x \in Objs
    PROVE  Chosen(d, o)[x] <=> (x = o \/ (d[x].in # Root /\ Chosen(d, o)[d[x].in]))
<1>1. PICK f : f = Chosen(d, o)
  OBVIOUS
<1>2. f = [y \in Objs |-> y = o \/ (d[y].in # Root /\ f[d[y].in])]
  BY <1>1, BelowExists DEF Below
<1>3. f[x] <=> (x = o \/ (d[x].in # Root /\ f[d[x].in]))
  BY <1>2
<1> QED
  BY <1>1, <1>3

\* Within(o) is what exists of it, before a step and after it.
LEMMA WithinIs == ASSUME NEW o PROVE Within(o) = {x \in Objs : Exists(x) /\ Chosen(drive, o)[x]}
  BY DEF Within, Chosen, Below

\* The same of the state after a step.
LEMMA WithinIsThen ==
    ASSUME NEW o PROVE Within(o)' = {x \in Objs : Exists(x)' /\ Chosen(drive', o)[x]}
  BY DEF Within, Chosen, Below, Exists

\* Two functions that each ask the same of the folders agree where one implies
\* the other at the start: what is below o, and o below v, is below v.
LEMMA BelowIsBelow ==
    ASSUME NEW d \in [Objs -> Object], NEW e \in [Objs -> Object], NEW o, NEW v,
           \A x \in Objs : d[x].in = e[x].in,
           NEW level \in [Objs -> Nat],
           \A x \in Objs : d[x].in # Root => level[d[x].in] < level[x],
           o \in Objs => Chosen(e, v)[o],
           NEW x \in Objs, Chosen(d, o)[x]
    PROVE  Chosen(e, v)[x]
<1> DEFINE S == {y \in Objs : Chosen(d, o)[y] /\ ~Chosen(e, v)[y]}
<1>1. SUFFICES ASSUME S # {} PROVE FALSE
  OBVIOUS
<1>2. \A y \in S : level[y] \in Nat
  OBVIOUS
<1>3. PICK y \in S : \A z \in S : level[y] <= level[z]
  <2> HIDE DEF S
  <2> QED
    BY <1>1, <1>2, LeastOne
<1>4. y \in Objs /\ Chosen(d, o)[y] /\ ~Chosen(e, v)[y]
  BY <1>3
<1>5. Chosen(d, o)[y] <=> (y = o \/ (d[y].in # Root /\ Chosen(d, o)[d[y].in]))
  BY <1>4, BelowAt
<1>6. Chosen(e, v)[y] <=> (y = v \/ (e[y].in # Root /\ Chosen(e, v)[e[y].in]))
  BY <1>4, BelowAt
<1>7. y # o
  BY <1>4
<1>8. d[y].in # Root /\ d[y].in \in Objs /\ Chosen(d, o)[d[y].in]
  BY <1>4, <1>5, <1>7 DEF Object
<1>9. d[y].in \notin S
  <2>1. level[d[y].in] < level[y] /\ level[d[y].in] \in Nat /\ level[y] \in Nat
    BY <1>4, <1>8
  <2> QED
    BY <1>3, <2>1
<1>10. Chosen(e, v)[d[y].in]
  BY <1>8, <1>9
<1> QED
  BY <1>4, <1>6, <1>8, <1>10

-----------------------------------------------------------------------------
(* One listing                                                             *)

\* The tree after the listing of the folder at k.
Longer(k) == p.tree \o Listing(k)
New(k)    == (Len(p.tree) + 1)..Len(Longer(k))

\* A listing appends an entry for every kid of the folder, and one only.
LEMMA Appended ==
    ASSUME Typed, NEW k \in p.todo
    PROVE  /\ Len(p.tree) \in Nat /\ k \in 1..Len(p.tree)
           /\ Longer(k) \in Seq(Entry) /\ Len(Longer(k)) \in Nat
           /\ Len(p.tree) <= Len(Longer(k))
           /\ \A j \in 1..Len(p.tree) : Longer(k)[j] = p.tree[j]
           /\ \A j \in New(k) : /\ Longer(k)[j].id \in Kids(p.tree[k].id)
                                /\ Longer(k)[j].depth = p.tree[k].depth + 1
                                /\ Longer(k)[j].up = k
           /\ \A x \in Kids(p.tree[k].id) : \E j \in New(k) : Longer(k)[j].id = x
           /\ \A i, j \in New(k) : Longer(k)[i].id = Longer(k)[j].id => i = j
<1> DEFINE T    == p.tree
           kids == Kids(T[k].id)
           c    == Cardinality(kids)
           L    == [n \in 1..c |-> [id |-> Nth(kids, n), depth |-> T[k].depth + 1, up |-> k]]
<1>1. T \in Seq(Entry) /\ k \in 1..Len(T) /\ Len(T) \in Nat
  BY DEF Typed, Shaped
<1>2. T[k] \in Entry
  BY <1>1
<1>3. kids \in SUBSET Objs /\ kids \in SUBSET Nat /\ IsFiniteSet(kids)
  <2>1. kids \in SUBSET Objs
    BY DEF Kids
  <2> HIDE DEF kids
  <2> QED
    BY <2>1, FS_Subset, PruneAssumption
<1>4. /\ c \in Nat
      /\ \A n \in 1..c : Nth(kids, n) \in kids /\ Count(kids, Nth(kids, n)) = n
      /\ \A o \in kids : Count(kids, o) \in 1..c /\ Nth(kids, Count(kids, o)) = o
  <2> HIDE DEF kids
  <2> QED
    BY <1>3, Numbered
<1>5. Listing(k) = L
  BY DEF Listing, Nth, Count
<1> HIDE DEF kids, c
<1>6. ASSUME NEW n \in 1..c
      PROVE  /\ L[n] \in Entry /\ L[n].id = Nth(kids, n)
             /\ L[n].depth = T[k].depth + 1 /\ L[n].up = k
  <2>1. Nth(kids, n) \in Objs
    BY <1>3, <1>4
  <2>2. T[k].depth + 1 \in Nat
    BY <1>2 DEF Entry
  <2>3. k \in Nat
    BY <1>1
  <2> QED
    BY <2>1, <2>2, <2>3 DEF Entry
<1>7. L \in Seq(Entry) /\ Len(L) = c
  <2>1. L = [n \in 1..c |-> L[n]]
    OBVIOUS
  <2> HIDE DEF L
  <2> QED
    BY <1>4, <1>6, <2>1
<1>9. Longer(k) = T \o L
  BY <1>5 DEF Longer
<1> HIDE DEF L
<1>10. Longer(k) \in Seq(Entry) /\ Len(Longer(k)) = Len(T) + c
  <2> HIDE DEF T
  <2> QED
    BY <1>1, <1>7, <1>9, ConcatProperties
<1>a. ASSUME NEW j \in 1..(Len(T) + c)
      PROVE  Longer(k)[j] = IF j <= Len(T) THEN T[j] ELSE L[j - Len(T)]
  <2> HIDE DEF T
  <2> QED
    BY <1>1, <1>4, <1>7, <1>9
<1>11. New(k) = (Len(T) + 1)..(Len(T) + c)
  BY <1>10 DEF New
<1> HIDE DEF T
<1>12. ASSUME NEW j \in New(k)
       PROVE  j \in Nat /\ j - Len(T) \in 1..c /\ Longer(k)[j] = L[j - Len(T)]
  <2>1. j \in Nat /\ j - Len(T) \in 1..c /\ j \in 1..(Len(T) + c) /\ ~(j <= Len(T))
    BY <1>1, <1>4, <1>11
  <2> QED
    BY <2>1, <1>a
<1>13. ASSUME NEW x \in kids PROVE \E j \in New(k) : Longer(k)[j].id = x
  <2> DEFINE j == Len(T) + Count(kids, x)
  <2>1. Count(kids, x) \in 1..c /\ Nth(kids, Count(kids, x)) = x
    BY <1>4
  <2>2. j \in New(k) /\ j - Len(T) = Count(kids, x)
    BY <1>1, <1>4, <1>11, <2>1
  <2>3. Longer(k)[j] = L[Count(kids, x)]
    BY <1>12, <2>2
  <2>4. Longer(k)[j].id = x
    BY <1>6, <2>1, <2>3
  <2> QED
    BY <2>2, <2>4
<1>14. ASSUME NEW i \in New(k), NEW j \in New(k), Longer(k)[i].id = Longer(k)[j].id
       PROVE  i = j
  <2>1. Nth(kids, i - Len(T)) = Nth(kids, j - Len(T))
    BY <1>6, <1>12, <1>14
  <2>2. i - Len(T) = j - Len(T)
    BY <1>4, <1>12, <2>1
  <2> QED
    BY <1>1, <1>12, <2>2
<1>15. ASSUME NEW j \in New(k)
       PROVE  /\ Longer(k)[j].id \in kids /\ Longer(k)[j].depth = T[k].depth + 1
              /\ Longer(k)[j].up = k
  BY <1>4, <1>6, <1>12
<1>16. ASSUME NEW j \in 1..Len(T) PROVE Longer(k)[j] = T[j]
  <2>1. j \in 1..(Len(T) + c) /\ j <= Len(T)
    BY <1>1, <1>4
  <2> QED
    BY <2>1, <1>a
<1>17. Len(T) <= Len(Longer(k)) /\ Len(Longer(k)) \in Nat
  BY <1>1, <1>4, <1>10
<1> QED
  BY <1>1, <1>10, <1>13, <1>14, <1>15, <1>16, <1>17 DEF T, kids

\* What List does to the walk's list and to what it has still to list.
LEMMA ListIs ==
    ASSUME Typed, List
    PROVE  \E k \in p.todo :
             /\ p.pc = "walk" /\ p'.pc = "walk" /\ p'.keep = p.keep /\ p'.victims = p.victims
             /\ p'.tree = Longer(k)
             /\ p'.todo = (p.todo \ {k}) \cup {j \in New(k) : Folder(Longer(k)[j].id)
                                                            /\ Longer(k)[j].depth < MaxDepth}
             /\ p' \in [pc : {"idle", "walk", "trash"}, keep : SUBSET Objs, tree : Seq(Entry),
                        todo : SUBSET Nat, victims : SUBSET Objs]
             /\ UNCHANGED <<drive, tracked, w, pages>>
<1>1. PICK k \in p.todo :
         LET tree == p.tree \o Listing(k)
         IN  p' = [p EXCEPT !.tree = tree,
                     !.todo = (@ \ {k}) \cup {j \in (Len(p.tree) + 1)..Len(tree) :
                                 Folder(tree[j].id) /\ tree[j].depth < MaxDepth}]
  BY DEF List
<1> DEFINE more == (p.todo \ {k}) \cup {j \in New(k) : Folder(Longer(k)[j].id)
                                                    /\ Longer(k)[j].depth < MaxDepth}
<1>2. p' = [p EXCEPT !.tree = Longer(k), !.todo = more]
  BY <1>1 DEF Longer, New
<1>3. /\ Len(p.tree) \in Nat /\ Longer(k) \in Seq(Entry) /\ Len(Longer(k)) \in Nat
      /\ p.todo \subseteq Nat
  BY Appended DEF Typed
<1>4. more \in SUBSET Nat
  BY <1>3 DEF New
<1>5. p \in [pc : {"idle", "walk", "trash"}, keep : SUBSET Objs, tree : Seq(Entry),
             todo : SUBSET Nat, victims : SUBSET Objs]
  BY DEF Typed, Shaped
<1> HIDE DEF more
<1>6. /\ p'.pc = p.pc /\ p'.keep = p.keep /\ p'.victims = p.victims
      /\ p'.tree = Longer(k) /\ p'.todo = more
      /\ p' \in [pc : {"idle", "walk", "trash"}, keep : SUBSET Objs, tree : Seq(Entry),
                 todo : SUBSET Nat, victims : SUBSET Objs]
  BY <1>2, <1>3, <1>4, <1>5
<1>7. p.pc = "walk" /\ UNCHANGED <<drive, tracked, w, pages>>
  BY DEF List
<1> QED
  BY <1>6, <1>7 DEF more

\* A sweep that ends, that fails or that dies leaves nothing of its own behind.
LEMMA AsleepIs ==
    /\ Asleep \in [pc : {"idle", "walk", "trash"}, keep : SUBSET Objs, tree : Seq(Entry),
                   todo : SUBSET Nat, victims : SUBSET Objs]
    /\ Asleep.pc = "idle" /\ Asleep.tree = <<>> /\ Len(Asleep.tree) = 0 /\ Asleep.todo = {}
  BY DEF Asleep

\* A new object, made where it is.
LEMMA MadeIs ==
    ASSUME NEW type \in {"free", "folder", "doc"}, NEW in \in Objs \cup {Root}
    PROVE  /\ Made(type, in) \in Object /\ Made(type, in).type = type
           /\ Made(type, in).in = in /\ Made(type, in).trashed = FALSE
  BY DEF Made, Object

\* What MakeFolder does: a free object becomes a folder in one that exists.
LEMMA MakeFolderIs ==
    ASSUME Typed, MakeFolder
    PROVE  \E f \in Objs \cup {Root}, o \in Objs :
             /\ f # Root => ~drive[f].trashed /\ drive[f].type = "folder"
             /\ drive[o].type = "free"
             /\ drive' \in [Objs -> Object]
             /\ \A x \in Objs : x # o => drive'[x] = drive[x]
             /\ drive'[o].type = "folder" /\ drive'[o].in = f /\ ~drive'[o].trashed
             /\ w'.pc = "doc" /\ w'.folder = o
             /\ w' \in [pc : {"idle", "doc", "pair"}, folder : Objs \cup {Root},
                        doc : Objs \cup {Root}]
             /\ pages < MaxPages /\ pages' = pages + 1 /\ w.pc = "idle"
             /\ UNCHANGED <<tracked, p>>
<1>1. PICK f \in {x \in Sections \cup tracked \cup {Root} : Exists(x) /\ Folder(x)}, o \in Fresh :
         /\ drive' = [drive EXCEPT ![o] = Made("folder", f)]
         /\ w' = [w EXCEPT !.pc = "doc", !.folder = o]
  BY DEF MakeFolder
<1>2. f \in Objs \cup {Root} /\ o \in Objs /\ drive[o].type = "free"
  BY PruneAssumption DEF Fresh, Typed, Shaped
<1>3. f # Root => ~drive[f].trashed /\ drive[f].type = "folder"
  BY <1>1 DEF Folder, Exists
<1>4. /\ Made("folder", f) \in Object /\ Made("folder", f).type = "folder"
      /\ Made("folder", f).in = f /\ Made("folder", f).trashed = FALSE
  BY <1>2, MadeIs
<1>5. drive \in [Objs -> Object]
  BY DEF Typed, Shaped
<1>6. /\ drive' \in [Objs -> Object] /\ drive'[o] = Made("folder", f)
      /\ \A x \in Objs : x # o => drive'[x] = drive[x]
  BY <1>1, <1>2, <1>4, <1>5
<1>7. w \in [pc : {"idle", "doc", "pair"}, folder : Objs \cup {Root}, doc : Objs \cup {Root}]
  BY DEF Typed, Shaped
<1>8. /\ w'.pc = "doc" /\ w'.folder = o
      /\ w' \in [pc : {"idle", "doc", "pair"}, folder : Objs \cup {Root}, doc : Objs \cup {Root}]
  BY <1>1, <1>2, <1>7
<1>9. pages < MaxPages /\ pages' = pages + 1 /\ w.pc = "idle" /\ UNCHANGED <<tracked, p>>
  BY DEF MakeFolder
<1> QED
  BY <1>1, <1>2, <1>3, <1>4, <1>6, <1>8, <1>9

\* What MakeDoc does: a free object becomes a Doc in the new folder.
LEMMA MakeDocIs ==
    ASSUME Typed, MakeDoc
    PROVE  \E o \in Objs :
             /\ w.folder \in Objs /\ w.pc = "doc" /\ drive[o].type = "free"
             /\ drive' \in [Objs -> Object]
             /\ \A x \in Objs : x # o => drive'[x] = drive[x]
             /\ drive'[o].type = "doc" /\ drive'[o].in = w.folder
             /\ drive'[o].trashed = drive[w.folder].trashed
             /\ w'.pc = "pair" /\ w'.folder = w.folder /\ w'.doc = o
             /\ w' \in [pc : {"idle", "doc", "pair"}, folder : Objs \cup {Root},
                        doc : Objs \cup {Root}]
             /\ UNCHANGED <<tracked, p, pages>>
<1>1. PICK o \in Fresh :
         /\ drive' = [drive EXCEPT ![o] = [Made("doc", w.folder) EXCEPT
                                             !.trashed = drive[w.folder].trashed]]
         /\ w' = [w EXCEPT !.pc = "pair", !.doc = o]
  BY DEF MakeDoc
<1>2. o \in Objs /\ drive[o].type = "free"
  BY DEF Fresh
<1>3. w.pc = "doc" /\ w.folder \in Objs /\ UNCHANGED <<tracked, p, pages>>
  BY DEF MakeDoc, Typed
<1> DEFINE new == [Made("doc", w.folder) EXCEPT !.trashed = drive[w.folder].trashed]
<1>4. drive \in [Objs -> Object] /\ drive[w.folder].trashed \in BOOLEAN
  BY <1>3 DEF Typed, Shaped, Object
<1>5. /\ new \in Object /\ new.type = "doc" /\ new.in = w.folder
      /\ new.trashed = drive[w.folder].trashed
  BY <1>3, <1>4 DEF Made, Object
<1>6. drive' = [drive EXCEPT ![o] = new]
  BY <1>1
<1> HIDE DEF new
<1>7. /\ drive' \in [Objs -> Object] /\ drive'[o] = new
      /\ \A x \in Objs : x # o => drive'[x] = drive[x]
  BY <1>2, <1>4, <1>5, <1>6
<1>8. w \in [pc : {"idle", "doc", "pair"}, folder : Objs \cup {Root}, doc : Objs \cup {Root}]
  BY DEF Typed, Shaped
<1>9. /\ w'.pc = "pair" /\ w'.folder = w.folder /\ w'.doc = o
      /\ w' \in [pc : {"idle", "doc", "pair"}, folder : Objs \cup {Root}, doc : Objs \cup {Root}]
  BY <1>1, <1>2, <1>8
<1> QED
  BY <1>2, <1>3, <1>5, <1>7, <1>9

\* What Trash does: all that exists of v and below goes, or nothing does.
LEMMA TrashIs ==
    ASSUME Typed, Trash
    PROVE  \E v \in p.victims :
             /\ p.pc = "trash" /\ p'.pc = "trash" /\ p'.keep = p.keep /\ p'.tree = p.tree
             /\ p'.todo = p.todo /\ p'.victims = p.victims \ {v}
             /\ p' \in [pc : {"idle", "walk", "trash"}, keep : SUBSET Objs, tree : Seq(Entry),
                        todo : SUBSET Nat, victims : SUBSET Objs]
             /\ drive' \in [Objs -> Object]
             /\ \A x \in Objs : /\ drive'[x].type = drive[x].type /\ drive'[x].in = drive[x].in
                                /\ \/ drive'[x].trashed = drive[x].trashed
                                   \/ drive'[x].trashed /\ x \in Within(v)
             /\ \/ \A x \in Objs : drive'[x].trashed <=> drive[x].trashed \/ x \in Within(v)
                \/ drive' = drive
             /\ UNCHANGED <<tracked, w, pages>>
<1>1. PICK v \in p.victims :
         /\ p' = [p EXCEPT !.victims = @ \ {v}]
         /\ \/ drive' = [o \in Objs |-> [drive[o] EXCEPT !.trashed = @ \/ o \in Within(v)]]
            \/ drive' = drive
  BY DEF Trash
<1>2. /\ drive \in [Objs -> Object]
      /\ p \in [pc : {"idle", "walk", "trash"}, keep : SUBSET Objs, tree : Seq(Entry),
                todo : SUBSET Nat, victims : SUBSET Objs]
  BY DEF Typed, Shaped
<1>3. /\ p'.pc = p.pc /\ p'.keep = p.keep /\ p'.tree = p.tree
      /\ p'.todo = p.todo /\ p'.victims = p.victims \ {v}
      /\ p' \in [pc : {"idle", "walk", "trash"}, keep : SUBSET Objs, tree : Seq(Entry),
                 todo : SUBSET Nat, victims : SUBSET Objs]
  BY <1>1, <1>2
<1>4. p.pc = "trash" /\ UNCHANGED <<tracked, w, pages>>
  BY DEF Trash
<1> DEFINE W == Within(v)
<1>5. CASE drive' = [o \in Objs |-> [drive[o] EXCEPT !.trashed = @ \/ o \in W]]
  <2> HIDE DEF W
  <2>1. ASSUME NEW x \in Objs
        PROVE  /\ drive'[x] \in Object
               /\ drive'[x].type = drive[x].type /\ drive'[x].in = drive[x].in
               /\ drive'[x].trashed <=> (drive[x].trashed \/ x \in W)
               /\ drive'[x].trashed \in BOOLEAN /\ drive[x].trashed \in BOOLEAN
    <3>1. drive[x] \in Object /\ (drive[x].trashed \/ x \in W) \in BOOLEAN
      BY <1>2
    <3>2. drive'[x] = [drive[x] EXCEPT !.trashed = drive[x].trashed \/ x \in W]
      BY <1>5
    <3> QED
      BY <3>1, <3>2 DEF Object
  <2>2. drive' \in [Objs -> Object]
    BY <1>5, <2>1
  <2> QED
    BY <1>3, <1>4, <2>1, <2>2 DEF W
<1>6. CASE drive' = drive
  BY <1>2, <1>3, <1>4, <1>6
<1> QED
  BY <1>1, <1>5, <1>6

\* What Visit does: the walked entries that are judged become the victims.
LEMMA VisitIs ==
    ASSUME Typed, Visit
    PROVE  /\ p.pc = "walk" /\ p.todo = {} /\ p'.pc = "trash" /\ p'.keep = p.keep
           /\ p'.tree = p.tree /\ p'.todo = p.todo
           /\ p'.victims = {p.tree[k].id : k \in {j \in 1..Len(p.tree) :
                              Obsolete(j) \/ (p.tree[j].depth >= 2 /\ Whole(j))}}
           /\ p' \in [pc : {"idle", "walk", "trash"}, keep : SUBSET Objs, tree : Seq(Entry),
                      todo : SUBSET Nat, victims : SUBSET Objs]
           /\ UNCHANGED <<drive, tracked, w, pages>>
<1> DEFINE victims == {p.tree[k].id : k \in {j \in 1..Len(p.tree) :
                              Obsolete(j) \/ (p.tree[j].depth >= 2 /\ Whole(j))}}
<1>1. p.pc = "walk" /\ p.todo = {} /\ UNCHANGED <<drive, tracked, w, pages>>
  BY DEF Visit
<1>2. p' = [p EXCEPT !.pc = "trash", !.victims = victims]
  BY DEF Visit
<1>3. p \in [pc : {"idle", "walk", "trash"}, keep : SUBSET Objs, tree : Seq(Entry),
             todo : SUBSET Nat, victims : SUBSET Objs]
  BY DEF Typed, Shaped
<1>4. ASSUME NEW j \in 1..Len(p.tree), Obsolete(j) \/ (p.tree[j].depth >= 2 /\ Whole(j))
      PROVE  p.tree[j].id \in Objs
  <2>1. p.tree[j].depth # 0
    BY <1>4 DEF Obsolete
  <2> QED
    BY <2>1 DEF Typed
<1>5. victims \in SUBSET Objs
  BY <1>4
<1> HIDE DEF victims
<1>6. /\ p'.pc = "trash" /\ p'.keep = p.keep /\ p'.tree = p.tree /\ p'.todo = p.todo
      /\ p'.victims = victims
      /\ p' \in [pc : {"idle", "walk", "trash"}, keep : SUBSET Objs, tree : Seq(Entry),
                 todo : SUBSET Nat, victims : SUBSET Objs]
  BY <1>2, <1>3, <1>5
<1> QED
  BY <1>1, <1>6 DEF victims

\* What StartPrune does: the ledger's ids are read, the root is to be listed.
LEMMA StartPruneIs ==
    ASSUME Typed, StartPrune
    PROVE  /\ p.pc = "idle" /\ Alone /\ p'.pc = "walk" /\ p'.keep = tracked /\ p'.todo = {1}
           /\ p'.tree = <<[id |-> Root, depth |-> 0, up |-> 0]>>
           /\ Len(p'.tree) = 1 /\ p'.tree[1] = [id |-> Root, depth |-> 0, up |-> 0]
           /\ p' \in [pc : {"idle", "walk", "trash"}, keep : SUBSET Objs, tree : Seq(Entry),
                      todo : SUBSET Nat, victims : SUBSET Objs]
           /\ UNCHANGED <<drive, tracked, w, pages>>
<1> DEFINE root == [id |-> Root, depth |-> 0, up |-> 0]
<1>1. root \in Entry
  BY DEF Entry
<1> HIDE DEF root
<1>2. <<root>> \in Seq(Entry) /\ Len(<<root>>) = 1 /\ <<root>>[1] = root
  BY <1>1
<1>3. p' = [Asleep EXCEPT !.pc = "walk", !.keep = tracked, !.todo = {1}, !.tree = <<root>>]
  BY DEF StartPrune, root
<1>4. tracked \in SUBSET Objs
  BY DEF Typed, Shaped
<1>5. /\ p'.pc = "walk" /\ p'.keep = tracked /\ p'.todo = {1} /\ p'.tree = <<root>>
      /\ p' \in [pc : {"idle", "walk", "trash"}, keep : SUBSET Objs, tree : Seq(Entry),
                 todo : SUBSET Nat, victims : SUBSET Objs]
  <2>1. p' = [pc |-> "walk", keep |-> tracked, todo |-> {1}, tree |-> <<root>>, victims |-> {}]
    BY <1>3 DEF Asleep
  <2>2. {1} \in SUBSET Nat
    OBVIOUS
  <2> QED
    BY <1>2, <1>4, <2>1, <2>2
<1>6. p.pc = "idle" /\ Alone /\ UNCHANGED <<drive, tracked, w, pages>>
  BY DEF StartPrune
<1> QED
  BY <1>2, <1>5, <1>6 DEF root

\* What Record does: the pair of the new page is tracked.
LEMMA RecordIs ==
    ASSUME Typed, Record
    PROVE  /\ w.pc = "pair" /\ w.folder \in Objs /\ w.doc \in Objs
           /\ tracked' = tracked \cup {w.folder, w.doc} /\ w'.pc = "idle"
           /\ w' \in [pc : {"idle", "doc", "pair"}, folder : Objs \cup {Root},
                      doc : Objs \cup {Root}]
           /\ UNCHANGED <<drive, p, pages>>
  BY DEF Record, NoPage, Typed

-----------------------------------------------------------------------------
(* Types                                                                   *)

\* The program starts, with any of the trees, in a typed state.
LEMMA TypeInit == Init => Typed
<1> SUFFICES ASSUME Init PROVE Typed
  OBVIOUS
<1>1. PICK in \in Trees, docs \in SUBSET (Planted \ Sections) :
         /\ drive = [o \in Objs |-> IF o \notin Planted THEN Made("free", Root)
                                   ELSE Made(IF o \in docs THEN "doc" ELSE "folder", in[o])]
         /\ tracked \in SUBSET (Planted \ Sections)
  BY DEF Init
<1>2. ASSUME NEW o \in Objs PROVE drive[o] \in Object
  <2>1. CASE o \notin Planted
    BY <1>1, <2>1, MadeIs
  <2>2. CASE o \in Planted
    <3>1. in[o] \in Objs \cup {Root}
      BY <2>2, PruneAssumption
    <3>2. drive[o] = Made(IF o \in docs THEN "doc" ELSE "folder", in[o])
      BY <1>1, <2>2
    <3>3. CASE o \in docs
      BY <3>1, <3>2, <3>3, MadeIs
    <3>4. CASE o \notin docs
      BY <3>1, <3>2, <3>4, MadeIs
    <3> QED
      BY <3>3, <3>4
  <2> QED
    BY <2>1, <2>2
<1>3. drive \in [Objs -> Object]
  BY <1>1, <1>2
<1>4. tracked \subseteq Objs
  BY <1>1, PruneAssumption
<1>5. p = Asleep /\ w = NoPage /\ pages = 0
  BY DEF Init
<1>6. w \in [pc : {"idle", "doc", "pair"}, folder : Objs \cup {Root}, doc : Objs \cup {Root}]
      /\ w.pc = "idle"
  BY <1>5 DEF NoPage
<1>7. pages \in 0..MaxPages
  BY <1>5, PruneAssumption
<1> QED
  BY <1>3, <1>4, <1>5, <1>6, <1>7, AsleepIs DEF Typed, Shaped

\* A sweep that is over or never was satisfies what the types ask of one.
LEMMA TypeAsleep ==
    ASSUME Typed, p' = Asleep, drive' = drive, tracked' = tracked, pages' = pages,
           w' = w \/ w' = NoPage
    PROVE  Typed'
<1>1. /\ p' \in [pc : {"idle", "walk", "trash"}, keep : SUBSET Objs, tree : Seq(Entry),
                 todo : SUBSET Nat, victims : SUBSET Objs]
      /\ p'.pc = "idle" /\ Len(p'.tree) = 0 /\ p'.todo = {}
  BY AsleepIs
<1>2. /\ w' \in [pc : {"idle", "doc", "pair"}, folder : Objs \cup {Root},
                 doc : Objs \cup {Root}]
      /\ w'.pc # "idle" => w'.folder \in Objs
      /\ w'.pc = "pair" => w'.doc \in Objs
  BY DEF Typed, Shaped, NoPage
<1> QED
  BY <1>1, <1>2 DEF Typed, Shaped

\* Every step of the sweep and of a mirroring, a failure and a crash keep the types.
LEMMA TypeStep == Typed /\ [Next]_vars => Typed'
<1> SUFFICES ASSUME Typed, [Next]_vars PROVE Typed'
  OBVIOUS
<1>1. CASE StartPrune
  <2>1. (p'.pc # "idle" /\ Locked) => w'.pc = "idle"
    BY <1>1, StartPruneIs DEF Alone
  <2>2. \A k \in 1..Len(p'.tree) : k = 1
    <3>1. Len(p'.tree) = 1
      BY <1>1, StartPruneIs
    <3> QED
      BY <3>1
  <2>3. Shaped'
    BY <1>1, StartPruneIs DEF Typed, Shaped
  <2>4. p'.todo \subseteq 1..Len(p'.tree)
    BY <1>1, StartPruneIs
  <2>5. \A k \in 1..Len(p'.tree) : p'.tree[k].up < k
                                   /\ (p'.tree[k].depth # 0 => p'.tree[k].id \in Objs)
    BY <1>1, <2>2, StartPruneIs
  <2> QED
    BY <1>1, <2>1, <2>3, <2>4, <2>5, StartPruneIs DEF Typed
<1>2. CASE List
  <2>1. PICK k \in p.todo :
             /\ p.pc = "walk" /\ p'.pc = "walk"
             /\ p'.tree = Longer(k)
             /\ p'.todo = (p.todo \ {k}) \cup {j \in New(k) : Folder(Longer(k)[j].id)
                                                            /\ Longer(k)[j].depth < MaxDepth}
             /\ p' \in [pc : {"idle", "walk", "trash"}, keep : SUBSET Objs, tree : Seq(Entry),
                        todo : SUBSET Nat, victims : SUBSET Objs]
             /\ UNCHANGED <<drive, tracked, w, pages>>
    BY <1>2, ListIs
  <2>2. Shaped'
    BY <2>1 DEF Typed, Shaped
  <2>3. /\ Len(p.tree) \in Nat /\ k \in 1..Len(p.tree)
        /\ Len(Longer(k)) \in Nat /\ Len(p.tree) <= Len(Longer(k))
        /\ \A j \in 1..Len(p.tree) : Longer(k)[j] = p.tree[j]
        /\ \A j \in New(k) : Longer(k)[j].id \in Kids(p.tree[k].id) /\ Longer(k)[j].up = k
    BY Appended
  <2>4. ASSUME NEW j \in 1..Len(p'.tree)
        PROVE  p'.tree[j].up < j /\ (p'.tree[j].depth # 0 => p'.tree[j].id \in Objs)
    <3>1. CASE j \in 1..Len(p.tree)
      BY <2>1, <2>3, <3>1 DEF Typed
    <3>2. CASE j \notin 1..Len(p.tree)
      <4>1. j \in New(k) /\ k < j
        BY <2>1, <2>3, <3>2 DEF New
      <4>2. Longer(k)[j].id \in Objs
        BY <2>3, <4>1 DEF Kids
      <4> QED
        BY <2>1, <2>3, <4>1, <4>2
    <3> QED
      BY <3>1, <3>2
  <2>5. p'.todo \subseteq 1..Len(p'.tree)
    <3>1. New(k) \subseteq 1..Len(Longer(k)) /\ 1..Len(p.tree) \subseteq 1..Len(Longer(k))
      BY <2>3 DEF New
    <3> QED
      BY <2>1, <3>1 DEF Typed
  <2> QED
    BY <2>1, <2>2, <2>4, <2>5 DEF Typed
<1>3. CASE Visit
  <2>1. Shaped'
    BY <1>3, VisitIs DEF Typed, Shaped
  <2> QED
    BY <1>3, <2>1, VisitIs DEF Typed
<1>4. CASE Trash
  <2>1. /\ p.pc = "trash" /\ p'.tree = p.tree /\ p'.todo = p.todo
        /\ p' \in [pc : {"idle", "walk", "trash"}, keep : SUBSET Objs, tree : Seq(Entry),
                   todo : SUBSET Nat, victims : SUBSET Objs]
        /\ drive' \in [Objs -> Object]
        /\ UNCHANGED <<tracked, w, pages>>
    BY <1>4, TrashIs
  <2>2. Shaped'
    BY <2>1 DEF Typed, Shaped
  <2> QED
    BY <2>1, <2>2 DEF Typed
<1>5. CASE EndPrune
  BY <1>5, TypeAsleep DEF EndPrune
<1>6. CASE ListFails
  BY <1>6, TypeAsleep DEF ListFails
<1>7. CASE Crash
  BY <1>7, TypeAsleep DEF Crash
<1>8. CASE MakeFolder
  <2>1. PICK f \in Objs \cup {Root}, o \in Objs :
             /\ drive' \in [Objs -> Object]
             /\ w'.pc = "doc" /\ w'.folder = o
             /\ w' \in [pc : {"idle", "doc", "pair"}, folder : Objs \cup {Root},
                        doc : Objs \cup {Root}]
             /\ pages < MaxPages /\ pages' = pages + 1
             /\ UNCHANGED <<tracked, p>>
    BY <1>8, MakeFolderIs
  <2>2. pages' \in 0..MaxPages
    BY <2>1, PruneAssumption DEF Typed, Shaped
  <2>3. Shaped'
    BY <2>1, <2>2 DEF Typed, Shaped
  <2>4. (p'.pc # "idle" /\ Locked) => w'.pc = "idle"
    BY <1>8, <2>1 DEF MakeFolder, Alone
  <2> QED
    BY <2>1, <2>3, <2>4 DEF Typed
<1>9. CASE MakeDoc
  <2>1. PICK o \in Objs :
             /\ w.folder \in Objs /\ w.pc = "doc"
             /\ drive' \in [Objs -> Object]
             /\ w'.pc = "pair" /\ w'.folder = w.folder /\ w'.doc = o
             /\ w' \in [pc : {"idle", "doc", "pair"}, folder : Objs \cup {Root},
                        doc : Objs \cup {Root}]
             /\ UNCHANGED <<tracked, p, pages>>
    BY <1>9, MakeDocIs
  <2>2. Shaped'
    BY <2>1 DEF Typed, Shaped
  <2> QED
    BY <2>1, <2>2 DEF Typed
<1>10. CASE Record
  <2>1. Shaped'
    BY <1>10, RecordIs DEF Typed, Shaped
  <2> QED
    BY <1>10, <2>1, RecordIs DEF Typed
<1>11. CASE UNCHANGED vars
  BY <1>11 DEF vars, Typed, Shaped
<1> QED
  BY <1>1, <1>2, <1>3, <1>4, <1>5, <1>6, <1>7, <1>8, <1>9, <1>10, <1>11 DEF Next, Prune

\* The type invariant of PruneTree, whoever holds the lock and however deep the
\* trees: the walk's list names objects of Drive, each after the folder it is in.
THEOREM Types == Spec => []TypeOK
<1>1. Typed => TypeOK
  <2> SUFFICES ASSUME Typed PROVE TypeOK
    OBVIOUS
  <2>1. drive \in [Objs -> [type : {"free", "folder", "doc"}, in : Objs \cup {Root},
                            trashed : BOOLEAN]]
    BY DEF Typed, Shaped, Object
  <2>2. p.keep \subseteq Objs /\ p.victims \subseteq Objs /\ p.tree \in Seq(Entry)
    BY DEF Typed, Shaped
  <2>3. \A k \in 1..Len(p.tree) : p.tree[k] \in Entry
    BY <2>2
  <2>4. \A k \in 1..Len(p.tree) : p.tree[k].id \in Objs \cup {Root}
    BY <2>3 DEF Entry
  <2> QED
    BY <2>1, <2>2, <2>4 DEF Typed, Shaped, TypeOK
<1> QED
  BY <1>1, TypeInit, TypeStep, PTL DEF Spec

-----------------------------------------------------------------------------
(* The trees in Drive                                                      *)

\* Trees without a cycle and in reach have levels with room for the new pages.
LEMMA BaseInit == ASSUME InReach PROVE Init => Base
<1> SUFFICES ASSUME Init PROVE Base
  OBVIOUS
<1>1. PICK in \in Trees, docs \in SUBSET (Planted \ Sections) :
         /\ \A o \in Planted : in[o] \notin docs
         /\ drive = [o \in Objs |-> IF o \notin Planted THEN Made("free", Root)
                                   ELSE Made(IF o \in docs THEN "doc" ELSE "folder", in[o])]
         /\ tracked \in SUBSET (Planted \ Sections)
  BY DEF Init
<1>2. in \in [Planted -> Planted \cup {Root}] /\ Planted \subseteq Objs /\ Root \notin Objs
  BY PruneAssumption
<1>3. ASSUME NEW o \in Objs, o \notin Planted
      PROVE  drive[o].type = "free" /\ drive[o].in = Root /\ ~drive[o].trashed
  BY <1>1, <1>3, MadeIs
<1>4. ASSUME NEW o \in Planted
      PROVE  /\ drive[o].type = (IF o \in docs THEN "doc" ELSE "folder")
             /\ drive[o].in = in[o] /\ ~drive[o].trashed
  <2>1. drive[o] = Made(IF o \in docs THEN "doc" ELSE "folder", in[o])
    BY <1>1, <1>2
  <2> QED
    BY <2>1 DEF Made
<1>5. Filed
  <2> SUFFICES ASSUME NEW o \in Objs
               PROVE  /\ drive[o].type = "free" => drive[o].in = Root /\ ~drive[o].trashed
                      /\ drive[o].in # Root => drive[drive[o].in].type = "folder"
                      /\ drive[o].in # Root /\ drive[drive[o].in].trashed => drive[o].trashed
    BY DEF Filed
  <2>1. CASE o \notin Planted
    BY <1>3, <2>1
  <2>2. CASE o \in Planted
    <3>1. drive[o].type # "free" /\ drive[o].in = in[o]
      BY <1>4, <2>2
    <3>2. in[o] # Root => in[o] \in Planted /\ in[o] \notin docs
      BY <1>1, <1>2, <2>2
    <3> QED
      BY <1>4, <3>1, <3>2
  <2> QED
    BY <2>1, <2>2
<1>6. Paired
  <2>1. w.pc = "idle"
    BY DEF Init, NoPage
  <2>2. ASSUME NEW o \in tracked PROVE drive[o].type # "free"
    BY <1>1, <1>4
  <2> QED
    BY <2>1, <2>2 DEF Paired
<1>7. Shallow
  <2>1. PICK d \in Nat :
           /\ d + MaxPages < MaxDepth
           /\ \A i \in Trees : \E level \in [Planted -> 1..d] :
                \A o \in Planted : i[o] # Root => level[i[o]] < level[o]
    BY DEF InReach
  <2>2. PICK level \in [Planted -> 1..d] :
           \A o \in Planted : in[o] # Root => level[in[o]] < level[o]
    BY <2>1
  <2> DEFINE all == [o \in Objs |-> IF o \in Planted THEN level[o] ELSE 1]
  <2>3. MaxPages \in Nat /\ MaxDepth \in Nat /\ pages = 0
    BY PruneAssumption DEF Init
  <2>4. ASSUME NEW o \in Objs
        PROVE  /\ all[o] \in 1..MaxDepth
               /\ all[o] + (MaxPages - pages)
                    + (IF drive[o].type = "folder" THEN 1 ELSE 0) <= MaxDepth
    <3>1. CASE o \in Planted
      <4>1. all[o] \in 1..d
        BY <3>1
      <4> QED
        BY <4>1, <2>1, <2>3
    <3>2. CASE o \notin Planted
      <4>1. all[o] = 1 /\ drive[o].type # "folder"
        BY <1>3, <3>2
      <4> QED
        BY <4>1, <2>1, <2>3
    <3> QED
      BY <3>1, <3>2
  <2>5. ASSUME NEW o \in Objs, drive[o].in # Root PROVE all[drive[o].in] < all[o]
    <3>1. o \in Planted /\ drive[o].in = in[o] /\ in[o] # Root
      BY <1>3, <1>4, <2>5
    <3>2. in[o] \in Planted /\ in[o] \in Objs
      BY <1>2, <3>1
    <3> QED
      BY <2>2, <3>1, <3>2
  <2>6. all \in [Objs -> 1..MaxDepth]
    BY <2>4
  <2> HIDE DEF all
  <2>7. Levelled(all)
    BY <2>4, <2>5 DEF Levelled
  <2>8. MaxPages < MaxDepth
    BY <2>1, <2>3
  <2> QED
    BY <2>6, <2>7, <2>8 DEF Shallow
<1> QED
  BY <1>5, <1>6, <1>7, TypeInit DEF Base

\* A step that leaves the trees as they are leaves them filed.
LEMMA SameTrees ==
    ASSUME Base, [Next]_vars, drive' = drive, pages' = pages
    PROVE  Filed' /\ Shallow'
  BY DEF Base, Filed, Shallow, Levelled

\* The trees stay trees: what is made is put into a folder and has nothing in
\* it, and what is trashed takes along what is in it.
LEMMA BaseStep == Base /\ [Next]_vars => Base'
<1> SUFFICES ASSUME Base, [Next]_vars PROVE Filed' /\ Paired' /\ Shallow'
  BY TypeStep DEF Base
<1>0. /\ Typed /\ drive \in [Objs -> Object] /\ tracked \subseteq Objs /\ Root \notin Objs
      /\ \A x \in Objs : drive[x].in \in Objs \cup {Root}
  BY PruneAssumption DEF Base, Typed, Shaped, Object
<1>1. CASE StartPrune \/ List \/ Visit \/ EndPrune \/ ListFails
  <2>1. UNCHANGED <<drive, tracked, w, pages>>
    BY <1>1 DEF StartPrune, List, Visit, EndPrune, ListFails
  <2> QED
    BY <2>1, SameTrees DEF Base, Paired
<1>2. CASE Crash
  <2>1. UNCHANGED <<drive, tracked, pages>> /\ w'.pc = "idle"
    BY <1>2 DEF Crash, NoPage
  <2> QED
    BY <2>1, SameTrees DEF Base, Paired
<1>3. CASE Record
  <2>1. /\ w.pc = "pair" /\ tracked' = tracked \cup {w.folder, w.doc} /\ w'.pc = "idle"
        /\ drive' = drive /\ pages' = pages
    BY <1>0, <1>3, RecordIs
  <2> QED
    BY <2>1, SameTrees DEF Base, Paired
<1>4. CASE Trash
  <2>1. PICK v \in p.victims :
             /\ drive' \in [Objs -> Object]
             /\ \A x \in Objs : /\ drive'[x].type = drive[x].type /\ drive'[x].in = drive[x].in
             /\ \/ \A x \in Objs : drive'[x].trashed <=> drive[x].trashed \/ x \in Within(v)
                \/ drive' = drive
             /\ UNCHANGED <<tracked, w, pages>>
    BY <1>0, <1>4, TrashIs
  <2>2. Paired'
    BY <1>0, <2>1 DEF Base, Paired
  <2>3. Shallow'
    <3>1. PICK level \in [Objs -> 1..MaxDepth] : Levelled(level)
      BY DEF Base, Shallow
    <3>2. Levelled(level)'
      BY <2>1, <3>1 DEF Levelled
    <3> QED
      BY <3>2 DEF Base, Shallow
  <2>4. CASE drive' = drive
    BY <2>1, <2>2, <2>4, SameTrees
  <2>5. CASE \A x \in Objs : drive'[x].trashed <=> drive[x].trashed \/ x \in Within(v)
    <3>1. ASSUME NEW o \in Objs
          PROVE  /\ drive'[o].type = "free" => drive'[o].in = Root /\ ~drive'[o].trashed
                 /\ drive'[o].in # Root => drive'[drive'[o].in].type = "folder"
                 /\ drive'[o].in # Root /\ drive'[drive'[o].in].trashed => drive'[o].trashed
      <4>1. o \in Within(v) => drive[o].type # "free"
        BY <1>0 DEF Within, Exists
      <4>2. drive[o].type = "free" => drive[o].in = Root /\ ~drive[o].trashed
        BY DEF Base, Filed
      <4>3. drive'[o].type = "free" => drive'[o].in = Root /\ ~drive'[o].trashed
        BY <2>1, <2>5, <4>1, <4>2
      <4>4. drive'[o].in # Root => drive'[drive'[o].in].type = "folder"
        BY <1>0, <2>1 DEF Base, Filed
      <4>5. ASSUME drive'[o].in # Root, drive'[drive'[o].in].trashed PROVE drive'[o].trashed
        <5>1. drive[o].in # Root /\ drive[o].in \in Objs /\ drive'[o].in = drive[o].in
          BY <1>0, <2>1, <4>5
        <5>2. drive[drive[o].in].trashed \/ drive[o].in \in Within(v)
          BY <2>5, <4>5, <5>1
        <5>3. CASE drive[drive[o].in].trashed
          BY <2>5, <5>1, <5>3 DEF Base, Filed
        <5>4. CASE drive[o].in \in Within(v)
          <6>1. Chosen(drive, v)[drive[o].in]
            BY <5>4, WithinIs
          <6>2. Chosen(drive, v)[o]
            BY <1>0, <5>1, <6>1, BelowAt
          <6>3. drive[o].type # "free"
            BY <4>2, <5>1
          <6>4. drive[o].trashed \/ o \in Within(v)
            BY <1>0, <6>2, <6>3, WithinIs DEF Exists
          <6> QED
            BY <2>5, <6>4
        <5> QED
          BY <5>2, <5>3, <5>4
      <4> QED
        BY <4>3, <4>4, <4>5
    <3>2. Filed'
      BY <3>1 DEF Filed
    <3> QED
      BY <2>2, <2>3, <3>2
  <2> QED
    BY <2>1, <2>4, <2>5
<1>5. ASSUME NEW o \in Objs, NEW f \in Objs \cup {Root}, NEW type \in {"folder", "doc"},
             drive[o].type = "free", f # Root => drive[f].type = "folder",
             drive' \in [Objs -> Object],
             \A x \in Objs : x # o => drive'[x] = drive[x],
             drive'[o].type = type, drive'[o].in = f,
             IF f = Root THEN ~drive'[o].trashed ELSE drive'[o].trashed = drive[f].trashed,
             \/ type = "doc" /\ pages' = pages /\ f # Root
             \/ type = "folder" /\ pages < MaxPages /\ pages' = pages + 1
      PROVE  Filed' /\ Shallow'
  <2>1. o # f
    BY <1>0, <1>5
  <2>2. ASSUME NEW x \in Objs PROVE drive[x].in # o
    BY <1>0, <1>5 DEF Base, Filed
  <2>3. ASSUME NEW x \in Objs
        PROVE  /\ drive'[x].type = "free" => drive'[x].in = Root /\ ~drive'[x].trashed
               /\ drive'[x].in # Root => drive'[drive'[x].in].type = "folder"
               /\ drive'[x].in # Root /\ drive'[drive'[x].in].trashed => drive'[x].trashed
    <3>1. CASE x = o
      BY <1>5, <2>1, <3>1
    <3>2. CASE x # o
      <4>1. drive'[x] = drive[x]
        BY <1>5, <3>2
      <4>2. drive[x].in # Root => drive'[drive[x].in] = drive[drive[x].in]
        BY <1>0, <1>5, <2>2
      <4> QED
        BY <4>1, <4>2 DEF Base, Filed
    <3> QED
      BY <3>1, <3>2
  <2>4. Filed'
    BY <2>3 DEF Filed
  <2>5. PICK level \in [Objs -> 1..MaxDepth] : Levelled(level)
    BY DEF Base, Shallow
  <2>6. /\ MaxPages \in Nat /\ MaxDepth \in Nat /\ pages \in 0..MaxPages
        /\ \A x \in Objs : level[x] \in 1..MaxDepth
        /\ MaxPages < MaxDepth
    BY <2>5, PruneAssumption DEF Base, Typed, Shaped, Shallow
  <2> DEFINE of     == IF f = Root THEN 0 ELSE level[f]
             deeper == [level EXCEPT ![o] = of + 1]
  <2>7. /\ of \in Nat
        /\ \/ f # Root /\ of = level[f] /\ of + (MaxPages - pages) + 1 <= MaxDepth
           \/ f = Root /\ of = 0
    BY <1>5, <2>5, <2>6 DEF Levelled
  <2> HIDE DEF of
  <2>8. of + 1 \in 1..MaxDepth
    BY <2>6, <2>7
  <2>9. deeper \in [Objs -> 1..MaxDepth] /\ deeper[o] = of + 1
        /\ \A x \in Objs : x # o => deeper[x] = level[x]
    BY <2>5, <2>8
  <2> HIDE DEF deeper
  <2>10. ASSUME NEW x \in Objs
         PROVE  /\ deeper[x] + (MaxPages - pages')
                      + (IF drive'[x].type = "folder" THEN 1 ELSE 0) <= MaxDepth
                /\ drive'[x].in # Root => deeper[drive'[x].in] < deeper[x]
    <3>1. CASE x = o
      <4>1. deeper[x] = of + 1 /\ drive'[x].in = f
        BY <1>5, <2>9, <3>1
      <4>2. f # Root => deeper[f] < deeper[x]
        <5>1. f # Root => deeper[f] = level[f] /\ of = level[f]
          BY <2>1, <2>7, <2>9
        <5> QED
          BY <2>7, <4>1, <5>1
      <4>3. CASE type = "doc" /\ pages' = pages /\ f # Root
        <5>1. drive'[x].type = "doc"
          BY <1>5, <3>1, <4>3
        <5>2. deeper[x] + (MaxPages - pages') + 0 <= MaxDepth
          BY <2>6, <2>7, <4>1, <4>3
        <5> QED
          BY <4>1, <4>2, <5>1, <5>2
      <4>4. CASE type = "folder" /\ pages < MaxPages /\ pages' = pages + 1
        <5>1. deeper[x] + (MaxPages - pages') + 1 <= MaxDepth
          BY <2>6, <2>7, <4>1, <4>4
        <5>2. drive'[x].type = "folder"
          BY <1>5, <3>1, <4>4
        <5> QED
          BY <4>1, <4>2, <5>1, <5>2
      <4> QED
        BY <1>5, <4>3, <4>4
    <3>2. CASE x # o
      <4>1. drive'[x] = drive[x] /\ deeper[x] = level[x]
        BY <1>5, <2>9, <3>2
      <4>2. drive[x].in # Root => drive[x].in \in Objs /\ deeper[drive[x].in] = level[drive[x].in]
        BY <1>0, <2>2, <2>9
      <4>3. /\ level[x] + (MaxPages - pages)
                 + (IF drive[x].type = "folder" THEN 1 ELSE 0) <= MaxDepth
            /\ drive[x].in # Root => level[drive[x].in] < level[x]
        BY <2>5 DEF Levelled
      <4>4. pages' \in Nat /\ pages <= pages'
        BY <1>5, <2>6
      <4>5. level[x] + (MaxPages - pages')
                 + (IF drive[x].type = "folder" THEN 1 ELSE 0) <= MaxDepth
        BY <2>6, <4>3, <4>4
      <4> QED
        BY <4>1, <4>2, <4>3, <4>5
    <3> QED
      BY <3>1, <3>2
  <2>11. Levelled(deeper)'
    BY <2>10 DEF Levelled
  <2> QED
    BY <2>4, <2>6, <2>9, <2>11 DEF Shallow
<1>6. CASE MakeFolder
  <2>1. PICK f \in Objs \cup {Root}, o \in Objs :
             /\ f # Root => ~drive[f].trashed /\ drive[f].type = "folder"
             /\ drive[o].type = "free"
             /\ drive' \in [Objs -> Object]
             /\ \A x \in Objs : x # o => drive'[x] = drive[x]
             /\ drive'[o].type = "folder" /\ drive'[o].in = f /\ ~drive'[o].trashed
             /\ w'.pc = "doc" /\ w'.folder = o
             /\ pages < MaxPages /\ pages' = pages + 1
             /\ UNCHANGED <<tracked, p>>
    BY <1>0, <1>6, MakeFolderIs
  <2>2. IF f = Root THEN ~drive'[o].trashed ELSE drive'[o].trashed = drive[f].trashed
    <3>1. drive'[o] \in Object /\ (f # Root => drive[f] \in Object)
      BY <1>0, <2>1
    <3> QED
      BY <2>1, <3>1 DEF Object
  <2>3. Filed' /\ Shallow'
    BY <1>5, <2>1, <2>2
  <2>4. Paired'
    <3>1. \A x \in tracked : x # o
      BY <2>1 DEF Base, Paired
    <3> QED
      BY <1>0, <2>1, <3>1 DEF Base, Paired
  <2> QED
    BY <2>3, <2>4
<1>7. CASE MakeDoc
  <2>1. PICK o \in Objs :
             /\ w.folder \in Objs /\ w.pc = "doc" /\ drive[o].type = "free"
             /\ drive' \in [Objs -> Object]
             /\ \A x \in Objs : x # o => drive'[x] = drive[x]
             /\ drive'[o].type = "doc" /\ drive'[o].in = w.folder
             /\ drive'[o].trashed = drive[w.folder].trashed
             /\ w'.pc = "pair" /\ w'.folder = w.folder /\ w'.doc = o
             /\ UNCHANGED <<tracked, p, pages>>
    BY <1>0, <1>7, MakeDocIs
  <2>2. drive[w.folder].type = "folder" /\ w.folder # Root
    BY <1>0, <2>1 DEF Base, Paired
  <2>3. Filed' /\ Shallow'
    BY <1>5, <2>1, <2>2
  <2>4. Paired'
    <3>1. (\A x \in tracked : x # o) /\ w.folder # o
      BY <2>1, <2>2 DEF Base, Paired
    <3> QED
      BY <1>0, <2>1, <2>2, <3>1 DEF Base, Paired
  <2> QED
    BY <2>3, <2>4
<1>8. CASE UNCHANGED vars
  <2>1. UNCHANGED <<drive, tracked, w, pages>>
    BY <1>8 DEF vars
  <2> QED
    BY <2>1, SameTrees DEF Base, Paired
<1> QED
  BY <1>1, <1>2, <1>3, <1>4, <1>6, <1>7, <1>8 DEF Next, Prune

-----------------------------------------------------------------------------
(* The walk                                                                *)

\* A listing keeps the list right: its entries are new, since what lies in a
\* folder still to be listed was not met before.
LEMMA ListKeeps == ASSUME Base, Walked, List PROVE Walked'
<1>0. Typed /\ Root \notin Objs
  BY PruneAssumption DEF Base
<1>1. PICK k \in p.todo :
         /\ p'.tree = Longer(k)
         /\ p'.todo = (p.todo \ {k}) \cup {j \in New(k) : Folder(Longer(k)[j].id)
                                                        /\ Longer(k)[j].depth < MaxDepth}
         /\ UNCHANGED <<drive, tracked, w, pages>>
  BY <1>0, ListIs
<1> DEFINE N == Longer(k)
           m == Len(p.tree)
<1>2. /\ m \in Nat /\ k \in 1..m
      /\ N \in Seq(Entry) /\ Len(N) \in Nat /\ m <= Len(N)
      /\ \A j \in 1..m : N[j] = p.tree[j]
      /\ \A j \in New(k) : /\ N[j].id \in Kids(p.tree[k].id)
                           /\ N[j].depth = p.tree[k].depth + 1 /\ N[j].up = k
      /\ \A x \in Kids(p.tree[k].id) : \E j \in New(k) : N[j].id = x
      /\ \A i, j \in New(k) : N[i].id = N[j].id => i = j
  BY <1>0, Appended
<1>3. New(k) = (m + 1)..Len(N)
  BY DEF New
<1> HIDE DEF N
<1>4. ASSUME NEW j \in 1..Len(N)
      PROVE  \/ j \in 1..m /\ N[j] = p.tree[j]
             \/ j \in New(k) /\ j \notin 1..m /\ k < j
  BY <1>2, <1>3
<1>5. 1 \in 1..m /\ N[1] = p.tree[1] /\ p.tree[1] = [id |-> Root, depth |-> 0, up |-> 0]
  BY <1>2 DEF Walked, Placed
<1>6. ASSUME NEW j \in New(k)
      PROVE  /\ N[j].id \in Objs /\ Exists(N[j].id) /\ drive[N[j].id].in = p.tree[k].id
             /\ j \in 1..Len(N) /\ m < j /\ j \in Nat
  BY <1>2, <1>3 DEF Kids
<1>7. ASSUME NEW j \in 2..Len(N)
      PROVE  /\ N[j].up \in 1..(j - 1)
             /\ N[j].id \in Objs /\ Exists(N[j].id)
             /\ drive[N[j].id].in = N[N[j].up].id
             /\ N[j].depth = N[N[j].up].depth + 1
  <2>1. CASE j \in 1..m
    <3>1. /\ p.tree[j].up \in 1..(j - 1)
          /\ p.tree[j].id \in Objs /\ Exists(p.tree[j].id)
          /\ drive[p.tree[j].id].in = p.tree[p.tree[j].up].id
          /\ p.tree[j].depth = p.tree[p.tree[j].up].depth + 1
      BY <1>2, <2>1 DEF Walked, Placed
    <3>2. N[j] = p.tree[j] /\ p.tree[j].up \in 1..m
      BY <1>2, <2>1, <3>1
    <3> QED
      BY <1>2, <3>1, <3>2
  <2>2. CASE j \in New(k)
    <3>1. k \in 1..(j - 1)
      BY <1>2, <1>6, <2>2
    <3> QED
      BY <1>2, <1>6, <2>2, <3>1
  <2> QED
    BY <1>2, <1>4, <2>1, <2>2
<1>8. Placed'
  <2>1. N # <<>>
    BY <1>2
  <2>2. N[1] = [id |-> Root, depth |-> 0, up |-> 0]
    BY <1>5
  <2> QED
    BY <1>1, <1>7, <2>1, <2>2 DEF Placed, Exists, N
<1>9. ASSUME NEW i \in 1..m, NEW j \in New(k) PROVE N[i].id # N[j].id
  <2>1. CASE i = 1
    BY <1>0, <1>5, <1>6, <2>1
  <2>2. CASE i # 1
    <3> SUFFICES ASSUME N[i].id = N[j].id PROVE FALSE
      OBVIOUS
    <3>1. i \in 2..m /\ N[i] = p.tree[i]
      BY <1>2, <2>2
    <3>2. p.tree[i].up \in 1..(i - 1) /\ drive[p.tree[i].id].in = p.tree[p.tree[i].up].id
      BY <3>1 DEF Walked, Placed
    <3>3. p.tree[p.tree[i].up].id = p.tree[k].id
      BY <1>6, <3>1, <3>2
    <3>4. p.tree[i].up \in 1..m
      BY <1>2, <3>1, <3>2
    <3>5. p.tree[i].up = k
      BY <1>2, <3>3, <3>4 DEF Walked, Once
    <3> QED
      BY <1>2, <3>5 DEF Walked, Ahead
  <2> QED
    BY <2>1, <2>2
<1>10. Once'
  <2>1. ASSUME NEW i \in 1..Len(N), NEW j \in 1..Len(N), N[i].id = N[j].id PROVE i = j
    <3>1. CASE i \in 1..m /\ j \in 1..m
      BY <1>2, <2>1, <3>1 DEF Walked, Once
    <3>2. CASE i \in 1..m /\ j \in New(k)
      BY <1>9, <2>1, <3>2
    <3>3. CASE i \in New(k) /\ j \in 1..m
      BY <1>9, <2>1, <3>3
    <3>4. CASE i \in New(k) /\ j \in New(k)
      BY <1>2, <2>1, <3>4
    <3> QED
      BY <1>4, <3>1, <3>2, <3>3, <3>4
  <2> QED
    BY <1>1, <2>1 DEF Once, N
<1>11. ASSUME NEW q \in p'.todo
       PROVE  q \in 1..Len(N) /\ \A j \in 1..Len(N) : N[j].up # q
  <2>1. CASE q \in p.todo /\ q # k
    <3>1. q \in 1..m /\ \A j \in 1..m : p.tree[j].up # q
      BY <2>1 DEF Walked, Ahead
    <3>2. q \in 1..Len(N)
      BY <1>2, <3>1
    <3> QED
      BY <1>2, <1>4, <2>1, <3>1, <3>2
  <2>2. CASE q \in New(k)
    <3>1. q \in 1..Len(N) /\ m < q /\ q \in Nat
      BY <1>6, <2>2
    <3>2. ASSUME NEW j \in 1..m PROVE N[j].up # q
      <4>1. N[j].up < j /\ N[j].up \in Nat
        <5>1. N[j] \in Entry
          BY <1>2
        <5> QED
          BY <1>0, <1>2, <5>1 DEF Typed, Entry
      <4> QED
        BY <1>2, <3>1, <4>1
    <3>3. ASSUME NEW j \in New(k) PROVE N[j].up # q
      BY <1>2, <3>1
    <3> QED
      BY <1>4, <3>1, <3>2, <3>3
  <2> QED
    BY <1>1, <2>1, <2>2
<1>12. Ahead'
  BY <1>1, <1>11 DEF Ahead, N
<1>13. ASSUME NEW q \in 1..Len(N), Folder(N[q].id), q = 1 \/ N[q].depth < MaxDepth, q \notin p'.todo,
              NEW x \in Kids(N[q].id)
       PROVE  \E j \in 1..Len(N) : N[j].id = x
  <2>1. CASE q = k
    BY <1>2, <1>6, <2>1
  <2>2. CASE q \in 1..m /\ q # k
    <3>1. q \notin p.todo /\ N[q] = p.tree[q]
      BY <1>1, <1>2, <1>13, <2>2
    <3>2. x \in Ids
      BY <1>13, <2>2, <3>1 DEF Walked, Listed
    <3>3. PICK j \in 1..m : p.tree[j].id = x
      BY <3>2 DEF Ids
    <3>4. j \in 1..Len(N) /\ N[j] = p.tree[j]
      BY <1>2, <3>3
    <3> QED
      BY <3>3, <3>4
  <2>3. CASE q \in New(k)
    <3>1. q # 1
      BY <1>2, <1>6, <2>3
    <3>2. q \in p'.todo
      BY <1>1, <1>13, <2>3, <3>1 DEF N
    <3> QED
      BY <1>13, <3>2
  <2> QED
    BY <1>4, <2>1, <2>2, <2>3
<1>14. Listed'
  BY <1>1, <1>13 DEF Listed, Folder, Kids, Exists, Ids, N
<1> QED
  BY <1>8, <1>10, <1>12, <1>14 DEF Walked

\* Lengths and depths are numbers, and the mirror folder is not one of its objects.
LEMMA Bounded ==
    ASSUME Base
    PROVE  /\ p.tree \in Seq(Entry) /\ Len(p.tree) \in Nat
           /\ MaxDepth \in Nat /\ Root \notin Objs
<1>1. p.tree \in Seq(Entry)
  BY DEF Base, Typed, Shaped
<1>2. MaxDepth \in Nat /\ Root \notin Objs
  BY PruneAssumption
<1> QED
  BY <1>1, <1>2

\* The walk does not go deeper than the levels.
LEMMA DepthIsLevel ==
    ASSUME Base, Placed, NEW level \in [Objs -> 1..MaxDepth], Levelled(level),
           NEW k \in 2..Len(p.tree)
    PROVE  p.tree[k].depth <= level[p.tree[k].id]
<1> DEFINE S == {j \in 2..Len(p.tree) : ~(p.tree[j].depth <= level[p.tree[j].id])}
           of == [j \in 2..Len(p.tree) |-> j]
<1>1. SUFFICES ASSUME S # {} PROVE FALSE
  OBVIOUS
<1>2. p.tree \in Seq(Entry) /\ Len(p.tree) \in Nat /\ MaxDepth \in Nat /\ Root \notin Objs
  BY Bounded
<1>3. \A j \in S : of[j] \in Nat
  BY <1>2
<1>4. PICK j \in S : \A i \in S : of[j] <= of[i]
  <2> HIDE DEF S, of
  <2> QED
    BY <1>1, <1>3, LeastOne
<1>5. j \in 2..Len(p.tree) /\ ~(p.tree[j].depth <= level[p.tree[j].id])
  BY <1>4
<1> DEFINE u == p.tree[j].up
<1>6. /\ u \in 1..(j - 1) /\ p.tree[j].id \in Objs
      /\ drive[p.tree[j].id].in = p.tree[u].id
      /\ p.tree[j].depth = p.tree[u].depth + 1
  BY <1>5 DEF Placed
<1>7. level[p.tree[j].id] \in 1..MaxDepth
  BY <1>6
<1>8. CASE u = 1
  <2>1. p.tree[j].depth = 1
    BY <1>6, <1>8 DEF Placed
  <2> QED
    BY <1>2, <1>5, <1>7, <2>1
<1>9. CASE u # 1
  <2>1. u \in 2..Len(p.tree) /\ u < j
    BY <1>2, <1>5, <1>6, <1>9
  <2>2. u \notin S
    <3>1. of[u] = u /\ of[j] = j
      BY <1>5, <2>1
    <3>2. ~(of[j] <= of[u])
      BY <1>2, <2>1, <3>1
    <3> QED
      BY <1>4, <3>2
  <2>3. p.tree[u].depth <= level[p.tree[u].id]
    BY <2>1, <2>2
  <2>4. p.tree[u].id \in Objs
    BY <2>1 DEF Placed
  <2>5. level[p.tree[u].id] < level[p.tree[j].id]
    BY <1>2, <1>6, <2>4 DEF Levelled
  <2>6. p.tree[u].depth \in Nat /\ level[p.tree[u].id] \in Nat
    <3>1. p.tree[u] \in Entry
      BY <1>2, <2>1
    <3>2. p.tree[u].depth \in Nat
      BY <3>1 DEF Entry
    <3>3. level[p.tree[u].id] \in 1..MaxDepth
      BY <2>4
    <3> QED
      BY <1>2, <3>2, <3>3
  <2> QED
    BY <1>2, <1>5, <1>6, <1>7, <2>3, <2>5, <2>6
<1> QED
  BY <1>8, <1>9

\* When nothing is left to list, the list has everything that exists in Drive.
LEMMA AllListed ==
    ASSUME Base, Walked, p.todo = {}, NEW x \in Objs, Exists(x)
    PROVE  \E k \in 2..Len(p.tree) : p.tree[k].id = x
<1>1. PICK level \in [Objs -> 1..MaxDepth] : Levelled(level)
  BY DEF Base, Shallow
<1>2. MaxDepth \in Nat /\ Root \notin Objs /\ MaxPages \in Nat
  BY PruneAssumption
<1>3. p.tree \in Seq(Entry) /\ pages \in 0..MaxPages
  BY DEF Base, Typed, Shaped
<1>4. Len(p.tree) \in Nat /\ 1 \in 1..Len(p.tree) /\ p.tree[1].id = Root
  <2>1. p.tree # <<>> /\ p.tree[1] = [id |-> Root, depth |-> 0, up |-> 0]
    BY DEF Walked, Placed
  <2> QED
    BY <1>3, <2>1
<1> DEFINE S == {y \in Objs : Exists(y) /\ y \notin Ids}
<1>5. S = {}
  <2> SUFFICES ASSUME S # {} PROVE FALSE
    OBVIOUS
  <2>1. \A y \in S : level[y] \in Nat
    <3>1. \A y \in Objs : level[y] \in 1..MaxDepth
      BY <1>1
    <3> QED
      BY <1>2, <3>1
  <2>2. PICK y \in S : \A z \in S : level[y] <= level[z]
    <3> HIDE DEF S
    <3> QED
      BY <2>1, LeastOne
  <2>3. y \in Objs /\ Exists(y) /\ y \notin Ids
    BY <2>2
  <2>4. drive[y].type # "free" /\ ~drive[y].trashed
    BY <1>2, <2>3 DEF Exists
  <2>5. CASE drive[y].in = Root
    <3>1. Folder(p.tree[1].id) /\ 1 \notin p.todo
      BY <1>4 DEF Folder
    <3>2. Kids(Root) \subseteq Ids
      BY <1>4, <3>1 DEF Walked, Listed
    <3>3. y \in Kids(Root)
      BY <2>3, <2>5 DEF Kids
    <3> QED
      BY <2>3, <3>2, <3>3
  <2>6. CASE drive[y].in # Root
    <3> DEFINE f == drive[y].in
    <3>1. f \in Objs
      <4>1. drive[y] \in Object
        BY <2>3 DEF Base, Typed, Shaped
      <4> QED
        BY <2>6, <4>1 DEF Object
    <3>2. drive[f].type = "folder" /\ ~drive[f].trashed
      BY <2>3, <2>4, <2>6 DEF Base, Filed
    <3>3. Exists(f) /\ Folder(f)
      BY <3>2 DEF Exists, Folder
    <3>4. level[f] < level[y]
      BY <1>1, <2>3, <2>6 DEF Levelled
    <3>5. f \notin S
      <4>1. level[f] \in Nat /\ level[y] \in Nat
        BY <1>1, <1>2, <2>3, <3>1
      <4>2. ~(level[y] <= level[f])
        BY <3>4, <4>1
      <4> QED
        BY <2>2, <4>2
    <3>6. PICK k \in 1..Len(p.tree) : p.tree[k].id = f
      BY <3>1, <3>3, <3>5 DEF Ids
    <3>7. k \in 2..Len(p.tree)
      <4>1. k # 1
        BY <1>2, <1>4, <3>1, <3>6
      <4> QED
        BY <1>4, <4>1
    <3>8. p.tree[k].depth < MaxDepth
      <4>1. p.tree[k].depth <= level[f]
        BY <1>1, <3>6, <3>7, DepthIsLevel DEF Walked
      <4>2. level[y] \in 1..MaxDepth /\ level[f] \in 1..MaxDepth
        BY <1>1, <2>3, <3>1
      <4>3. p.tree[k].depth \in Nat
        <5>1. p.tree[k] \in Entry
          BY <1>3
        <5> QED
          BY <5>1 DEF Entry
      <4> QED
        BY <1>2, <3>4, <4>1, <4>2, <4>3
    <3>9. Kids(f) \subseteq Ids
      BY <3>3, <3>6, <3>8 DEF Walked, Listed
    <3>10. y \in Kids(f)
      BY <2>3 DEF Kids
    <3> QED
      BY <2>3, <3>9, <3>10
  <2> QED
    BY <2>5, <2>6
<1>6. PICK k \in 1..Len(p.tree) : p.tree[k].id = x
  BY <1>5 DEF Ids
<1>7. k # 1
  BY <1>2, <1>4, <1>6
<1> QED
  BY <1>4, <1>6, <1>7

\* What _prune's recursion asks of its answers.
Judged(f) == f = [j \in 1..Len(p.tree) |-> p.tree[j].id \notin p.keep /\ \A i \in KidsOf(j) : f[i]]

\* An orphan is not kept, and its entries below are orphans.
LEMMA OrphansBelow ==
    \E f : /\ \A k \in 1..Len(p.tree) : f[k] => /\ p.tree[k].id \notin p.keep
                                                /\ \A i \in KidsOf(k) : f[i]
           /\ \A k : Orphan(k) <=> f[k]
<1> DEFINE K == 1..Len(p.tree)
           Free(S) == \A j \in S : p.tree[j].id \notin p.keep /\ KidsOf(j) \subseteq S
           G == {j \in K : \E S \in SUBSET K : j \in S /\ Free(S)}
           g == [j \in K |-> j \in G]
           chosen == CHOOSE f : Judged(f)
<1>1. \A j \in K : KidsOf(j) \subseteq K
  BY DEF KidsOf
<1>2. ASSUME NEW j \in K
      PROVE  j \in G <=> (p.tree[j].id \notin p.keep /\ \A i \in KidsOf(j) : g[i])
  <2>1. ASSUME j \in G PROVE p.tree[j].id \notin p.keep /\ \A i \in KidsOf(j) : g[i]
    <3>1. PICK S \in SUBSET K : j \in S /\ Free(S)
      BY <2>1
    <3>2. ASSUME NEW i \in KidsOf(j) PROVE g[i]
      <4>1. i \in S /\ i \in K
        BY <3>1
      <4> QED
        BY <3>1, <4>1
    <3> QED
      BY <3>1, <3>2
  <2>2. ASSUME p.tree[j].id \notin p.keep, \A i \in KidsOf(j) : g[i] PROVE j \in G
    <3> DEFINE S == G \cup {j}
    <3>1. \A i \in KidsOf(j) : i \in G
      BY <1>1, <2>2
    <3>2. ASSUME NEW i \in G PROVE p.tree[i].id \notin p.keep /\ KidsOf(i) \subseteq G
      <4>1. PICK T \in SUBSET K : i \in T /\ Free(T)
        BY <3>2
      <4> QED
        BY <4>1
    <3>3. Free(S)
      BY <2>2, <3>1, <3>2
    <3>4. S \in SUBSET K /\ j \in S
      OBVIOUS
    <3> QED
      BY <3>3, <3>4
  <2> QED
    BY <2>1, <2>2
<1>3. g = [j \in K |-> p.tree[j].id \notin p.keep /\ \A i \in KidsOf(j) : g[i]]
  <2> HIDE DEF G
  <2> QED
    BY <1>2
<1>4. Judged(g)
  <2> HIDE DEF g
  <2> QED
    BY <1>3 DEF Judged
<1>5. Judged(chosen)
  <2> HIDE DEF g
  <2> QED
    BY <1>4
<1>6. \A k : Orphan(k) <=> chosen[k]
  BY DEF Orphan, Judged
<1> HIDE DEF chosen
<1>7. ASSUME NEW k \in K, chosen[k]
      PROVE  p.tree[k].id \notin p.keep /\ \A i \in KidsOf(k) : chosen[i]
  BY <1>5, <1>7 DEF Judged
<1> QED
  BY <1>6, <1>7

\* What is below an object but not the object lies in a folder that is below it too.
LEMMA WithinStep ==
    ASSUME Base, NEW v, NEW x \in Within(v), x # v
    PROVE  /\ x \in Objs /\ Exists(x)
           /\ drive[x].in \in Objs /\ drive[x].in \in Within(v)
           /\ drive[drive[x].in].type = "folder"
<1>1. /\ drive \in [Objs -> Object] /\ Root \notin Objs
      /\ \A y \in Objs : drive[y].in \in Objs \cup {Root}
  BY PruneAssumption DEF Base, Typed, Shaped, Object
<1>2. x \in Objs /\ Exists(x) /\ Chosen(drive, v)[x]
  BY WithinIs
<1>3. drive[x].in # Root /\ Chosen(drive, v)[drive[x].in]
  BY <1>1, <1>2, BelowAt
<1>4. drive[x].in \in Objs
  BY <1>1, <1>2, <1>3
<1>5. ~drive[x].trashed
  BY <1>1, <1>2 DEF Exists
<1>6. drive[drive[x].in].type = "folder" /\ ~drive[drive[x].in].trashed
  BY <1>2, <1>3, <1>5 DEF Base, Filed
<1>7. drive[x].in \in Within(v)
  BY <1>3, <1>4, <1>6, WithinIs DEF Exists
<1> QED
  BY <1>2, <1>4, <1>6, <1>7

\* Where an entry's folder is in the list, the entry is one of the folder's.
LEMMA EntryBelow ==
    ASSUME Base, Walked, NEW i \in 2..Len(p.tree), NEW j \in 1..Len(p.tree),
           drive[p.tree[i].id].in = p.tree[j].id
    PROVE  i \in KidsOf(j)
<1>1. Len(p.tree) \in Nat
  BY DEF Base, Typed, Shaped
<1>2. p.tree[i].up \in 1..(i - 1) /\ drive[p.tree[i].id].in = p.tree[p.tree[i].up].id
  BY DEF Walked, Placed
<1>3. p.tree[i].up \in 1..Len(p.tree) /\ i \in 1..Len(p.tree)
  BY <1>1, <1>2
<1>4. p.tree[i].up = j
  BY <1>2, <1>3 DEF Walked, Once
<1> QED
  BY <1>3, <1>4 DEF KidsOf

\* An entry two folders down is an object that is in an object.
LEMMA DepthOfEntry ==
    ASSUME Base, Walked, NEW j \in 1..Len(p.tree), p.tree[j].depth # 0
    PROVE  /\ j \in 2..Len(p.tree) /\ p.tree[j].id \in Objs
           /\ p.tree[j].depth = 1 => drive[p.tree[j].id].in = Root
           /\ p.tree[j].depth >= 2 => drive[p.tree[j].id].in # Root
<1>1. Len(p.tree) \in Nat /\ p.tree \in Seq(Entry)
  BY DEF Base, Typed, Shaped
<1>2. p.tree[1] = [id |-> Root, depth |-> 0, up |-> 0]
  BY DEF Walked, Placed
<1>3. j \in 2..Len(p.tree)
  <2>1. j # 1
    BY <1>2
  <2> QED
    BY <1>1, <2>1
<1> DEFINE u == p.tree[j].up
<1>4. /\ u \in 1..(j - 1) /\ p.tree[j].id \in Objs
      /\ drive[p.tree[j].id].in = p.tree[u].id
      /\ p.tree[j].depth = p.tree[u].depth + 1
  BY <1>3 DEF Walked, Placed
<1>5. u \in 1..Len(p.tree) /\ 1 \in 1..Len(p.tree)
  BY <1>1, <1>3, <1>4
<1>6. p.tree[u].depth \in Nat
  <2>1. p.tree[u] \in Entry
    BY <1>1, <1>5
  <2> QED
    BY <2>1 DEF Entry
<1>7. CASE u = 1
  BY <1>2, <1>3, <1>4, <1>7
<1>8. CASE u # 1
  <2>1. p.tree[u].id # Root
    BY <1>2, <1>5, <1>8 DEF Walked, Once
  <2>2. p.tree[u].depth # 0
    <3>1. u \in 2..Len(p.tree)
      BY <1>1, <1>5, <1>8
    <3>2. p.tree[u].up \in 1..(u - 1) /\ p.tree[u].depth = p.tree[p.tree[u].up].depth + 1
      BY <3>1 DEF Walked, Placed
    <3>3. p.tree[u].up \in 1..Len(p.tree)
      BY <1>1, <3>1, <3>2
    <3>4. p.tree[p.tree[u].up].depth \in Nat
      <4>1. p.tree[p.tree[u].up] \in Entry
        BY <1>1, <3>3
      <4> QED
        BY <4>1 DEF Entry
    <3> QED
      BY <3>2, <3>4
  <2> QED
    BY <1>3, <1>4, <1>6, <2>1, <2>2
<1> QED
  BY <1>7, <1>8

\* Below an orphan nothing is tracked: the object nearest to the root that was
\* would be listed in a folder whose entries are all orphans.
LEMMA OrphanHolds ==
    ASSUME Base, Walked, p.todo = {}, NEW j \in 2..Len(p.tree), Orphan(j)
    PROVE  Within(p.tree[j].id) \cap p.keep = {}
<1> DEFINE v == p.tree[j].id
<1>1. PICK f :
         /\ \A k \in 1..Len(p.tree) : f[k] => /\ p.tree[k].id \notin p.keep
                                              /\ \A i \in KidsOf(k) : f[i]
         /\ \A k : Orphan(k) <=> f[k]
  BY OrphansBelow
<1>2. PICK level \in [Objs -> 1..MaxDepth] : Levelled(level)
  BY DEF Base, Shallow
<1>3. Len(p.tree) \in Nat /\ MaxDepth \in Nat /\ Root \notin Objs
  BY Bounded
<1> DEFINE S == {x \in Within(v) : \A k \in 2..Len(p.tree) : p.tree[k].id = x => ~f[k]}
<1>4. Within(v) \subseteq Objs
  BY DEF Within
<1>5. S = {}
  <2> SUFFICES ASSUME S # {} PROVE FALSE
    OBVIOUS
  <2>1. \A x \in Objs : level[x] \in Nat
    BY <1>2, <1>3
  <2>2. \A x \in S : level[x] \in Nat
    BY <1>4, <2>1
  <2>3. PICK x \in S : \A y \in S : level[x] <= level[y]
    <3> HIDE DEF S
    <3> QED
      BY <2>2, LeastOne
  <2>4. x \in Within(v) /\ x \in Objs /\ \A k \in 2..Len(p.tree) : p.tree[k].id = x => ~f[k]
    BY <1>4, <2>3
  <2>5. x # v
    BY <1>1, <2>4
  <2> DEFINE y == drive[x].in
  <2>6. Exists(x) /\ y \in Objs /\ y \in Within(v)
    BY <2>4, <2>5, WithinStep
  <2>7. y # Root
    BY <1>3, <2>6
  <2>8. level[y] < level[x]
    BY <1>2, <2>4, <2>7 DEF Levelled
  <2>9. y \notin S
    <3>1. ~(level[x] <= level[y])
      BY <2>1, <2>4, <2>6, <2>8
    <3> QED
      BY <2>3, <3>1
  <2>10. PICK k \in 2..Len(p.tree) : p.tree[k].id = y /\ f[k]
    BY <2>6, <2>9
  <2>11. PICK i \in 2..Len(p.tree) : p.tree[i].id = x
    BY <2>4, <2>6, AllListed
  <2>12. k \in 1..Len(p.tree) /\ drive[p.tree[i].id].in = p.tree[k].id
    BY <1>3, <2>10, <2>11
  <2>13. i \in KidsOf(k)
    BY <2>12, EntryBelow
  <2>14. f[i]
    BY <1>1, <2>10, <2>12, <2>13
  <2> QED
    BY <2>4, <2>11, <2>14
<1>6. ASSUME NEW x \in Within(v) PROVE x \notin p.keep
  <2>1. PICK k \in 2..Len(p.tree) : p.tree[k].id = x /\ f[k]
    BY <1>5, <1>6
  <2>2. k \in 1..Len(p.tree)
    BY <1>3
  <2> QED
    BY <1>1, <2>1, <2>2
<1> QED
  BY <1>6

\* An empty folder has nothing below it.
LEMMA EmptyHolds ==
    ASSUME Base, Walked, p.todo = {}, NEW j \in 2..Len(p.tree), KidsOf(j) = {}
    PROVE  Within(p.tree[j].id) \subseteq {p.tree[j].id}
<1> DEFINE v == p.tree[j].id
           S == Within(v) \ {v}
<1>1. PICK level \in [Objs -> 1..MaxDepth] : Levelled(level)
  BY DEF Base, Shallow
<1>2. Len(p.tree) \in Nat /\ MaxDepth \in Nat /\ Root \notin Objs
  BY Bounded
<1>3. Within(v) \subseteq Objs
  BY DEF Within
<1>4. SUFFICES ASSUME S # {} PROVE FALSE
  OBVIOUS
<1>5. \A x \in Objs : level[x] \in Nat
  BY <1>1, <1>2
<1>6. PICK x \in S : \A y \in S : level[x] <= level[y]
  <2>1. \A x \in S : level[x] \in Nat
    BY <1>3, <1>5
  <2> HIDE DEF S
  <2> QED
    BY <1>4, <2>1, LeastOne
<1>7. x \in Within(v) /\ x # v
  BY <1>6
<1> DEFINE y == drive[x].in
<1>8. x \in Objs /\ Exists(x) /\ y \in Objs /\ y \in Within(v)
  BY <1>7, WithinStep
<1>9. level[y] < level[x]
  BY <1>1, <1>2, <1>8 DEF Levelled
<1>10. y = v
  <2>1. ~(level[x] <= level[y])
    BY <1>5, <1>8, <1>9
  <2> QED
    BY <1>6, <1>8, <2>1
<1>11. PICK i \in 2..Len(p.tree) : p.tree[i].id = x
  BY <1>8, AllListed
<1>12. j \in 1..Len(p.tree) /\ drive[p.tree[i].id].in = p.tree[j].id
  BY <1>2, <1>10, <1>11
<1> QED
  BY <1>12, EntryBelow

\* What Visit condemns holds nothing tracked or is an empty folder directly under the
\* root, and a section is never of it.
LEMMA VisitCondemns == ASSUME Base, Apart, Walked, Visit PROVE Condemned'
<1>1. /\ p.pc = "walk" /\ p.todo = {}
      /\ p'.victims = {p.tree[k].id : k \in {j \in 1..Len(p.tree) :
                              Obsolete(j) \/ (p.tree[j].depth >= 2 /\ Whole(j))}}
      /\ drive' = drive /\ tracked' = tracked
  BY VisitIs DEF Base
<1>2. p.keep = tracked
  BY <1>1 DEF Apart
<1>3. ASSUME NEW j \in 1..Len(p.tree), Obsolete(j) \/ (p.tree[j].depth >= 2 /\ Whole(j))
      PROVE  Spent(p.tree[j].id)
  <2>1. p.tree[j].depth # 0
    BY <1>3 DEF Obsolete
  <2>2. j \in 2..Len(p.tree) /\ p.tree[j].id \in Objs
    BY <2>1, DepthOfEntry
  <2>3. CASE Obsolete(j)
    <3>1. /\ p.tree[j].depth = 1 /\ Folder(p.tree[j].id) /\ KidsOf(j) = {}
          /\ p.tree[j].id \notin Sections
      BY <2>3 DEF Obsolete
    <3>2. drive[p.tree[j].id].in = Root
      BY <2>1, <3>1, DepthOfEntry
    <3>3. Within(p.tree[j].id) \subseteq {p.tree[j].id}
      BY <1>1, <2>2, <3>1, EmptyHolds
    <3> QED
      BY <3>1, <3>2, <3>3 DEF Spent
  <2>4. CASE p.tree[j].depth >= 2 /\ Whole(j)
    <3>1. drive[p.tree[j].id].in # Root
      BY <2>1, <2>4, DepthOfEntry
    <3>2. Within(p.tree[j].id) \cap p.keep = {}
      BY <1>1, <2>2, <2>4, OrphanHolds DEF Whole
    <3> QED
      BY <1>2, <3>1, <3>2 DEF Spent
  <2> QED
    BY <1>3, <2>3, <2>4
<1>4. ASSUME NEW v \in p'.victims PROVE Spent(v)
  BY <1>1, <1>3, <1>4
<1>5. ASSUME NEW v PROVE Within(v)' = Within(v) /\ (Folder(v)' <=> Folder(v))
  BY <1>1, WithinIs, WithinIsThen DEF Exists, Folder
<1> QED
  BY <1>1, <1>4, <1>5 DEF Condemned, Spent, Folder

-----------------------------------------------------------------------------
(* The trashing                                                            *)

\* What is below an object that is below v is below v.
LEMMA WithinWithin ==
    ASSUME Base, NEW v, NEW o \in Within(v)
    PROVE  Within(o) \subseteq Within(v)
<1>1. PICK level \in [Objs -> 1..MaxDepth] : Levelled(level)
  BY DEF Base, Shallow
<1>2. drive \in [Objs -> Object] /\ \A x \in Objs : drive[x].in # Root => level[drive[x].in] < level[x]
  BY <1>1 DEF Base, Typed, Shaped, Levelled
<1>3. level \in [Objs -> Nat]
  BY <1>1, Bounded
<1>4. Chosen(drive, v)[o]
  BY WithinIs
<1>5. ASSUME NEW x \in Objs, Chosen(drive, o)[x] PROVE Chosen(drive, v)[x]
  BY <1>2, <1>3, <1>4, <1>5, BelowIsBelow
<1> QED
  BY <1>5, WithinIs

\* Trashing takes from what exists below an object and adds nothing to it.
LEMMA WithinShrinks ==
    ASSUME Base, drive' \in [Objs -> Object],
           \A x \in Objs : /\ drive'[x].type = drive[x].type /\ drive'[x].in = drive[x].in
                           /\ drive[x].trashed => drive'[x].trashed,
           NEW u
    PROVE  Within(u)' \subseteq Within(u)
<1>1. PICK level \in [Objs -> 1..MaxDepth] : Levelled(level)
  BY DEF Base, Shallow
<1>2. drive \in [Objs -> Object] /\ \A x \in Objs : drive[x].in # Root => level[drive[x].in] < level[x]
  BY <1>1 DEF Base, Typed, Shaped, Levelled
<1>3. level \in [Objs -> Nat]
  BY <1>1, Bounded
<1>4. u \in Objs => Chosen(drive, u)[u]
  BY <1>2, BelowAt
<1>5. ASSUME NEW x \in Objs, Chosen(drive', u)[x] PROVE Chosen(drive, u)[x]
  <2>1. PICK d : d = drive'
    OBVIOUS
  <2>2. \A y \in Objs : d[y].in # Root => level[d[y].in] < level[y]
    BY <1>2, <2>1
  <2>3. d \in [Objs -> Object] /\ \A y \in Objs : d[y].in = drive[y].in
    BY <2>1
  <2>4. Chosen(d, u)[x]
    BY <1>5, <2>1
  <2> QED
    BY <1>2, <1>3, <1>4, <2>2, <2>3, <2>4, BelowIsBelow
<1>6. ASSUME NEW x \in Objs, Exists(x)' PROVE Exists(x)
  BY <1>6, Bounded DEF Exists
<1> QED
  BY <1>5, <1>6, WithinIs, WithinIsThen

\* What a step may trash: only Trash does, and what is below a victim.
LEMMA WhatIsTrashed ==
    ASSUME Base, Apart, [Next]_vars, NEW o \in Objs, drive'[o].trashed, ~drive[o].trashed
    PROVE  \E v \in p.victims : p.pc = "trash" /\ o \in Within(v)
<1>0. Typed
  BY DEF Base
<1>1. CASE Trash
  BY <1>0, <1>1, TrashIs
<1>2. CASE MakeFolder
  <2>1. PICK x \in Objs : /\ \A y \in Objs : y # x => drive'[y] = drive[y]
                          /\ ~drive'[x].trashed
    BY <1>0, <1>2, MakeFolderIs
  <2> QED
    BY <2>1
<1>3. CASE MakeDoc
  <2>1. PICK x \in Objs : /\ \A y \in Objs : y # x => drive'[y] = drive[y]
                          /\ drive'[x].trashed = drive[w.folder].trashed /\ w.pc = "doc"
    BY <1>0, <1>3, MakeDocIs
  <2>2. ~drive[w.folder].trashed
    BY <2>1 DEF Apart
  <2> QED
    BY <2>1, <2>2
<1>4. CASE StartPrune \/ List \/ Visit \/ EndPrune \/ ListFails \/ Crash \/ Record
  BY <1>4 DEF StartPrune, List, Visit, EndPrune, ListFails, Crash, Record
<1>5. CASE UNCHANGED vars
  BY <1>5 DEF vars
<1> QED
  BY <1>1, <1>2, <1>3, <1>4, <1>5 DEF Next, Prune

\* A folder directly under the root with nothing but itself below it holds nothing.
LEMMA NothingIn ==
    ASSUME Base, NEW v \in Objs, drive[v].in = Root, Within(v) \subseteq {v}
    PROVE  Kids(v) = {}
<1>0. drive \in [Objs -> Object] /\ Root \notin Objs
  BY Bounded DEF Base, Typed, Shaped
<1>1. Chosen(drive, v)[v]
  BY <1>0, BelowAt
<1> SUFFICES ASSUME NEW x \in Kids(v) PROVE FALSE
  OBVIOUS
<1>2. x \in Objs /\ Exists(x) /\ drive[x].in = v
  BY DEF Kids
<1>3. Chosen(drive, v)[x]
  BY <1>0, <1>1, <1>2, BelowAt
<1>4. x \in Within(v)
  BY <1>2, <1>3, WithinIs
<1> QED
  BY <1>0, <1>2, <1>4

\* What was made stays what it is and where it is.
LEMMA Lasting ==
    ASSUME Typed, [Next]_vars, NEW o \in Objs, drive[o].type # "free"
    PROVE  drive'[o].in = drive[o].in /\ drive'[o].type = drive[o].type
<1>1. CASE Trash
  BY <1>1, TrashIs
<1>2. CASE MakeFolder
  BY <1>2, MakeFolderIs
<1>3. CASE MakeDoc
  BY <1>3, MakeDocIs
<1>4. CASE drive' = drive
  BY <1>4
<1>5. Trash \/ MakeFolder \/ MakeDoc \/ drive' = drive
  BY DEF Next, Prune, StartPrune, List, Visit, EndPrune, ListFails, Crash, Record, vars
<1> QED
  BY <1>1, <1>2, <1>3, <1>4, <1>5

-----------------------------------------------------------------------------
(* The theorems                                                            *)

\* At the start nobody sweeps and nothing that is tracked is in the trash.
LEMMA IInit == ASSUME InReach PROVE Init => IInv
<1> SUFFICES ASSUME Init PROVE IInv
  OBVIOUS
<1>1. Base
  BY BaseInit
<1>2. p.pc = "idle" /\ w.pc = "idle"
  BY AsleepIs DEF Init, NoPage
<1>3. PICK in \in Trees, docs \in SUBSET (Planted \ Sections) :
         /\ drive = [o \in Objs |-> IF o \notin Planted THEN Made("free", Root)
                                   ELSE Made(IF o \in docs THEN "doc" ELSE "folder", in[o])]
  BY DEF Init
<1>4. ASSUME NEW o \in Objs PROVE ~drive[o].trashed
  BY <1>3 DEF Made
<1>5. KeepsTracked
  BY <1>1, <1>4 DEF KeepsTracked, Base, Typed, Shaped
<1> QED
  BY <1>1, <1>2, <1>5 DEF IInv, Apart

\* Every step keeps it.  Under the lock no page is mirrored during a sweep, so
\* the list stays what Drive holds, and what was read of the ledger what it tracks.
LEMMA IStep == ASSUME Locked PROVE IInv /\ [Next]_vars => IInv'
<1> SUFFICES ASSUME IInv, [Next]_vars PROVE IInv'
  OBVIOUS
<1>0. Base /\ Base' /\ Apart /\ Typed /\ drive \in [Objs -> Object] /\ tracked \subseteq Objs
  BY BaseStep DEF IInv, Base, Typed, Shaped
<1>1. Apart' /\ (p'.pc = "walk" => Walked') /\ (p'.pc = "trash" => Condemned')
  <2>1. CASE StartPrune
    <3>1. /\ Alone /\ p'.pc = "walk" /\ p'.keep = tracked /\ p'.todo = {1}
          /\ Len(p'.tree) = 1 /\ p'.tree[1] = [id |-> Root, depth |-> 0, up |-> 0]
          /\ UNCHANGED <<drive, tracked, w, pages>>
      BY <1>0, <2>1, StartPruneIs
    <3>2. w'.pc = "idle"
      BY <3>1 DEF Alone
    <3>3. Apart'
      BY <3>1, <3>2 DEF Apart
    <3>4. \A k \in 1..Len(p'.tree) : k = 1
      BY <3>1
    <3>5. Placed'
      <4>1. p'.tree # <<>>
        BY <3>1
      <4>2. 2..Len(p'.tree) = {}
        BY <3>1
      <4> QED
        BY <3>1, <4>1, <4>2 DEF Placed
    <3>6. Once'
      BY <3>4 DEF Once
    <3>7. Ahead'
      <4>1. 1 \in 1..Len(p'.tree) /\ p'.tree[1].up = 0
        BY <3>1
      <4> QED
        BY <3>1, <3>4, <4>1 DEF Ahead
    <3>8. Listed'
      BY <3>1, <3>4 DEF Listed
    <3> QED
      BY <3>1, <3>3, <3>5, <3>6, <3>7, <3>8 DEF Walked
  <2>2. CASE List
    <3>1. /\ p.pc = "walk" /\ p'.pc = "walk" /\ p'.keep = p.keep
          /\ UNCHANGED <<drive, tracked, w, pages>>
      BY <1>0, <2>2, ListIs
    <3>2. Walked'
      BY <1>0, <2>2, <3>1, ListKeeps DEF IInv
    <3> QED
      BY <3>1, <3>2 DEF IInv, Apart
  <2>3. CASE Visit
    <3>1. /\ p.pc = "walk" /\ p'.pc = "trash" /\ p'.keep = p.keep
          /\ UNCHANGED <<drive, tracked, w, pages>>
      BY <1>0, <2>3, VisitIs
    <3>2. Condemned'
      BY <1>0, <2>3, <3>1, VisitCondemns DEF IInv
    <3> QED
      BY <3>1, <3>2 DEF IInv, Apart
  <2>4. CASE Trash
    <3>1. PICK v \in p.victims :
             /\ p.pc = "trash" /\ p'.pc = "trash" /\ p'.keep = p.keep
             /\ p'.victims = p.victims \ {v}
             /\ drive' \in [Objs -> Object]
             /\ \A x \in Objs : /\ drive'[x].type = drive[x].type /\ drive'[x].in = drive[x].in
                                /\ \/ drive'[x].trashed = drive[x].trashed
                                   \/ drive'[x].trashed /\ x \in Within(v)
             /\ UNCHANGED <<tracked, w, pages>>
      BY <1>0, <2>4, TrashIs
    <3>2. Apart'
      BY <3>1 DEF IInv, Apart
    <3>3. \A x \in Objs : /\ drive'[x].type = drive[x].type /\ drive'[x].in = drive[x].in
                          /\ drive[x].trashed => drive'[x].trashed
      BY <3>1
    <3>4. ASSUME NEW u \in p'.victims
          PROVE  IF drive'[u].in = Root
                 THEN u \notin Sections /\ Folder(u)' /\ Within(u)' \subseteq {u}
                 ELSE Within(u)' \cap tracked' = {}
      <4>1. u \in p.victims /\ u \in Objs
        BY <1>0, <3>1, <3>4 DEF Typed, Shaped
      <4>2. Spent(u)
        BY <3>1, <4>1 DEF IInv, Condemned
      <4>3. Within(u)' \subseteq Within(u)
        BY <1>0, <3>1, <3>3, WithinShrinks
      <4> QED
        BY <3>1, <3>3, <4>1, <4>2, <4>3 DEF Folder, Spent
    <3>5. Condemned'
      BY <3>4 DEF Condemned, Spent, Folder
    <3> QED
      BY <3>1, <3>2, <3>5
  <2>5. CASE EndPrune \/ ListFails
    <3>1. p' = Asleep /\ UNCHANGED <<drive, tracked, w>>
      BY <2>5 DEF EndPrune, ListFails
    <3> QED
      BY <3>1, AsleepIs DEF IInv, Apart
  <2>6. CASE Crash
    <3>1. p' = Asleep /\ w'.pc = "idle"
      BY <2>6 DEF Crash, NoPage
    <3> QED
      BY <3>1, AsleepIs DEF Apart
  <2>7. CASE MakeFolder
    <3>1. PICK f \in Objs \cup {Root}, o \in Objs :
             /\ ~drive'[o].trashed
             /\ w'.pc = "doc" /\ w'.folder = o
             /\ UNCHANGED <<tracked, p>>
      BY <1>0, <2>7, MakeFolderIs
    <3>2. p.pc = "idle"
      BY <2>7 DEF MakeFolder, Alone
    <3> QED
      BY <3>1, <3>2 DEF Apart
  <2>8. CASE MakeDoc
    <3>1. PICK o \in Objs :
             /\ w.pc = "doc" /\ drive[o].type = "free" /\ w.folder \in Objs
             /\ \A x \in Objs : x # o => drive'[x] = drive[x]
             /\ drive'[o].trashed = drive[w.folder].trashed
             /\ w'.pc = "pair" /\ w'.folder = w.folder /\ w'.doc = o
             /\ UNCHANGED <<tracked, p, pages>>
      BY <1>0, <2>8, MakeDocIs
    <3>2. p.pc = "idle" /\ ~drive[w.folder].trashed /\ drive[w.folder].type = "folder"
      BY <1>0, <3>1 DEF Apart, Base, Paired
    <3>3. w.folder # o
      BY <3>1, <3>2
    <3> QED
      BY <3>1, <3>2, <3>3 DEF Apart
  <2>9. CASE Record
    <3>1. w.pc = "pair" /\ w'.pc = "idle" /\ p' = p
      BY <1>0, <2>9, RecordIs
    <3>2. p.pc = "idle"
      BY <1>0, <3>1 DEF Apart
    <3> QED
      BY <3>1, <3>2 DEF Apart
  <2>10. CASE UNCHANGED vars
    <3>1. UNCHANGED <<drive, tracked, p, w>>
      BY <2>10 DEF vars
    <3>2. ASSUME NEW v PROVE Within(v)' = Within(v)
      BY <3>1, WithinIs, WithinIsThen DEF Exists
    <3> QED
      BY <3>1, <3>2 DEF IInv, Apart, Walked, Placed, Once, Ahead, Listed, Ids, Kids, Exists,
                        Folder, Condemned, Spent
  <2> QED
    BY <2>1, <2>2, <2>3, <2>4, <2>5, <2>6, <2>7, <2>8, <2>9, <2>10 DEF Next, Prune
<1>2. ASSUME NEW o \in tracked, drive'[o].trashed PROVE (o \in Deserted)'
  <2>1. o \in Objs /\ drive[o].type # "free"
    BY <1>0 DEF Base, Paired
  <2>2. o \in Deserted
    <3>1. CASE drive[o].trashed
      BY <3>1 DEF IInv, KeepsTracked
    <3>2. CASE ~drive[o].trashed
      <4>1. PICK v \in p.victims : p.pc = "trash" /\ o \in Within(v)
        BY <1>0, <1>2, <2>1, <3>2, WhatIsTrashed
      <4>2. Spent(v) /\ v \in Objs
        BY <1>0, <4>1 DEF IInv, Condemned, Typed, Shaped
      <4>3. drive[v].in = Root
        BY <4>1, <4>2 DEF Spent
      <4>4. o = v /\ v \notin Sections /\ Folder(v) /\ Within(v) \subseteq {v}
        BY <4>1, <4>2, <4>3 DEF Spent
      <4> QED
        BY <1>0, <4>2, <4>3, <4>4, NothingIn DEF Deserted, Depth1
    <3> QED
      BY <3>1, <3>2
  <2>3. drive'[o].in = drive[o].in /\ drive'[o].type = drive[o].type
    BY <1>0, <2>1, Lasting
  <2>4. Kids(o)' = {}
    <3>1. Filed' /\ Root \notin Objs
      BY <1>0, Bounded DEF Base
    <3> QED
      BY <1>2, <2>1, <3>1 DEF Kids, Exists, Filed
  <2> QED
    BY <2>1, <2>2, <2>3, <2>4 DEF Deserted, Depth1, Folder
<1>3. KeepsTracked'
  <2>1. CASE Record
    <3>1. /\ w.pc = "pair" /\ tracked' = tracked \cup {w.folder, w.doc} /\ drive' = drive
      BY <1>0, <2>1, RecordIs
    <3>2. ~drive[w.folder].trashed /\ ~drive[w.doc].trashed
      BY <1>0, <3>1 DEF Apart
    <3> QED
      BY <1>2, <3>1, <3>2 DEF KeepsTracked
  <2>2. CASE tracked' = tracked
    BY <1>2, <2>2 DEF KeepsTracked
  <2>3. Record \/ tracked' = tracked
    BY DEF Next, Prune, StartPrune, List, Visit, Trash, EndPrune, ListFails, Crash, MakeFolder,
           MakeDoc, vars
  <2> QED
    BY <2>1, <2>2, <2>3
<1> QED
  BY <1>0, <1>1, <1>3 DEF IInv

\* What the ledger tracks is never trashed by the sweep, but for a page's folder
\* that lies directly under the root and is empty, for any trees whose bottom the
\* walk reaches, when the mirroring takes the lock (jobs.py; the keep set and the
\* judgement are mirror_out.py _prune_untracked).  Both conditions are
\* needed: the folder at max_depth of MCPruneTree_deep and the page the webhook
\* mirrors beside a sweep in MCPruneTree_webhook break it.
THEOREM TheTrackedAreKept == ASSUME Locked, InReach PROVE Spec => []KeepsTracked
<1>1. Init => IInv
  BY IInit
<1>2. IInv /\ [Next]_vars => IInv'
  BY IStep
<1>3. IInv => KeepsTracked
  BY DEF IInv
<1> QED
  BY <1>1, <1>2, <1>3, PTL DEF Spec

\* And what is trashed is an orphan, with nothing tracked anywhere below it, or
\* an empty folder under the mirror folder that no section goes by.
THEOREM NothingElseIsTrashed == ASSUME Locked, InReach PROVE Spec => OnlyOrphans
<1> DEFINE Step == \A o \in Objs : drive'[o].trashed /\ ~drive[o].trashed =>
                                       o \in Orphans \cup Deserted
<1>1. IInv /\ [Next]_vars => Step
  <2> SUFFICES ASSUME IInv, [Next]_vars,
                      NEW o \in Objs, drive'[o].trashed, ~drive[o].trashed
               PROVE  o \in Orphans \cup Deserted
    OBVIOUS
  <2>0. Base /\ Apart
    BY DEF IInv
  <2>1. PICK v \in p.victims : p.pc = "trash" /\ o \in Within(v)
    BY <2>0, WhatIsTrashed
  <2>2. Spent(v) /\ v \in Objs
    BY <2>0, <2>1 DEF IInv, Condemned, Base, Typed, Shaped
  <2>4. Exists(o)
    BY <2>1, WithinIs
  <2>5. CASE drive[v].in = Root
    <3>1. o = v /\ v \notin Sections /\ Folder(v) /\ Within(v) \subseteq {v}
      BY <2>1, <2>2, <2>5 DEF Spent
    <3> QED
      BY <2>0, <2>2, <2>5, <3>1, NothingIn DEF Deserted, Depth1
  <2>6. CASE drive[v].in # Root
    <3>1. Within(v) \cap tracked = {}
      BY <2>2, <2>6 DEF Spent
    <3>2. Within(o) \cap tracked = {}
      BY <2>0, <2>1, <3>1, WithinWithin
    <3>3. drive[o].in # Root
      BY <2>0, <2>1, <2>6, WithinStep, Bounded
    <3> QED
      BY <2>4, <3>2, <3>3 DEF Orphans, Depth1
  <2> QED
    BY <2>5, <2>6
<1>2. Init => IInv
  BY IInit
<1>3. IInv /\ [Next]_vars => IInv'
  BY IStep
<1>4. Step => (\A o \in Objs : drive'[o].trashed /\ ~drive[o].trashed =>
                                  o \in Orphans \cup Deserted)
  OBVIOUS
<1> HIDE DEF Step
<1> QED
  BY <1>1, <1>2, <1>3, <1>4, PTL DEF Spec, OnlyOrphans
=============================================================================
