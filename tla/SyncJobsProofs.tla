--------------------------- MODULE SyncJobsProofs ---------------------------
(***************************************************************************)
(* What the mirror lock gives, for any number of jobs, requests, pages and *)
(* failures.                                                               *)
(***************************************************************************)
EXTENDS SyncJobs, FiniteSetTheorems, TLAPS

\* The lock is held by exactly the job that is at work under it.
LockOK == \A a \in Locked : pc[a] \in Inside <=> lock = a

\* What an engine has in hand: a page it was asked for, its folder, and an
\* answer of the SELECT that is still true when the row is committed.
ReachOK == \A a \in Actors : todo[a] \subseteq Reach[a] /\ page[a] \in Reach[a] \cup {Null}
HandOK  == \A a \in Actors :
    /\ pc[a] \in {"folder", "select", "commit"} => page[a] \in Pages
    /\ pc[a] \in {"select", "commit"} => found[a] \in Folders
FreshOK == \A a \in Actors : pc[a] = "commit" => (exists[a] <=> RowsOf(page[a]) # {})

\* No page is within reach of a caller that takes no lock and of anyone else.
Apart == \A a, b \in Actors : a # b /\ Reach[a] \cap Reach[b] # {} => a \in Locked /\ b \in Locked

TInv == TypeOK /\ LockOK /\ ReachOK /\ HandOK
IInv == TInv /\ FreshOK /\ OneRow

-----------------------------------------------------------------------------
\* At startup nobody runs and the lock is free.
LEMMA InitTInv == Init => TInv
<1> SUFFICES ASSUME Init PROVE TInv
  OBVIOUS
<1>1. TypeOK
  <2>1. pc \in [Actors -> Inside \cup {"off", "mark", "acquire", "unmark", "ended"}]
    BY DEF Init
  <2>2. made \in [Pages -> 0..MaxFolders] /\ fails \in Nat
    BY BoundAssumption DEF Init
  <2>3. running \in BOOLEAN /\ exists \in [Actors -> BOOLEAN]
    BY DEF Init
  <2> QED
    BY <2>1, <2>2, <2>3 DEF Init, TypeOK
<1>2. LockOK
  BY ActorsAssumption DEF Init, LockOK, Inside, Steps, Actors
<1>3. ReachOK /\ HandOK
  BY ReachAssumption DEF Init, ReachOK, HandOK
<1> QED
  BY <1>1, <1>2, <1>3 DEF TInv

\* Starting and leaving move one caller and touch no row.
LEMMA StartTInv ==
    ASSUME TInv, NEW a \in Actors, Begin(a) \/ Mark(a) \/ Skip(a) \/ Done(a) \/ Unmark(a)
    PROVE  TInv'
<1> USE DEF TInv
<1>1. UNCHANGED <<rows, made, page, found, exists, fails, lock>>
  BY DEF Begin, Fire, Post, Call, Hook, Mark, Skip, Done, Unmark, Data
<1>2. PICK l \in {"acquire", "mark", "pick", "ended", "leave", "off"} :
         /\ pc' = [pc EXCEPT ![a] = l]
         /\ a \in Locked => (l \in Inside <=> pc[a] \in Inside)
  BY ActorsAssumption
     DEF Begin, Fire, Post, Call, Hook, Mark, Skip, Done, Unmark, Goto, Inside, Steps,
         Unlocked, OnLoop, Locked
<1>3. todo' \in [Actors -> SUBSET Pages] /\ \A b \in Actors : todo'[b] \subseteq Reach[b]
  <2>1. todo' = todo \/ \E ps \in {{}} \cup {{p} : p \in Reach[a]} : todo' = [todo EXCEPT ![a] = ps]
    BY DEF Begin, Fire, Post, Call, Hook, Mark, Skip, Done, Unmark, MayMirror
  <2>2. todo \in [Actors -> SUBSET Pages] /\ \A b \in Actors : todo[b] \subseteq Reach[b]
    BY DEF TypeOK, ReachOK
  <2> QED
    BY <2>1, <2>2, ReachAssumption
<1>4. loop' \in OnLoop \cup {Free}
  BY DEF Begin, Fire, Post, Call, Hook, Mark, Skip, Done, Unmark, TypeOK
<1>5. running' \in BOOLEAN
  BY Zenon DEF Begin, Fire, Post, Call, Hook, Mark, Skip, Done, Unmark, Stopped, TypeOK
<1>6. TypeOK'
  BY <1>1, <1>2, <1>3, <1>4, <1>5 DEF TypeOK, Inside, Steps
<1>7. LockOK'
  BY <1>1, <1>2 DEF LockOK, TypeOK, Actors
<1>8. ReachOK'
  BY <1>1, <1>3 DEF ReachOK
<1>9. HandOK'
  BY <1>1, <1>2 DEF HandOK, TypeOK
<1> QED
  BY <1>6, <1>7, <1>8, <1>9

\* Taking the lock.
LEMMA AcquireTInv ==
    ASSUME TInv, NEW a \in Actors, Acquire(a)
    PROVE  TInv'
<1> USE DEF TInv
<1>1. UNCHANGED <<rows, made, page, found, exists, fails, loop, running>>
      /\ lock = Free /\ lock' = a /\ a \in Locked /\ pc' = [pc EXCEPT ![a] = "pick"]
  BY DEF Acquire, Data, Taken, Goto
<1>2. todo' \in [Actors -> SUBSET Pages] /\ \A b \in Actors : todo'[b] \subseteq Reach[b]
  BY ReachAssumption DEF Acquire, TypeOK, ReachOK
<1>3. TypeOK'
  BY <1>1, <1>2 DEF TypeOK, Inside, Steps
<1>4. LockOK'
  BY <1>1, ActorsAssumption DEF LockOK, TypeOK, Actors, Inside, Steps
<1>5. ReachOK' /\ HandOK'
  BY <1>1, <1>2 DEF ReachOK, HandOK, TypeOK
<1> QED
  BY <1>3, <1>4, <1>5

\* A step of the engine keeps the lock where it is.
LEMMA EngineTInv ==
    ASSUME TInv, NEW a \in Actors,
           Folder(a) \/ Select(a) \/ Commit(a) \/ Fail(a) \/ \E p \in Pages : Look(a, p)
    PROVE  TInv'
<1> USE DEF TInv
<1>1. UNCHANGED <<lock, loop, running>> /\ pc[a] \in Steps
  BY DEF Folder, Select, Commit, Fail, Look, Rest, Steps
<1>2. PICK l \in Inside : pc' = [pc EXCEPT ![a] = l]
  BY DEF Folder, Select, Commit, Fail, Look, Goto, Inside, Steps
<1>3. LockOK'
  BY <1>1, <1>2 DEF LockOK, TypeOK, Actors, Inside
<1>4. CASE \E p \in Pages : Look(a, p)
  <2>1. PICK p \in Pages : Look(a, p)
    BY <1>4
  <2>2. /\ todo' = [todo EXCEPT ![a] = todo[a] \ {p}] /\ p \in todo[a]
        /\ page' = [page EXCEPT ![a] = p] /\ pc' = [pc EXCEPT ![a] = "folder"]
        /\ UNCHANGED <<rows, made, exists, fails>>
    BY <2>1 DEF Look, Goto
  <2>3. found' \in [Actors -> Folders \cup {Null}] /\ \A b \in Actors \ {a} : found'[b] = found[b]
    BY <2>1 DEF Look, RowsOf, SyncPair, TypeOK
  <2>4. TypeOK'
    BY <1>1, <1>2, <2>2, <2>3 DEF TypeOK, Inside
  <2>5. ReachOK' /\ HandOK'
    BY <2>2, <2>3 DEF TypeOK, ReachOK, HandOK
  <2> QED
    BY <1>3, <2>4, <2>5
<1>5. CASE Folder(a)
  <2>1. /\ pc[a] = "folder" /\ page[a] \in Pages /\ pc' = [pc EXCEPT ![a] = "select"]
        /\ UNCHANGED <<rows, todo, page, exists, fails>>
    BY <1>5 DEF Folder, Goto, HandOK
  <2>2. /\ made' \in [Pages -> 0..MaxFolders] /\ found' \in [Actors -> Folders \cup {Null}]
        /\ found'[a] \in Folders /\ \A b \in Actors \ {a} : found'[b] = found[b]
    <3>1. CASE found[a] # Null /\ UNCHANGED <<found, made>>
      BY <3>1 DEF TypeOK
    <3>2. CASE /\ made[page[a]] < MaxFolders
               /\ made' = [made EXCEPT ![page[a]] = made[page[a]] + 1]
               /\ found' = [found EXCEPT ![a] = made[page[a]] + 1]
      <4>1. made[page[a]] + 1 \in 1..MaxFolders
        BY <2>1, <3>2, BoundAssumption DEF TypeOK
      <4> QED
        BY <2>1, <3>2, <4>1, BoundAssumption DEF TypeOK, Folders
    <3> QED
      BY <1>5, <3>1, <3>2 DEF Folder
  <2>3. TypeOK'
    BY <1>1, <1>2, <2>1, <2>2 DEF TypeOK, Inside
  <2>4. ReachOK' /\ HandOK'
    BY <2>1, <2>2 DEF TypeOK, ReachOK, HandOK
  <2> QED
    BY <1>3, <2>3, <2>4
<1>6. CASE Select(a)
  <2>1. /\ pc[a] = "select" /\ pc' = [pc EXCEPT ![a] = "commit"]
        /\ exists' = [exists EXCEPT ![a] = RowsOf(page[a]) # {}]
        /\ UNCHANGED <<rows, made, todo, page, found, fails>>
    BY <1>6 DEF Select, Goto
  <2>2. exists' \in [Actors -> BOOLEAN]
    BY <2>1 DEF TypeOK
  <2>3. TypeOK'
    BY <1>1, <1>2, <2>1, <2>2 DEF TypeOK, Inside
  <2>4. ReachOK' /\ HandOK'
    BY <2>1 DEF TypeOK, ReachOK, HandOK
  <2> QED
    BY <1>3, <2>3, <2>4
<1>7. CASE Commit(a) \/ Fail(a)
  <2>1. /\ page' = [page EXCEPT ![a] = Null] /\ found' = [found EXCEPT ![a] = Null]
        /\ exists' = [exists EXCEPT ![a] = FALSE] /\ UNCHANGED <<made, todo>>
        /\ pc'[a] \in {"pick", "leave"}
    BY <1>7 DEF Commit, Fail, Forget, Goto, TypeOK
  <2>2. rows' \subseteq SyncPair
    BY <1>7 DEF Commit, Fail, TypeOK, HandOK, SyncPair, RowsOf
  <2>3. fails' \in Nat
    BY <1>7 DEF Commit, Fail, TypeOK
  <2>4. TypeOK'
    BY <1>1, <1>2, <2>1, <2>2, <2>3 DEF TypeOK, Inside
  <2>5. ReachOK' /\ HandOK'
    BY <1>2, <2>1 DEF TypeOK, ReachOK, HandOK
  <2> QED
    BY <1>3, <2>4, <2>5
<1> QED
  BY <1>4, <1>5, <1>6, <1>7

\* Giving the lock back.
LEMMA LeaveTInv ==
    ASSUME TInv, NEW a \in Actors, Leave(a) \/ End(a)
    PROVE  TInv'
<1> USE DEF TInv
<1>1. UNCHANGED <<rows, made, page, found, exists, fails, running>>
  BY DEF Leave, End, Data
<1>2. todo' \in [Actors -> SUBSET Pages] /\ \A b \in Actors : todo'[b] \subseteq Reach[b]
  BY DEF Leave, End, TypeOK, ReachOK
<1>3. PICK l \in {"unmark", "ended", "off"} : pc' = [pc EXCEPT ![a] = l]
  BY DEF Leave, End, Goto
<1>4. lock' \in Locked \cup {Free} /\ loop' \in OnLoop \cup {Free}
  BY DEF Leave, End, TypeOK
<1>5. TypeOK'
  BY <1>1, <1>2, <1>3, <1>4 DEF TypeOK, Inside, Steps
<1>6. LockOK'
  <2>1. CASE Leave(a)
    BY <1>3, <2>1, ActorsAssumption DEF Leave, LockOK, TypeOK, Actors, Inside, Steps
  <2>2. CASE End(a)
    BY <1>3, <2>2 DEF End, LockOK, TypeOK, Actors, Inside, Steps
  <2> QED
    BY <2>1, <2>2
<1>7. ReachOK' /\ HandOK'
  BY <1>1, <1>2, <1>3 DEF ReachOK, HandOK, TypeOK
<1> QED
  BY <1>5, <1>6, <1>7

\* Every step keeps the types and the exclusion, actor by actor.
LEMMA NextTInv == TInv /\ [Next]_vars => TInv'
<1> SUFFICES ASSUME TInv, [Next]_vars PROVE TInv'
  OBVIOUS
<1>1. CASE UNCHANGED vars
  BY <1>1 DEF vars, locals, TInv, TypeOK, LockOK, ReachOK, HandOK
<1>2. CASE Next
  <2>1. PICK a \in Actors : Begin(a) \/ Acquire(a) \/ Work(a) \/ Fail(a)
    BY <1>2 DEF Next
  <2> QED
    BY <2>1, StartTInv, AcquireTInv, EngineTInv, LeaveTInv DEF Work
<1> QED
  BY <1>1, <1>2

\* The mirror lock excludes: two of the jobs that take it are never both between
\* taking and releasing it, however many there are and whatever fails.
THEOREM Exclusion ==
    Spec => [](\A a, b \in Locked : pc[a] \in Inside /\ pc[b] \in Inside => a = b)
<1>1. TInv => \A a, b \in Locked : pc[a] \in Inside /\ pc[b] \in Inside => a = b
  BY DEF TInv, LockOK
<1> QED
  BY <1>1, InitTInv, NextTInv, PTL DEF Spec

\* Every variable keeps its type.
THEOREM Types == Spec => []TypeOK
<1>1. TInv => TypeOK
  BY DEF TInv
<1> QED
  BY <1>1, InitTInv, NextTInv, PTL DEF Spec

-----------------------------------------------------------------------------
(* One row for each page                                                   *)

\* While the lock-free callers mirror nothing, no step gives a page a second row.
LEMMA RowStep ==
    ASSUME Apart, IInv, TInv', [Next]_vars
    PROVE  FreshOK' /\ OneRow'
<1>1. ASSUME rows' = rows, NEW a \in Actors,
             \A b \in Actors \ {a} : page'[b] = page[b] /\ exists'[b] = exists[b] /\ pc'[b] = pc[b],
             pc'[a] = "commit" => page'[a] = page[a] /\ exists'[a] = exists[a] /\ pc[a] = "commit"
      PROVE  FreshOK' /\ OneRow'
  BY <1>1 DEF IInv, FreshOK, OneRow, RowsOf
<1>2. CASE UNCHANGED vars
  BY <1>2 DEF vars, locals, IInv, FreshOK, OneRow, RowsOf
<1>3. ASSUME NEW a \in Actors,
             Begin(a) \/ Acquire(a) \/ Fail(a) \/ Mark(a) \/ Skip(a) \/ Folder(a) \/ Done(a)
               \/ Leave(a) \/ Unmark(a) \/ End(a) \/ \E p \in Pages : Look(a, p)
      PROVE  FreshOK' /\ OneRow'
  <2>1. PICK l : l # "commit" /\ pc' = [pc EXCEPT ![a] = l]
    BY <1>3 DEF Begin, Fire, Post, Call, Hook, Acquire, Fail, Mark, Skip, Folder, Done, Leave,
                Unmark, End, Look, Goto
  <2>2. /\ rows' = rows
        /\ page' = page \/ \E v : page' = [page EXCEPT ![a] = v]
        /\ exists' = exists \/ \E v : exists' = [exists EXCEPT ![a] = v]
    BY <1>3 DEF Begin, Fire, Post, Call, Hook, Acquire, Fail, Mark, Skip, Folder, Done, Leave,
                Unmark, End, Look, Data, Forget
  <2>3. \A b \in Actors \ {a} : page'[b] = page[b] /\ exists'[b] = exists[b] /\ pc'[b] = pc[b]
    BY <2>1, <2>2 DEF IInv, TInv, TypeOK
  <2>4. pc'[a] # "commit"
    BY <2>1 DEF IInv, TInv, TypeOK
  <2> QED
    BY <1>1, <2>2, <2>3, <2>4
<1>4. ASSUME NEW a \in Actors, Select(a)
      PROVE  FreshOK' /\ OneRow'
  <2>1. /\ rows' = rows /\ page' = page /\ pc' = [pc EXCEPT ![a] = "commit"]
        /\ exists' = [exists EXCEPT ![a] = RowsOf(page[a]) # {}]
    BY <1>4 DEF Select, Goto
  <2>2. ASSUME NEW b \in Actors, pc'[b] = "commit"
        PROVE  exists'[b] <=> RowsOf(page[b]) # {}
    <3>1. CASE b = a
      BY <2>1, <3>1 DEF IInv, TInv, TypeOK
    <3>2. CASE b # a
      BY <2>1, <2>2, <3>2 DEF IInv, TInv, TypeOK, FreshOK
    <3> QED
      BY <3>1, <3>2
  <2>3. \A b \in Actors : RowsOf(page[b])' = RowsOf(page[b])
    BY <2>1 DEF RowsOf
  <2> QED
    BY <2>1, <2>2, <2>3 DEF IInv, FreshOK, OneRow
<1>5. ASSUME NEW a \in Actors, Commit(a)
      PROVE  FreshOK' /\ OneRow'
  <2> DEFINE p == page[a]
             new == [page |-> p, folder |-> found[a]]
  <2>1. /\ pc[a] = "commit" /\ p \in Pages
        /\ pc' = [pc EXCEPT ![a] = "pick"]
        /\ page' = [page EXCEPT ![a] = Null] /\ exists' = [exists EXCEPT ![a] = FALSE]
    BY <1>5 DEF Commit, Goto, Forget, IInv, TInv, HandOK
  <2>2. rows' = (rows \ RowsOf(p)) \cup {new}
    <3>1. CASE ~exists[a]
      <4>1. RowsOf(p) = {} /\ rows' = rows \cup {new}
        BY <1>5, <2>1, <3>1 DEF Commit, IInv, FreshOK
      <4> QED
        BY <4>1
    <3>2. CASE exists[a]
      <4>1. PICK r \in RowsOf(p) : rows' = (rows \ {r}) \cup {new}
        BY <1>5, <3>2 DEF Commit
      <4>2. RowsOf(p) = {r}
        BY <4>1 DEF IInv, OneRow, RowsOf
      <4> QED
        BY <4>1, <4>2
    <3> QED
      BY <3>1, <3>2
  <2>3. OneRow'
    BY <2>2 DEF IInv, OneRow, RowsOf
  <2>4. ASSUME NEW b \in Actors, b # a, pc[b] = "commit"
        PROVE  page[b] # p
    <3>1. SUFFICES ASSUME page[b] = p PROVE FALSE
      OBVIOUS
    <3>2. a \in Locked /\ b \in Locked
      BY <2>1, <2>4, <3>1, NullAssumption DEF IInv, TInv, ReachOK, Apart
    <3> QED
      BY <2>1, <2>4, <3>2 DEF IInv, TInv, LockOK, Inside, Steps
  <2>5. ASSUME NEW b \in Actors, pc'[b] = "commit"
        PROVE  exists'[b] <=> RowsOf(page[b])' # {}
    <3>1. b # a /\ pc[b] = "commit" /\ page'[b] = page[b] /\ exists'[b] = exists[b]
      BY <2>1, <2>5 DEF IInv, TInv, TypeOK
    <3>2. page[b] # p
      BY <2>4, <3>1
    <3>3. RowsOf(page[b])' = RowsOf(page[b])
      BY <2>2, <3>1, <3>2 DEF RowsOf
    <3> QED
      BY <3>1, <3>3 DEF IInv, FreshOK
  <2> QED
    BY <2>3, <2>5 DEF FreshOK
<1>6. CASE Next
  BY <1>3, <1>4, <1>5, <1>6 DEF Next, Work
<1> QED
  BY <1>2, <1>6

\* "exactly one SyncPair row" (models.py) holds of every page that only the jobs
\* under the lock, or one single caller, are asked to mirror.  The condition is
\* needed: the run jobs_unlocked shows two rows without it.
THEOREM OneRowUnderTheLock ==
    ASSUME Apart
    PROVE  Spec => []OneRow
<1>1. Init => IInv
  BY InitTInv DEF IInv, Init, FreshOK, OneRow
<1>2. IInv /\ [Next]_vars => IInv'
  BY NextTInv, RowStep DEF IInv
<1>3. IInv => OneRow
  BY DEF IInv
<1> QED
  BY <1>1, <1>2, <1>3, PTL DEF Spec


-----------------------------------------------------------------------------
(* No folder without a failure                                             *)

\* The folders made for a page that neither its row nor an engine knows; an engine
\* that has a page in hand has the folder of its row, if there is one.
Lost(p) == 1..made[p] \ ({r.folder : r \in RowsOf(p)} \cup InHand(p))
AtHand  == {"folder", "select", "commit"}
KnowOK  == \A a \in Actors : pc[a] \in AtHand => \A r \in RowsOf(page[a]) : r.folder = found[a]
TwinInv == IInv /\ KnowOK /\ NoTwins

\* Where no more folders are lost, or one with a failure, there are no twins.
LEMMA NoMoreLost ==
    ASSUME TInv, NoTwins, TInv',
           \/ fails' = fails /\ \A p \in Pages : Lost(p)' \subseteq Lost(p)
           \/ fails' = fails + 1 /\ \E x : \A p \in Pages : Lost(p)' \subseteq Lost(p) \cup {x}
    PROVE  NoTwins'
<1>1. ASSUME NEW p \in Pages
      PROVE  IsFiniteSet(Lost(p)) /\ Cardinality(Lost(p)) <= fails
  <2>1. made[p] \in Int /\ Lost(p) \in SUBSET (1..made[p])
    BY BoundAssumption DEF TInv, TypeOK, Lost
  <2>2. IsFiniteSet(1..made[p])
    BY <2>1, FS_Interval
  <2>3. IsFiniteSet(Lost(p))
    BY <2>1, <2>2, FS_Subset
  <2> QED
    BY <2>3 DEF NoTwins, Lost
<1>2. ASSUME NEW p \in Pages
      PROVE  Cardinality(Lost(p)') <= fails'
  <2> DEFINE lost == Lost(p)
             after == Lost(p)'
  <2>1. IsFiniteSet(lost) /\ Cardinality(lost) <= fails /\ Cardinality(lost) \in Nat /\ fails \in Nat
    BY <1>1, FS_CardinalityType DEF TInv, TypeOK
  <2>2. CASE fails' = fails /\ after \subseteq lost
    <3>1. after \in SUBSET lost
      BY <2>2
    <3> HIDE DEF lost, after
    <3>2. IsFiniteSet(after) /\ Cardinality(after) <= Cardinality(lost)
      BY <2>1, <3>1, FS_Subset
    <3> QED
      BY <2>1, <2>2, <3>2, FS_CardinalityType DEF after
  <2>3. ASSUME NEW x, fails' = fails + 1, after \subseteq lost \cup {x}
        PROVE  Cardinality(after) <= fails'
    <3>1. after \in SUBSET (lost \cup {x})
      BY <2>3
    <3> HIDE DEF lost, after
    <3>2. IsFiniteSet(lost \cup {x}) /\ Cardinality(lost \cup {x}) <= Cardinality(lost) + 1
          /\ Cardinality(lost \cup {x}) \in Nat
      <4>1. /\ IsFiniteSet(lost \cup {x})
            /\ Cardinality(lost \cup {x}) = IF x \in lost THEN Cardinality(lost) ELSE Cardinality(lost) + 1
        BY <2>1, FS_AddElement
      <4> QED
        BY <2>1, <4>1
    <3>3. IsFiniteSet(after) /\ Cardinality(after) <= Cardinality(lost \cup {x})
      BY <3>1, <3>2, FS_Subset
    <3>4. Cardinality(after) \in Nat
      BY <3>3, FS_CardinalityType
    <3> QED
      BY <2>1, <2>3, <3>2, <3>3, <3>4
  <2> QED
    BY <2>2, <2>3
<1> QED
  BY <1>2 DEF NoTwins, Lost

\* A caller that has no page in hand before and after loses no folder.
LEMMA QuietTwins ==
    ASSUME TwinInv, TInv', NEW a \in Actors,
           \/ Begin(a) \/ Acquire(a) \/ Mark(a) \/ Skip(a) \/ Done(a) \/ Leave(a) \/ Unmark(a) \/ End(a)
    PROVE  KnowOK' /\ NoTwins'
<1> USE DEF TwinInv, IInv
<1>1. UNCHANGED <<rows, made, page, found, fails>> /\ pc[a] \notin AtHand
  BY DEF Begin, Fire, Post, Call, Hook, Acquire, Mark, Skip, Done, Leave, Unmark, End, Data, AtHand
<1>2. PICK l : l \notin AtHand /\ pc' = [pc EXCEPT ![a] = l]
  BY DEF Begin, Fire, Post, Call, Hook, Acquire, Mark, Skip, Done, Leave, Unmark, End, Goto, AtHand
<1>3. \A b \in Actors : pc'[b] = pc[b] \/ (pc[b] \notin AtHand /\ pc'[b] \notin AtHand)
  BY <1>1, <1>2 DEF TInv, TypeOK
<1>4. \A p \in Pages : InHand(p)' = InHand(p)
  BY <1>1, <1>3 DEF InHand, AtHand
<1>5. \A p : RowsOf(p)' = RowsOf(p)
  BY <1>1 DEF RowsOf
<1>6. KnowOK'
  BY <1>1, <1>3, <1>5 DEF KnowOK, RowsOf
<1>7. \A p \in Pages : Lost(p)' \subseteq Lost(p)
  BY <1>1, <1>4, <1>5 DEF Lost
<1> QED
  BY <1>1, <1>6, <1>7, NoMoreLost

\* An engine that looks a page up has the folder of its row.
LEMMA LookTwins == ASSUME TwinInv, TInv', NEW a \in Actors, NEW p \in Pages, Look(a, p) PROVE KnowOK' /\ NoTwins'
<1> USE DEF TwinInv, IInv
<1>1. /\ UNCHANGED <<rows, made, fails>> /\ pc[a] = "pick" /\ pc' = [pc EXCEPT ![a] = "folder"]
      /\ page' = [page EXCEPT ![a] = p]
  BY DEF Look, Goto
<1>2. /\ \A r \in RowsOf(p) : r.folder = found'[a]
      /\ \A b \in Actors \ {a} : found'[b] = found[b]
  <2>1. ASSUME NEW v, found' = [found EXCEPT ![a] = v]
        PROVE  found'[a] = v /\ \A b \in Actors \ {a} : found'[b] = found[b]
    BY <2>1 DEF TInv, TypeOK
  <2>2. \A r, s \in RowsOf(p) : r = s
    BY DEF OneRow, RowsOf
  <2> QED
    BY <2>1, <2>2 DEF Look
<1>3. /\ pc'[a] = "folder" /\ page'[a] = p
      /\ \A b \in Actors \ {a} : pc'[b] = pc[b] /\ page'[b] = page[b] /\ found'[b] = found[b]
  BY <1>1, <1>2 DEF TInv, TypeOK
<1>4. \A q \in Pages : InHand(q)' = InHand(q)
  BY <1>1, <1>3 DEF InHand
<1>5. \A q : RowsOf(q)' = RowsOf(q)
  BY <1>1 DEF RowsOf
<1>6. KnowOK'
  BY <1>1, <1>2, <1>3, <1>5 DEF KnowOK, RowsOf
<1>7. \A q \in Pages : Lost(q)' \subseteq Lost(q)
  BY <1>1, <1>4, <1>5 DEF Lost
<1> QED
  BY <1>1, <1>6, <1>7, NoMoreLost

\* A folder is made only for a page without a row, and is in hand from then on.
LEMMA FolderTwins == ASSUME TwinInv, TInv', NEW a \in Actors, Folder(a) \/ Select(a) PROVE KnowOK' /\ NoTwins'
<1> USE DEF TwinInv, IInv
<1>1. /\ UNCHANGED <<rows, page, fails>> /\ pc[a] \in AtHand /\ page[a] \in Pages
      /\ \E l \in {"select", "commit"} : pc' = [pc EXCEPT ![a] = l]
  BY DEF Folder, Select, Goto, AtHand, TInv, HandOK
<1>2. \/ UNCHANGED <<found, made>>
      \/ /\ found[a] = Null
         /\ made' = [made EXCEPT ![page[a]] = made[page[a]] + 1] /\ found' = [found EXCEPT ![a] = made[page[a]] + 1]
         /\ pc[a] = "folder"
  BY DEF Folder, Select
<1>3. /\ pc'[a] \in {"select", "commit"}
      /\ \A b \in Actors \ {a} : pc'[b] = pc[b] /\ found'[b] = found[b]
  BY <1>1, <1>2 DEF TInv, TypeOK
<1>4. \A q : RowsOf(q)' = RowsOf(q)
  BY <1>1 DEF RowsOf
<1>5. CASE UNCHANGED <<found, made>>
  <2>1. \A q \in Pages : InHand(q) \subseteq InHand(q)'
    BY <1>1, <1>3, <1>5 DEF InHand
  <2>2. KnowOK'
    BY <1>1, <1>3, <1>4, <1>5 DEF KnowOK, RowsOf, AtHand
  <2>3. \A q \in Pages : Lost(q)' \subseteq Lost(q)
    BY <1>4, <1>5, <2>1 DEF Lost
  <2> QED
    BY <1>1, <2>2, <2>3, NoMoreLost
<1>6. CASE /\ found[a] = Null
           /\ made' = [made EXCEPT ![page[a]] = made[page[a]] + 1] /\ found' = [found EXCEPT ![a] = made[page[a]] + 1]
           /\ pc[a] = "folder"
  <2>1. RowsOf(page[a]) = {}
    <3>1. \A r \in RowsOf(page[a]) : r.folder = Null /\ r.folder \in Folders
      BY <1>1, <1>6 DEF KnowOK, TInv, TypeOK, RowsOf, SyncPair
    <3> QED
      BY <3>1, NullAssumption
  <2>2. /\ made'[page[a]] = made[page[a]] + 1 /\ found'[a] = made[page[a]] + 1
        /\ \A q \in Pages \ {page[a]} : made'[q] = made[q]
    BY <1>1, <1>6 DEF TInv, TypeOK
  <2>3. \A q \in Pages : InHand(q) \subseteq InHand(q)'
    BY <1>1, <1>3, <1>6 DEF InHand
  <2>4. made[page[a]] + 1 \in InHand(page[a])'
    BY <1>1, <1>3, <2>2 DEF InHand
  <2>5. KnowOK'
    BY <1>1, <1>3, <1>4, <2>1 DEF KnowOK, RowsOf, AtHand
  <2>6. ASSUME NEW q \in Pages PROVE Lost(q)' \subseteq Lost(q)
    <3>1. CASE q = page[a]
      <4>1. 1..(made[q] + 1) \ {made[q] + 1} \subseteq 1..made[q]
        BY DEF TInv, TypeOK
      <4>2. (made[q])' = made[q] + 1 /\ made[q] + 1 \in InHand(q)'
        BY <1>1, <2>2, <2>4, <3>1 DEF InHand
      <4> QED
        BY <1>4, <2>3, <4>1, <4>2 DEF Lost
    <3>2. CASE q # page[a]
      BY <1>4, <2>2, <2>3, <3>2 DEF Lost
    <3> QED
      BY <3>1, <3>2
  <2> QED
    BY <1>1, <2>5, <2>6, NoMoreLost
<1> QED
  BY <1>2, <1>5, <1>6

\* The row that is committed takes over the folder in hand, and gives up none.
LEMMA CommitTwins == ASSUME Apart, TwinInv, TInv', NEW a \in Actors, Commit(a) PROVE KnowOK' /\ NoTwins'
<1> USE DEF TwinInv, IInv
<1> DEFINE p == page[a]
           new == [page |-> p, folder |-> found[a]]
<1>1. /\ UNCHANGED <<made, fails>> /\ pc[a] = "commit" /\ p \in Pages /\ pc' = [pc EXCEPT ![a] = "pick"]
      /\ page' = [page EXCEPT ![a] = Null] /\ found' = [found EXCEPT ![a] = Null]
  BY DEF Commit, Goto, Forget, TInv, HandOK
<1>2. /\ pc'[a] = "pick"
      /\ \A b \in Actors \ {a} : pc'[b] = pc[b] /\ page'[b] = page[b] /\ found'[b] = found[b]
  BY <1>1 DEF TInv, TypeOK
<1>3. /\ new \in rows' /\ rows' \subseteq rows \cup {new}
      /\ \A r \in rows : r \in rows' \/ (r.page = p /\ r.folder = found[a])
  BY <1>1 DEF Commit, KnowOK, AtHand, RowsOf
<1>4. \A q \in Pages : {r.folder : r \in RowsOf(q)} \subseteq {r.folder : r \in RowsOf(q)'}
  BY <1>3 DEF RowsOf
<1>5. \A q \in Pages : InHand(q) \subseteq InHand(q)' \cup {r.folder : r \in RowsOf(q)'}
  <2>1. ASSUME NEW q \in Pages, q = p PROVE found[a] \in {r.folder : r \in RowsOf(q)'}
    BY <1>3, <2>1 DEF RowsOf
  <2>2. ASSUME NEW q \in Pages, NEW f \in InHand(q) PROVE f \in InHand(q)' \/ (q = p /\ f = found[a])
    <3>1. PICK b \in Actors : page[b] = q /\ pc[b] \in {"select", "commit"} /\ f = found[b]
      BY <2>2 DEF InHand
    <3> QED
      BY <1>2, <3>1 DEF InHand
  <2> QED
    BY <2>1, <2>2
<1>6. \A q \in Pages : Lost(q)' \subseteq Lost(q)
  BY <1>1, <1>4, <1>5 DEF Lost
<1>7. ASSUME NEW b \in Actors, b # a, pc[b] \in AtHand
      PROVE  page[b] # p
  <2>1. SUFFICES ASSUME page[b] = p PROVE FALSE
    OBVIOUS
  <2>2. a \in Locked /\ b \in Locked
    BY <1>1, <1>7, <2>1, NullAssumption DEF TInv, ReachOK, Apart
  <2> QED
    BY <1>1, <1>7, <2>2 DEF TInv, LockOK, Inside, Steps, AtHand
<1>8. KnowOK'
  <2>1. ASSUME NEW b \in Actors, pc'[b] \in AtHand, NEW r \in rows', r.page = page'[b]
        PROVE  r.folder = found'[b]
    <3>1. b # a /\ pc[b] \in AtHand /\ page[b] # p /\ page'[b] = page[b] /\ found'[b] = found[b]
      BY <1>2, <1>7, <2>1 DEF AtHand
    <3>2. r \in rows
      BY <1>3, <2>1, <3>1
    <3> QED
      BY <2>1, <3>1, <3>2 DEF KnowOK, RowsOf
  <2> QED
    BY <2>1 DEF KnowOK, RowsOf
<1> QED
  BY <1>1, <1>6, <1>8, NoMoreLost

\* A failure loses the folder in hand, and no other.
LEMMA FailTwins == ASSUME TwinInv, TInv', NEW a \in Actors, Fail(a) PROVE KnowOK' /\ NoTwins'
<1> USE DEF TwinInv, IInv
<1>1. /\ UNCHANGED <<rows, made>> /\ fails' = fails + 1 /\ \E l \in {"pick", "leave"} : pc' = [pc EXCEPT ![a] = l]
      /\ page' = [page EXCEPT ![a] = Null] /\ found' = [found EXCEPT ![a] = Null]
  BY DEF Fail, Goto, Forget
<1>2. /\ pc'[a] \notin AtHand
      /\ \A b \in Actors \ {a} : pc'[b] = pc[b] /\ page'[b] = page[b] /\ found'[b] = found[b]
  BY <1>1 DEF TInv, TypeOK, AtHand
<1>3. \A q : RowsOf(q)' = RowsOf(q)
  BY <1>1 DEF RowsOf
<1>4. \A q \in Pages : InHand(q) \subseteq InHand(q)' \cup {found[a]}
  BY <1>2 DEF InHand
<1>5. \A q \in Pages : Lost(q)' \subseteq Lost(q) \cup {found[a]}
  BY <1>1, <1>3, <1>4 DEF Lost
<1>6. KnowOK'
  BY <1>1, <1>2, <1>3 DEF KnowOK, RowsOf
<1>7. \E x : \A q \in Pages : Lost(q)' \subseteq Lost(q) \cup {x}
  BY <1>5
<1> QED
  BY <1>1, <1>6, <1>7, NoMoreLost

\* Every step of every caller keeps the folders known.
LEMMA TwinStep == ASSUME Apart, TwinInv, TInv', [Next]_vars PROVE KnowOK' /\ NoTwins'
<1>1. CASE UNCHANGED vars
  BY <1>1 DEF vars, locals, TwinInv, KnowOK, NoTwins, InHand, RowsOf
<1>2. CASE Next
  <2>1. PICK a \in Actors : Begin(a) \/ Acquire(a) \/ Work(a) \/ Fail(a)
    BY <1>2 DEF Next
  <2> QED
    BY <2>1, QuietTwins, LookTwins, FolderTwins, CommitTwins, FailTwins DEF Work
<1> QED
  BY <1>1, <1>2

\* "exactly one folder" in effect: while the lock serialises the engines, a folder
\* that neither a row nor an engine knows comes of a failure, and a failure loses one
\* at most (jobs.py, _MIRROR_LOCK; repo.py, upsert_pair).  Apart is needed as above.
THEOREM NoTwinsUnderTheLock == ASSUME Apart PROVE Spec => []NoTwins
<1>1. Init => TwinInv
  <2> SUFFICES ASSUME Init PROVE TwinInv
    OBVIOUS
  <2>1. IInv /\ KnowOK
    BY InitTInv DEF IInv, Init, FreshOK, OneRow, KnowOK, AtHand
  <2>2. \A p \in Pages : 1..made[p] \ ({r.folder : r \in RowsOf(p)} \cup InHand(p)) = {} /\ fails = 0
    BY DEF Init
  <2>3. NoTwins
    BY <2>2, FS_EmptySet DEF NoTwins
  <2> QED
    BY <2>1, <2>3 DEF TwinInv
<1>2. TwinInv /\ [Next]_vars => TwinInv'
  BY NextTInv, RowStep, TwinStep DEF TwinInv, IInv
<1>3. TwinInv => NoTwins
  BY DEF TwinInv
<1> QED
  BY <1>1, <1>2, <1>3, PTL DEF Spec
=============================================================================
