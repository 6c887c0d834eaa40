------------------------------ MODULE SyncJobs ------------------------------
(***************************************************************************)
(* Who may run a mirror engine, and when: the mirror lock                  *)
(* (app/scheduler/jobs.py), the scheduler's jobs, the full sync of the     *)
(* admin endpoint in the background and in the request (app/main.py), and  *)
(* the two callers that take no lock, the Notion webhook and /command.     *)
(*                                                                         *)
(* What an engine does is cut down to the race the lock is there for: it   *)
(* looks a page up in the ledger, creates a folder when there is none, and *)
(* upserts the SyncPair row by a SELECT and then an INSERT or an UPDATE.   *)
(* Module Mirror has the engine itself.                                    *)
(***************************************************************************)
EXTENDS Naturals, FiniteSets

CONSTANTS Polls,      \* poll_incremental and poll_commands
          Full,       \* the scheduled full_reconcile
          Posts,      \* /admin/full-sync requests served in the background
          Waits,      \* /admin/full-sync?wait=true requests
          Hooks,      \* webhook events (_process_page)
          Commands,   \* /command requests
          Pages, Null, Free,
          Reach,      \* [Actors -> the pages it may be asked to mirror]
          MaxFolders, \* bound on the folders created for a page
          MaxFails    \* bound on the failures of items and of whole jobs

Scheduled == Polls \cup {Full}
Locked    == Scheduled \cup Posts \cup Waits    \* who holds _MIRROR_LOCK to mirror
OnLoop    == Waits \cup Commands                \* who runs on the event loop itself
Unlocked  == Hooks \cup Commands
Actors    == Locked \cup Unlocked
Folders   == 1..MaxFolders
SyncPair  == [page : Pages, folder : Folders]

ASSUME ActorsAssumption == /\ Locked \cap Unlocked = {} /\ Free \notin Actors
                           /\ Waits \cap (Scheduled \cup Posts) = {}
                           /\ Scheduled \cap Posts = {} /\ Full \notin Polls
ASSUME ReachAssumption  == Reach \in [Actors -> SUBSET Pages]
ASSUME NullAssumption   == Null \notin Folders /\ Null \notin Pages
ASSUME BoundAssumption  == MaxFolders \in Nat /\ MaxFails \in Nat

VARIABLES pc,        \* [Actors -> where it is]
          lock,      \* who holds _MIRROR_LOCK
          loop,      \* whose handler blocks the event loop
          running,   \* _sync_state["running"]
          rows,      \* the SyncPair rows
          made,      \* [Pages -> how many folders were created for it]
          todo,      \* [Actors -> the pages it has yet to mirror]
          page,      \* [Actors -> the page in hand]
          found,     \* [Actors -> the folder it found or created]
          exists,    \* [Actors -> what the SELECT of upsert_pair returned]
          fails

locals == <<todo, page, found, exists>>
vars   == <<pc, lock, loop, running, rows, made, locals, fails>>

Steps   == {"pick", "folder", "select", "commit"}
Inside  == Steps \cup {"leave"}

Init == /\ pc = [a \in Actors |-> "off"]
        /\ lock = Free /\ loop = Free /\ running = FALSE
        /\ rows = {} /\ made = [p \in Pages |-> 0] /\ fails = 0
        /\ todo = [a \in Actors |-> {}] /\ page = [a \in Actors |-> Null]
        /\ found = [a \in Actors |-> Null] /\ exists = [a \in Actors |-> FALSE]

Goto(a, l) == pc' = [pc EXCEPT ![a] = l]
Forget(a)  == /\ page' = [page EXCEPT ![a] = Null] /\ found' = [found EXCEPT ![a] = Null]
              /\ exists' = [exists EXCEPT ![a] = FALSE]
Data       == UNCHANGED <<rows, made, page, found, exists, fails>>

-----------------------------------------------------------------------------
(* Starting.  The scheduler and every handler run on the event loop, so     *)
(* nothing starts while a handler blocks it.                                *)

\* A page fetch that fails, or a command that names no page, mirrors nothing.
MayMirror(a) == \E ps \in {{}} \cup {{p} : p \in Reach[a]} : todo' = [todo EXCEPT ![a] = ps]

\* max_instances=1: not while the last run has not been reaped.
Fire(a) == /\ a \in Scheduled /\ pc[a] = "off" /\ loop = Free
           /\ Goto(a, "acquire")
           /\ UNCHANGED <<lock, loop, running, todo>> /\ Data

\* full_sync looks at running; the thread sets it.
Post(a) == /\ a \in Posts /\ pc[a] = "off" /\ loop = Free /\ ~running
           /\ Goto(a, "mark")
           /\ UNCHANGED <<lock, loop, running, todo>> /\ Data

Mark(a) == /\ pc[a] = "mark"
           /\ running' = TRUE /\ Goto(a, "acquire")
           /\ UNCHANGED <<lock, loop, todo>> /\ Data

\* async def handlers that call the engine directly keep the loop.
Call(a) == /\ a \in OnLoop /\ pc[a] = "off" /\ loop = Free
           /\ loop' = a
           /\ \/ a \in Waits /\ Goto(a, "acquire") /\ todo' = todo
              \/ /\ a \in Commands /\ Goto(a, "pick")
                 /\ MayMirror(a)
           /\ UNCHANGED <<lock, running>> /\ Data

\* A background task of the webhook's response, in a thread of its own.
Hook(a) == /\ a \in Hooks /\ pc[a] = "off" /\ loop = Free
           /\ Goto(a, "pick")
           /\ MayMirror(a)
           /\ UNCHANGED <<lock, loop, running>> /\ Data

LockTaken == FALSE   \* mutant: the lock is never found taken
Taken     == lock # Free

Acquire(a) == /\ a \in Locked /\ pc[a] = "acquire" /\ ~Taken
              /\ lock' = a /\ Goto(a, "pick")
              /\ \E ps \in SUBSET Reach[a] : todo' = [todo EXCEPT ![a] = ps]
              /\ UNCHANGED <<loop, running>> /\ Data

Skip(a) == /\ a \in Polls /\ pc[a] = "acquire" /\ Taken
           /\ Goto(a, "ended")
           /\ UNCHANGED <<lock, loop, running, todo>> /\ Data

-----------------------------------------------------------------------------
(* Mirroring one page                                                      *)

Rest == UNCHANGED <<lock, loop, running>>
RowsOf(p) == {r \in rows : r.page = p}

Look(a, p) ==     \* get_pair_by_notion_id; which row .first() returns is open
    /\ pc[a] = "pick" /\ p \in todo[a]
    /\ \/ RowsOf(p) = {} /\ found' = [found EXCEPT ![a] = Null]
       \/ \E r \in RowsOf(p) : found' = [found EXCEPT ![a] = r.folder]
    /\ page' = [page EXCEPT ![a] = p] /\ todo' = [todo EXCEPT ![a] = @ \ {p}]
    /\ Goto(a, "folder") /\ Rest /\ UNCHANGED <<rows, made, exists, fails>>

NewFolder(a) ==   \* mutant: the recorded folder is not looked at
    /\ pc[a] = "folder" /\ made[page[a]] < MaxFolders
    /\ made' = [made EXCEPT ![page[a]] = @ + 1]
    /\ found' = [found EXCEPT ![a] = made[page[a]] + 1]
    /\ Goto(a, "select") /\ Rest /\ UNCHANGED <<rows, todo, page, exists, fails>>

Folder(a) ==      \* _resolve_folder
    /\ pc[a] = "folder"
    /\ \/ found[a] # Null /\ UNCHANGED <<found, made>>
       \/ /\ found[a] = Null /\ made[page[a]] < MaxFolders
          /\ made' = [made EXCEPT ![page[a]] = @ + 1]
          /\ found' = [found EXCEPT ![a] = made[page[a]] + 1]
    /\ Goto(a, "select") /\ Rest /\ UNCHANGED <<rows, todo, page, exists, fails>>

Select(a) ==      \* upsert_pair looks the pair up ...
    /\ pc[a] = "select"
    /\ exists' = [exists EXCEPT ![a] = RowsOf(page[a]) # {}]
    /\ Goto(a, "commit") /\ Rest /\ UNCHANGED <<rows, made, todo, page, found, fails>>

Commit(a) ==      \* ... then inserts it or sets its fields, and commits
    LET new == [page |-> page[a], folder |-> found[a]] IN
    /\ pc[a] = "commit"
    /\ \/ ~exists[a] /\ rows' = rows \cup {new}
       \/ exists[a] /\ \E r \in RowsOf(page[a]) : rows' = (rows \ {r}) \cup {new}
    /\ Goto(a, "pick") /\ Forget(a) /\ Rest /\ UNCHANGED <<made, todo, fails>>

Done(a) == /\ pc[a] = "pick" /\ todo[a] = {} /\ Goto(a, "leave")
           /\ UNCHANGED <<lock, loop, running, todo>> /\ Data

Fail(a) ==        \* an item is skipped, or the exception ends the job
    /\ pc[a] \in Steps /\ fails < MaxFails /\ fails' = fails + 1
    /\ \/ pc[a] # "pick" /\ Goto(a, "pick")
       \/ Goto(a, "leave")
    /\ Forget(a) /\ Rest /\ UNCHANGED <<rows, made, todo>>

-----------------------------------------------------------------------------
(* Leaving: the finally blocks                                             *)

ByCallback(a) == a \in Locked => loop = Free   \* mutant: released on the event loop
InThread(a)   == TRUE

Leave(a) ==
    /\ pc[a] = "leave" /\ InThread(a)
    /\ lock' = IF a \in Locked THEN Free ELSE lock
    /\ todo' = [todo EXCEPT ![a] = {}]
    /\ Goto(a, IF a \in Posts THEN "unmark" ELSE "ended")
    /\ UNCHANGED <<loop, running>> /\ Data

StillRunning == TRUE  \* mutant: running is left as it is
Stopped      == FALSE
Unmark(a) == /\ pc[a] = "unmark"
             /\ running' = Stopped /\ Goto(a, "off")
             /\ UNCHANGED <<lock, loop, todo>> /\ Data

End(a) ==   \* the scheduler's callback; the response of a handler; a thread's end
    /\ pc[a] = "ended" /\ (a \in Scheduled => loop = Free)
    /\ loop' = IF a \in OnLoop THEN Free ELSE loop
    /\ Goto(a, "off") /\ UNCHANGED <<lock, running, todo>> /\ Data

Begin(a) == Fire(a) \/ Post(a) \/ Call(a) \/ Hook(a)
Work(a)  == \/ Mark(a) \/ Skip(a) \/ Folder(a) \/ Select(a) \/ Commit(a) \/ Done(a)
            \/ Leave(a) \/ Unmark(a) \/ End(a) \/ \E p \in Pages : Look(a, p)

Next == \E a \in Actors : Begin(a) \/ Acquire(a) \/ Work(a) \/ Fail(a)

Spec == Init /\ [][Next]_vars

\* A job or a request that was started goes on.  The polls come seconds apart
\* and leave the lock free in between, so a blocked acquire is not barged for
\* ever.  Nothing is asked of the webhook's threads, and no caller need ever come.
Fairness == /\ \A a \in Actors \ Hooks : WF_vars(Work(a))
            /\ \A a \in Locked \ Polls : SF_vars(Acquire(a))
FairSpec == Spec /\ Fairness

-----------------------------------------------------------------------------
(* What the lock is for                                                    *)

TypeOK == /\ pc \in [Actors -> Inside \cup {"off", "mark", "acquire", "unmark", "ended"}]
          /\ lock \in Locked \cup {Free} /\ loop \in OnLoop \cup {Free}
          /\ running \in BOOLEAN /\ rows \subseteq SyncPair /\ made \in [Pages -> 0..MaxFolders]
          /\ todo \in [Actors -> SUBSET Pages] /\ page \in [Actors -> Pages \cup {Null}]
          /\ found \in [Actors -> Folders \cup {Null}] /\ exists \in [Actors -> BOOLEAN]
          /\ fails \in Nat

\* "Every mirrored Notion page maps to exactly one SyncPair row" (models.py):
\* no page ever has two rows.
OneRow == \A r, s \in rows : r.page = s.page => r = s

\* A folder that no row and no engine knows comes of a failure: while the lock
\* serialises the engines no page is given two folders.
InHand(p) == {found[a] : a \in {b \in Actors : page[b] = p /\ pc[b] \in {"select", "commit"}}}
NoTwins == \A p \in Pages :
    Cardinality(1..made[p] \ ({r.folder : r \in RowsOf(p)} \cup InHand(p))) <= fails

\* A handler that blocks the event loop ends: the lock it waits for is held by
\* a thread that does not need the loop to release it.
LoopFreed == loop # Free ~> loop = Free

\* /admin/sync-status does not report a sync that failed as running for ever.
StatusEnds == running ~> ~running

\* A full reconcile that was started gets the lock.
FullRuns == pc[Full] = "acquire" ~> lock = Full
=============================================================================
