---------------------------- MODULE CommandInbox ----------------------------
(***************************************************************************)
(* The command executor (app/engines/commands.py, poll_commands) and the   *)
(* inbox it reads: tasks in the user's Google Tasks lists.  The user       *)
(* writes, corrects, ticks off and deletes tasks between any two steps; a  *)
(* step is one remote call.  One executor runs at a time (poll_commands    *)
(* holds the mirror lock, module SyncJobs).                                *)
(*                                                                         *)
(* A task's command is its notes, or its title when it has none; a receipt *)
(* is a mark on top of the notes, and the notes here are what is below it. *)
(* The re-reflection of the changed page is module Mirror's StartItem:     *)
(* every exception of it is swallowed, and nothing here depends on it.     *)
(***************************************************************************)
EXTENDS Naturals, Sequences, FiniteSets, Functions

CONSTANTS Tasks, Lists, Texts, Null,
          Wordings,  \* [Tasks -> the titles and notes that the user writes into it]
          ListOf,    \* [Tasks -> Lists]
          Above,     \* [Tasks -> the tasks above it, in a list they share]
          PageSize,  \* how many tasks one call lists: maxResults
          Class,     \* [Texts -> "personal", not command-shaped; "refused" by
                     \* parse_command or by the relay's guard; or "request"]
          MaxEdits,  \* bound on what the user does after writing the tasks
          MaxFaults  \* bound on failed calls and crashes

ASSUME ListAssumption  == ListOf \in [Tasks -> Lists]
ASSUME PageAssumption  == Above \in [Tasks -> SUBSET Tasks] /\ PageSize \in Nat \ {0}
Worded == [title : Texts \cup {Null}, notes : Texts \cup {Null}]
ASSUME WordAssumption  == Wordings \in [Tasks -> SUBSET Worded]
ASSUME ClassAssumption == Class \in [Texts -> {"personal", "refused", "request"}]
ASSUME NullAssumption  == Null \notin Tasks /\ Null \notin Texts
ASSUME BoundAssumption == MaxEdits \in Nat /\ MaxFaults \in Nat

VARIABLES task,     \* the tasks as the user sees them
          pc,       \* where the executor is
          lists,    \* the lists it has yet to read
          batch,    \* [Tasks -> the title and notes it read, Null when not listed]
          cur,      \* the task in hand
          receipt,  \* the receipt it will write
          asked,    \* history: [Tasks -> the commands it was to hold, in order]
          ran,      \* history: [Tasks -> the texts of it that changed Notion, in order]
          lost,     \* history: [Tasks -> how often the executor lost hold of it]
          edits, faults

vars == <<task, pc, lists, batch, cur, receipt, asked, ran, lost, edits, faults>>

Task == [held : BOOLEAN, title : Texts \cup {Null}, notes : Texts \cup {Null},
         mark : {"none", "ok", "err"},
         done : BOOLEAN,     \* its status is completed
         shown : BOOLEAN]    \* ... and a listing says so

Blank == [held |-> FALSE, title |-> Null, notes |-> Null, mark |-> "none",
          done |-> FALSE, shown |-> FALSE]
Command(w) == IF w.notes # Null THEN w.notes ELSE w.title    \* command_text
NoBatch == [t \in Tasks |-> Null]

Init == /\ task = [t \in Tasks |-> Blank]
        /\ pc = "idle" /\ lists = {} /\ batch = NoBatch
        /\ cur = Null /\ receipt = "none"
        /\ asked = [t \in Tasks |-> <<>>] /\ ran = [t \in Tasks |-> <<>>]
        /\ lost = [t \in Tasks |-> 0] /\ edits = 0 /\ faults = 0

-----------------------------------------------------------------------------
(* The user                                                                *)

Quiet == UNCHANGED <<pc, lists, batch, cur, receipt, ran, lost, faults>>
Edit == edits < MaxEdits /\ edits' = edits + 1
Ask(t, x) == asked' = [asked EXCEPT ![t] = Append(@, x)]

Write(t, w) ==   \* a task id is never given out twice
    /\ ~task[t].held /\ asked[t] = <<>> /\ Command(w) # Null
    /\ task' = [task EXCEPT ![t] = [Blank EXCEPT !.held = TRUE, !.title = w.title,
                                                 !.notes = w.notes]]
    /\ Ask(t, Command(w)) /\ Quiet /\ UNCHANGED edits

Rewrite(t, w) ==   \* new notes, or none, without a receipt; the task is reopened
    LET v == [Blank EXCEPT !.held = TRUE, !.title = task[t].title, !.notes = w.notes]
    IN /\ task[t].held /\ Command(v) # Null /\ Edit
       /\ task' = [task EXCEPT ![t] = v] /\ Ask(t, Command(v)) /\ Quiet

Retitle(t, w) ==   \* notes and status stay as they are, a receipt with them
    /\ task[t].held /\ w.title # Null /\ Edit
    /\ task' = [task EXCEPT ![t].title = w.title]
    /\ \/ task[t].mark = "none" /\ task[t].notes = Null /\ Ask(t, w.title)
       \/ (task[t].mark # "none" \/ task[t].notes # Null) /\ UNCHANGED asked
    /\ Quiet

Delete(t) == /\ task[t].held /\ Edit
             /\ task' = [task EXCEPT ![t] = Blank]
             /\ Quiet /\ UNCHANGED asked

Tick(t) == /\ task[t].held /\ ~task[t].done /\ Edit
           /\ task' = [task EXCEPT ![t].done = TRUE]
           /\ Quiet /\ UNCHANGED asked

Propagate(t) ==   \* a listing may lag behind a completion
    /\ task[t].done /\ ~task[t].shown
    /\ task' = [task EXCEPT ![t].shown = TRUE]
    /\ Quiet /\ UNCHANGED <<asked, edits>>

-----------------------------------------------------------------------------
(* poll_commands: run_pending                                              *)

User == UNCHANGED <<asked, edits>>

Poll == /\ pc = "idle"
        /\ pc' = "list" /\ lists' = Lists
        /\ UNCHANGED <<task, batch, cur, receipt, ran, lost, faults>> /\ User

AnyText(x)       == TRUE    \* mutant: a personal task is a command as well
CommandShaped(x) == Class[x] # "personal"
StatusOnly(t)    == ~(task[t].done /\ task[t].shown)   \* mutant: the receipt is not looked at
Pending(t)       == ~(task[t].done /\ task[t].shown) /\ task[t].mark = "none"

\* showCompleted=False: what is left to do, whosever it is, fills the only page read.
Ahead(t)  == {u \in Above[t] : /\ ListOf[u] = ListOf[t] /\ task[u].held
                               /\ ~(task[u].done /\ task[u].shown)}
Listed(t) == Cardinality(Ahead(t)) < PageSize

List(l) ==   \* list_pending, one call for each list
    /\ pc = "list" /\ l \in lists
    /\ lists' = lists \ {l}
    /\ batch' = [t \in Tasks |->
                   IF /\ ListOf[t] = l /\ task[t].held /\ Listed(t)
                      /\ Pending(t) /\ CommandShaped(Command(task[t]))
                   THEN [title |-> task[t].title, notes |-> task[t].notes]
                   ELSE batch[t]]
    /\ UNCHANGED <<task, pc, cur, receipt, ran, lost, faults>> /\ User

SkipBad(t) ==   \* mutant: what does not parse is skipped
    /\ \/ pc = "list" /\ lists = {}
       \/ pc = "next"
    /\ batch[t] # Null
    /\ \/ Class[Command(batch[t])] = "request" /\ pc' = "relay" /\ cur' = t /\ batch' = batch
       \/ /\ Class[Command(batch[t])] # "request" /\ pc' = "next" /\ cur' = Null
          /\ batch' = [batch EXCEPT ![t] = Null]
    /\ UNCHANGED <<task, lists, receipt, ran, lost, faults>> /\ User

Parse(t) ==   \* the next task: parse_command, and the relay's guard
    /\ \/ pc = "list" /\ lists = {}
       \/ pc = "next"
    /\ batch[t] # Null /\ cur' = t
    /\ \/ Class[Command(batch[t])] = "request" /\ pc' = "relay" /\ receipt' = "none"
       \/ Class[Command(batch[t])] # "request" /\ pc' = "finish" /\ receipt' = "err"
    /\ UNCHANGED <<task, lists, batch, ran, lost, faults>> /\ User

Landed == ran' = [ran EXCEPT ![cur] = Append(@, Command(batch[cur]))]

\* RelayClient.execute: done, refused, or no answer (HTTPError), the request
\* having got through or not.
Relay == /\ pc = "relay"
         /\ \/ Landed /\ receipt' = "ok" /\ UNCHANGED faults
            \/ UNCHANGED ran /\ receipt' = "err" /\ UNCHANGED faults
            \/ /\ faults < MaxFaults /\ faults' = faults + 1
               /\ Landed /\ receipt' = "err"
         /\ pc' = "finish"
         /\ UNCHANGED <<task, lists, batch, cur, lost>> /\ User

OverPresent(t) ==   \* mutant: the receipt goes over whatever the notes are now
    [task[t] EXCEPT !.mark = receipt, !.done = TRUE, !.shown = FALSE]
Receipted(t) ==     \* over the notes as they were listed; the title is as it is now
    [task[t] EXCEPT !.notes = batch[t].notes, !.mark = receipt, !.done = TRUE]

Finish ==    \* complete_with_receipt
    /\ pc = "finish" /\ task[cur].held
    /\ task' = [task EXCEPT ![cur] = Receipted(cur)]
    /\ batch' = [batch EXCEPT ![cur] = Null]
    /\ pc' = "next" /\ cur' = Null /\ receipt' = "none"
    /\ UNCHANGED <<lists, ran, lost, faults>> /\ User

StopInHand == /\ pc' = "idle" /\ lists' = {} /\ batch' = NoBatch   \* mutant
              /\ UNCHANGED <<cur, receipt>>

Stop == /\ pc' = "idle" /\ lists' = {} /\ batch' = NoBatch
        /\ cur' = Null /\ receipt' = "none"

Done == /\ pc \in {"list", "next"} /\ lists = {} /\ batch = NoBatch
        /\ Stop /\ UNCHANGED <<task, ran, lost, faults>> /\ User

Forget == lost' = IF cur = Null THEN lost ELSE [lost EXCEPT ![cur] = @ + 1]

NotFound ==   \* the task was deleted: the patch's 404 ends the run
    /\ pc = "finish" /\ ~task[cur].held
    /\ Forget /\ Stop /\ UNCHANGED <<task, ran, faults>> /\ User

Fail ==   \* a call to Google fails for good, or the process dies: the run ends
    /\ pc # "idle" /\ faults < MaxFaults /\ faults' = faults + 1
    /\ Forget /\ Stop
    /\ \/ UNCHANGED task
       \/ /\ pc = "finish" /\ task[cur].held     \* the patch got through all the same
          /\ task' = [task EXCEPT ![cur] = Receipted(cur)]
    /\ UNCHANGED ran /\ User

UserStep == \E t \in Tasks : \/ \E w \in Wordings[t] : Write(t, w) \/ Rewrite(t, w) \/ Retitle(t, w)
                             \/ Delete(t) \/ Tick(t) \/ Propagate(t)
Executor == \/ Poll \/ Relay \/ Finish \/ Done \/ NotFound
            \/ (\E l \in Lists : List(l)) \/ (\E t \in Tasks : Parse(t))

Next == UserStep \/ Executor \/ Fail
Spec == Init /\ [][Next]_vars

\* The polls keep coming, and one finds the mirror lock free in the end.
FairSpec == Spec /\ WF_vars(Executor)

-----------------------------------------------------------------------------
(* What the inbox promises                                                 *)

TypeOK == /\ task \in [Tasks -> Task]
          /\ pc \in {"idle", "list", "next", "relay", "finish"}
          /\ lists \subseteq Lists /\ batch \in [Tasks -> Worded \cup {Null}]
          /\ cur \in Tasks \cup {Null} /\ (cur # Null <=> pc \in {"relay", "finish"})
          /\ receipt \in {"none", "ok", "err"}
          /\ asked \in [Tasks -> Seq(Texts)] /\ ran \in [Tasks -> Seq(Texts)]
          /\ lost \in [Tasks -> Nat] /\ edits \in Nat /\ faults \in Nat

\* A command runs once for every time it was asked for, and once more only for
\* every time the executor lost hold of it before its receipt was written,
\* however long its completion takes to show in a listing.
RanAsAsked == \A t \in Tasks : Len(ran[t]) <= Len(asked[t]) + lost[t]

\* A task whose command was never more than a personal text is left alone, and
\* no receipt stands over personal notes: what the user wrote while the command
\* ran, the receipt has written over (complete_with_receipt patches the notes
\* that were listed; see PersonalNeverReceipted for what that means to the user).
PersonalLeftAlone == \A t \in Tasks : task[t].mark # "none" =>
    /\ \E x \in Range(asked[t]) : Class[x] # "personal"
    /\ task[t].notes # Null => Class[task[t].notes] # "personal"

\* "Only JSON-shaped tasks are treated as commands, so personal tasks are never
\* picked up, completed, or receipted" (pending_commands_all): a receipt is not
\* put on a task whose text is personal by now.  The code does not keep this: a
\* task listed as a command is patched whatever it has become meanwhile.
PersonalNeverReceipted ==
    [][\A t \in Tasks : task[t].mark = "none" /\ task'[t].mark # "none" =>
           Class[Command(task[t])] # "personal"]_vars

\* The executor keeps the promise of CommandLog: in particular what a receipt
\* quotes below it is the notes that were run, whatever the user made of the
\* notes meanwhile.  Over a command held in the title it quotes nothing, and the
\* title may have been rewritten since.
Given     == [t \in Tasks |-> Range(asked[t])]
Performed == {r \in Tasks \X Texts : r[2] \in Range(ran[r[1]])}
Answer(t) == IF task[t].mark # "none" THEN task[t].mark
             ELSE IF asked[t] # <<>> /\ ~task[t].held THEN "withdrawn" ELSE "none"
About(t)  == IF task[t].mark = "none" THEN Null ELSE task[t].notes
Log == INSTANCE CommandLog WITH
         asked  <- Given,                     performed <- Performed,
         answer <- [t \in Tasks |-> Answer(t)], about     <- [t \in Tasks |-> About(t)]
KeepsTheLog == Log!Spec

\* A command that waits is answered in the end, unless it is withdrawn.
Waiting(t) == task[t].held /\ ~task[t].done /\ task[t].mark = "none"
              /\ Class[Command(task[t])] # "personal"
Answered == \A t \in Tasks : Waiting(t) ~> ~Waiting(t)
=============================================================================
