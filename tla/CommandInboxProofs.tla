------------------------- MODULE CommandInboxProofs -------------------------
(***************************************************************************)
(* The executor runs a command as often as it was asked for or lost hold   *)
(* of, leaves personal tasks alone and implements CommandLog, whatever the *)
(* tasks, lists and texts are and however often the user and the network   *)
(* interfere.                                                              *)
(***************************************************************************)
EXTENDS CommandInbox, SequenceTheorems, TLAPS

\* A text in the batch was given to its task, and is unanswered.
BatchOK == \A t \in Tasks : batch[t] # Null =>
    /\ Command(batch[t]) \in Range(asked[t]) /\ Class[Command(batch[t])] # "personal"
    /\ task[t].mark = "none"

\* What is in hand was listed, and a tick in hand was earned.
HandOK == /\ pc \in {"relay", "finish"} => batch[cur] # Null
          /\ pc = "finish" => receipt # "none"
          /\ pc = "finish" /\ receipt = "ok" => Command(batch[cur]) \in Range(ran[cur])

\* A task that is there was given its command; only such a task has a receipt,
\* it was given a command that is not personal, and no personal notes are quoted.
TaskOK == \A t \in Tasks :
    /\ task[t].held => asked[t] # <<>>
    /\ task[t].held /\ task[t].mark = "none" => Command(task[t]) \in Range(asked[t])
    /\ task[t].mark # "none" =>
         /\ task[t].held /\ \E x \in Range(asked[t]) : Class[x] # "personal"
         /\ task[t].notes # Null => Class[task[t].notes] # "personal"

\* A task may run once more if it is unanswered, and no more than that.
InHand(t)  == cur = t /\ pc = "finish"
Runnable(t) == batch[t] # Null \/ (task[t].held /\ task[t].mark = "none")
CountOK == \A t \in Tasks :
    /\ Len(ran[t]) <= Len(asked[t]) + lost[t]
    /\ Runnable(t) /\ ~InHand(t) => Len(ran[t]) + 1 <= Len(asked[t]) + lost[t]

IInv == TypeOK /\ BatchOK /\ HandOK /\ TaskOK /\ CountOK

-----------------------------------------------------------------------------
\* What appending a text to a history does.
LEMMA Appended ==
    ASSUME NEW s \in Seq(Texts), NEW x \in Texts
    PROVE  /\ Append(s, x) \in Seq(Texts) /\ Append(s, x) # <<>>
           /\ Len(Append(s, x)) = Len(s) + 1
           /\ Range(Append(s, x)) = Range(s) \cup {x}
           /\ x \in Range(Append(s, x))
<1>1. /\ Append(s, x) \in Seq(Texts) /\ Append(s, x) # <<>>
      /\ Len(Append(s, x)) = Len(s) + 1
      /\ \A i \in 1..Len(s) : Append(s, x)[i] = s[i]
      /\ Append(s, x)[Len(s) + 1] = x
  BY AppendProperties
<1>2. DOMAIN s = 1..Len(s) /\ DOMAIN Append(s, x) = 1..(Len(s) + 1) /\ Len(s) \in Nat
  BY <1>1, LenProperties
<1>3. Range(Append(s, x)) = Range(s) \cup {x}
  <2>1. ASSUME NEW y \in Range(Append(s, x)) PROVE y \in Range(s) \cup {x}
    <3>1. PICK i \in 1..(Len(s) + 1) : y = Append(s, x)[i]
      BY <2>1, <1>2 DEF Range
    <3>2. CASE i = Len(s) + 1
      BY <3>1, <3>2, <1>1
    <3>3. CASE i \in 1..Len(s)
      BY <3>1, <3>3, <1>1, <1>2 DEF Range
    <3> QED
      BY <3>2, <3>3, <1>2
  <2>2. ASSUME NEW y \in Range(s) PROVE y \in Range(Append(s, x))
    <3>1. PICK i \in 1..Len(s) : y = s[i]
      BY <2>2, <1>2 DEF Range
    <3>2. i \in 1..(Len(s) + 1) /\ Append(s, x)[i] = y
      BY <3>1, <1>1, <1>2
    <3> QED
      BY <3>2, <1>2 DEF Range
  <2>3. x \in Range(Append(s, x))
    <3>1. Len(s) + 1 \in 1..(Len(s) + 1)
      BY <1>2
    <3> QED
      BY <3>1, <1>1, <1>2 DEF Range
  <2> QED
    BY <2>1, <2>2, <2>3
<1> QED
  BY <1>1, <1>3

\* The texts of a history are texts.
LEMMA RangeTexts == ASSUME NEW s \in Seq(Texts) PROVE Range(s) \subseteq Texts
  BY LenProperties, ElementOfSeq DEF Range

\* Before anything is written the invariant holds.
LEMMA InitIInv == Init => IInv
<1> SUFFICES ASSUME Init PROVE IInv
  OBVIOUS
<1> USE DEF Init
<1>1. TypeOK
  <2>1. <<>> \in Seq(Texts)
    BY EmptySeq
  <2>2. task \in [Tasks -> Task] /\ cur = Null /\ cur \notin Tasks
    BY NullAssumption DEF Blank, Task
  <2> QED
    BY <2>1, <2>2 DEF TypeOK, NoBatch
<1>2. CountOK
  <2>1. Len(<<>>) = 0
    BY EmptySeq
  <2> QED
    BY <2>1 DEF CountOK, Runnable, InHand, NoBatch, Blank
<1> QED
  BY <1>1, <1>2 DEF IInv, BatchOK, HandOK, TaskOK, NoBatch, Blank

-----------------------------------------------------------------------------
\* What the user gives a task to do: a new wording, without a receipt.
Gives(t, v) == /\ v \in Task /\ v.held /\ v.mark = "none" /\ Command(v) \in Texts
               /\ task' = [task EXCEPT ![t] = v] /\ Ask(t, Command(v))
               /\ Quiet /\ edits' \in Nat

\* A wording is made of texts.
LEMMA WordsAreTexts ==
    ASSUME NEW t \in Tasks, NEW w \in Wordings[t]
    PROVE  w \in Worded
  BY WordAssumption

\* Writing and rewriting a task, and a new title on a command in the title, give
\* it a command.
LEMMA UserGives ==
    ASSUME IInv, NEW t \in Tasks, NEW w \in Wordings[t],
           Write(t, w) \/ Rewrite(t, w)
             \/ (Retitle(t, w) /\ task[t].mark = "none" /\ task[t].notes = Null)
    PROVE  \E v \in Task : Gives(t, v)
<1> USE DEF IInv
<1>1. w \in Worded /\ task[t] \in Task
  BY WordsAreTexts DEF TypeOK
<1>2. CASE Write(t, w)
  <2> DEFINE v == [Blank EXCEPT !.held = TRUE, !.title = w.title, !.notes = w.notes]
  <2>1. v \in Task /\ v.held /\ v.mark = "none" /\ Command(v) = Command(w)
    BY <1>1 DEF Blank, Task, Worded, Command
  <2>2. Command(v) \in Texts
    BY <1>1, <1>2, <2>1 DEF Write, Worded, Command
  <2> QED
    BY <1>2, <2>1, <2>2 DEF Write, Gives, TypeOK
<1>3. CASE Rewrite(t, w)
  <2> DEFINE v == [Blank EXCEPT !.held = TRUE, !.title = task[t].title, !.notes = w.notes]
  <2>1. v \in Task /\ v.held /\ v.mark = "none"
    BY <1>1 DEF Blank, Task, Worded
  <2>2. Command(v) # Null /\ task' = [task EXCEPT ![t] = v] /\ Ask(t, Command(v)) /\ Quiet
        /\ edits' \in Nat
    BY <1>3 DEF Rewrite, Edit, TypeOK
  <2>3. Command(v) \in Texts
    BY <2>1, <2>2 DEF Command, Task
  <2> QED
    BY <2>1, <2>2, <2>3 DEF Gives
<1>4. CASE Retitle(t, w) /\ task[t].mark = "none" /\ task[t].notes = Null
  <2> DEFINE v == [task[t] EXCEPT !.title = w.title]
  <2>1. w.title \in Texts /\ task' = [task EXCEPT ![t] = v] /\ Quiet /\ Ask(t, w.title)
        /\ edits' \in Nat /\ task[t].held
    BY <1>1, <1>4 DEF Retitle, Worded, Edit, TypeOK
  <2>2. v \in Task /\ v.held /\ v.mark = "none" /\ Command(v) = w.title
    BY <1>1, <1>4, <2>1 DEF Task, Command
  <2> QED
    BY <2>1, <2>2 DEF Gives
<1> QED
  BY <1>2, <1>3, <1>4

\* A task may be given something to do at any time.
LEMMA GiveIInv ==
    ASSUME IInv, NEW t \in Tasks, NEW v \in Task, Gives(t, v)
    PROVE  IInv'
<1> USE DEF IInv
<1> DEFINE x == Command(v)
<1>1. x \in Texts /\ Quiet /\ edits' \in Nat
  BY DEF Gives
<1>2. /\ asked' = [asked EXCEPT ![t] = Append(asked[t], x)]
      /\ task' = [task EXCEPT ![t] = v]
      /\ asked[t] \in Seq(Texts) /\ asked \in [Tasks -> Seq(Texts)]
  BY DEF Gives, Ask, TypeOK
<1> HIDE DEF x
<1>3. /\ asked'[t] \in Seq(Texts) /\ asked'[t] # <<>>
      /\ Len(asked'[t]) = Len(asked[t]) + 1
      /\ Range(asked'[t]) = Range(asked[t]) \cup {x}
  BY <1>1, <1>2, Appended
<1>4. \A u \in Tasks : u # t => asked'[u] = asked[u] /\ task'[u] = task[u]
  BY <1>2 DEF TypeOK
<1>5. /\ task'[t].held /\ Command(task'[t]) = x /\ task'[t].mark = "none"
      /\ task' \in [Tasks -> Task]
  <2>1. task'[t] = v /\ task' \in [Tasks -> Task]
    BY <1>2 DEF TypeOK
  <2> QED
    BY <2>1 DEF Gives, x
<1>6. TypeOK'
  BY <1>1, <1>2, <1>3, <1>5 DEF TypeOK, Quiet
<1>7. BatchOK'
  BY <1>1, <1>3, <1>4, <1>5 DEF BatchOK, Quiet
<1>8. HandOK'
  BY <1>1 DEF HandOK, Quiet
<1>9. TaskOK'
  BY <1>3, <1>4, <1>5 DEF TaskOK
<1>10. CountOK'
  <2> SUFFICES ASSUME NEW u \in Tasks
               PROVE  /\ Len(ran[u]) <= Len(asked'[u]) + lost[u]
                      /\ Runnable(u)' /\ ~InHand(u) => Len(ran[u]) + 1 <= Len(asked'[u]) + lost[u]
    BY <1>1 DEF CountOK, Quiet, InHand
  <2>1. Len(ran[u]) \in Nat /\ Len(asked[u]) \in Nat /\ lost[u] \in Nat
    BY LenProperties DEF TypeOK
  <2>2. CASE u = t
    BY <2>1, <2>2, <1>3 DEF CountOK
  <2>3. CASE u # t
    BY <2>3, <1>1, <1>4 DEF CountOK, Runnable, Quiet
  <2> QED
    BY <2>2, <2>3
<1> QED
  BY <1>6, <1>7, <1>8, <1>9, <1>10

\* What the user does to a task without giving it a command: delete it, tick it
\* off, or put a title over notes or a receipt.
Plain(t) == /\ Quiet /\ asked' = asked /\ edits' \in Nat
            /\ \A u \in Tasks : u # t => task'[u] = task[u]
            /\ task'[t].mark # "none" => /\ task'[t].mark = task[t].mark
                                         /\ task'[t].notes = task[t].notes
                                         /\ task'[t].held = task[t].held
            /\ task'[t].held => /\ task[t].held /\ task'[t].mark = task[t].mark
                                /\ task[t].mark = "none" => Command(task'[t]) = Command(task[t])
            /\ task' \in [Tasks -> Task]

\* Deleting, ticking off and the other new titles are such steps.
LEMMA UserPlain ==
    ASSUME IInv, NEW t \in Tasks,
           \/ Delete(t) \/ Tick(t) \/ Propagate(t)
           \/ \E w \in Wordings[t] : Retitle(t, w) /\ (task[t].mark # "none" \/ task[t].notes # Null)
    PROVE  Plain(t)
<1> USE DEF IInv, Plain
<1>1. CASE Delete(t)
  <2>1. Blank \in Task /\ ~Blank.held /\ Blank.mark = "none"
    BY DEF Blank, Task
  <2>2. /\ Quiet /\ asked' = asked /\ edits' \in Nat /\ task' \in [Tasks -> Task]
        /\ task'[t] = Blank /\ \A u \in Tasks : u # t => task'[u] = task[u]
    BY <1>1, <2>1 DEF Delete, Edit, TypeOK
  <2> QED
    BY <2>1, <2>2
<1>2. CASE Tick(t)
  <2> DEFINE v == [task[t] EXCEPT !.done = TRUE]
  <2>1. /\ Quiet /\ asked' = asked /\ edits' \in Nat /\ task[t].held
        /\ task' = [task EXCEPT ![t] = v] /\ task[t] \in Task
    BY <1>2 DEF Tick, Edit, TypeOK
  <2>2. /\ v \in Task /\ v.mark = task[t].mark /\ v.notes = task[t].notes
        /\ v.held = task[t].held /\ Command(v) = Command(task[t])
    BY <2>1 DEF Task, Command
  <2>3. task'[t] = v /\ task' \in [Tasks -> Task] /\ \A u \in Tasks : u # t => task'[u] = task[u]
    BY <2>1, <2>2 DEF TypeOK
  <2> HIDE DEF v
  <2> QED
    BY <2>1, <2>2, <2>3
<1>3. CASE Propagate(t)
  BY <1>3 DEF Propagate, TypeOK, Task, Command
<1>4. CASE \E w \in Wordings[t] : Retitle(t, w) /\ (task[t].mark # "none" \/ task[t].notes # Null)
  <2>1. PICK w \in Wordings[t] : Retitle(t, w) /\ (task[t].mark # "none" \/ task[t].notes # Null)
    BY <1>4
  <2>2. w.title \in Texts \cup {Null} /\ task[t] \in Task
    BY WordsAreTexts DEF Worded, TypeOK
  <2>3. /\ Quiet /\ asked' = asked /\ edits' \in Nat
        /\ task' = [task EXCEPT ![t] = [task[t] EXCEPT !.title = w.title]]
    BY <2>1 DEF Retitle, Edit, TypeOK
  <2>4. [task[t] EXCEPT !.title = w.title] \in Task
    BY <2>2 DEF Task
  <2>5. /\ task' \in [Tasks -> Task] /\ task'[t] = [task[t] EXCEPT !.title = w.title]
        /\ \A u \in Tasks : u # t => task'[u] = task[u]
    BY <2>3, <2>4 DEF TypeOK
  <2>6. /\ task'[t].mark = task[t].mark /\ task'[t].notes = task[t].notes
        /\ task'[t].held = task[t].held
    BY <2>2, <2>5 DEF Task
  <2>7. task[t].mark = "none" => Command(task'[t]) = Command(task[t])
    BY <2>1, <2>6 DEF Command
  <2> QED
    BY <2>3, <2>5, <2>6, <2>7
<1> QED
  BY <1>1, <1>2, <1>3, <1>4

\* Every step of the user gives a task something to do, or does not.
LEMMA UserGivesOrNot ==
    ASSUME IInv, UserStep
    PROVE  \E t \in Tasks : (\E v \in Task : Gives(t, v)) \/ Plain(t)
<1>1. PICK t \in Tasks : \/ \E w \in Wordings[t] : Write(t, w) \/ Rewrite(t, w) \/ Retitle(t, w)
                         \/ Delete(t) \/ Tick(t) \/ Propagate(t)
  BY DEF UserStep
<1>2. CASE Delete(t) \/ Tick(t) \/ Propagate(t)
  BY <1>2, UserPlain
<1>3. CASE \E w \in Wordings[t] : Write(t, w) \/ Rewrite(t, w) \/ Retitle(t, w)
  <2>1. PICK w \in Wordings[t] : Write(t, w) \/ Rewrite(t, w) \/ Retitle(t, w)
    BY <1>3
  <2>2. CASE Retitle(t, w) /\ (task[t].mark # "none" \/ task[t].notes # Null)
    BY <2>2, UserPlain
  <2>3. CASE ~(Retitle(t, w) /\ (task[t].mark # "none" \/ task[t].notes # Null))
    BY <2>1, <2>3, UserGives
  <2> QED
    BY <2>2, <2>3
<1> QED
  BY <1>1, <1>2, <1>3

\* The latter keep the invariant: nothing is asked for or run.
LEMMA WithdrawIInv == ASSUME IInv, NEW t \in Tasks, Plain(t) PROVE IInv'
<1> USE DEF IInv
<1>1. Quiet /\ asked' = asked /\ edits' \in Nat
  BY DEF Plain
<1>2. /\ \A u \in Tasks : u # t => task'[u] = task[u]
      /\ task'[t].mark # "none" => task'[t].mark = task[t].mark /\ task'[t].notes = task[t].notes
                                   /\ task'[t].held = task[t].held
      /\ task'[t].held => /\ task[t].held /\ task'[t].mark = task[t].mark
                          /\ task[t].mark = "none" => Command(task'[t]) = Command(task[t])
      /\ task' \in [Tasks -> Task]
  BY DEF Plain
<1>3. TypeOK'
  BY <1>1, <1>2 DEF TypeOK, Quiet
<1>4. BatchOK' /\ HandOK'
  BY <1>1, <1>2 DEF BatchOK, HandOK, Quiet
<1>5. TaskOK'
  BY <1>1, <1>2 DEF TaskOK
<1>6. CountOK'
  BY <1>1, <1>2 DEF CountOK, Runnable, InHand, Quiet
<1> QED
  BY <1>3, <1>4, <1>5, <1>6

\* Listing picks up unanswered commands only.
LEMMA ListIInv ==
    ASSUME IInv, Poll \/ \E l \in Lists : List(l)
    PROVE  IInv'
<1> USE DEF IInv
<1>1. CASE Poll
  BY <1>1 DEF Poll, User, TypeOK, BatchOK, HandOK, TaskOK, CountOK, Runnable, InHand
<1>2. CASE \E l \in Lists : List(l)
  <2>1. PICK l \in Lists : List(l)
    BY <1>2
  <2> USE <2>1 DEF List, User
  <2>2. \A u \in Tasks : \/ batch'[u] = batch[u]
                         \/ /\ batch'[u] = [title |-> task[u].title, notes |-> task[u].notes]
                            /\ task[u].held /\ task[u].mark = "none"
                            /\ Class[Command(task[u])] # "personal"
    BY DEF Pending, CommandShaped
  <2>3. \A u \in Tasks :
           LET w == [title |-> task[u].title, notes |-> task[u].notes]
           IN /\ w \in Worded /\ Command(w) = Command(task[u])
              /\ task[u].held /\ task[u].mark = "none" => Command(w) \in Range(asked[u])
    BY DEF TaskOK, TypeOK, Task, Worded, Command
  <2>4. TypeOK'
    <3>1. batch' \in [Tasks -> Worded \cup {Null}]
      BY <2>2, <2>3 DEF TypeOK
    <3> QED
      BY <3>1 DEF TypeOK
  <2>5. BatchOK'
    BY <2>2, <2>3 DEF BatchOK
  <2>6. HandOK'
    BY DEF HandOK
  <2>7. TaskOK'
    BY DEF TaskOK
  <2>8. CountOK'
    <3>1. \A u \in Tasks : Runnable(u)' => Runnable(u)
      BY <2>2 DEF Runnable
    <3> QED
      BY <3>1 DEF CountOK, InHand
  <2> QED
    BY <2>4, <2>5, <2>6, <2>7, <2>8
<1> QED
  BY <1>1, <1>2

\* Parsing takes a listed task in hand.
LEMMA ParseIInv == ASSUME IInv, NEW t \in Tasks, Parse(t) PROVE IInv'
<1> USE DEF IInv, Parse, User
<1>1. TypeOK'
  BY NullAssumption DEF TypeOK
<1>2. BatchOK' /\ TaskOK'
  BY DEF BatchOK, TaskOK
<1>3. HandOK'
  BY DEF HandOK
<1>4. CountOK'
  <2>1. \A u \in Tasks : ~InHand(u)
    BY DEF InHand
  <2>2. Len(ran[t]) <= Len(asked[t]) + lost[t]
    BY DEF CountOK
  <2>3. \A u \in Tasks : Runnable(u)' <=> Runnable(u)
    BY DEF Runnable
  <2> QED
    BY <2>1, <2>2, <2>3 DEF CountOK
<1> QED
  BY <1>1, <1>2, <1>3, <1>4

\* The relay runs the command in hand at most once.
LEMMA RelayIInv == ASSUME IInv, Relay PROVE IInv'
<1> USE DEF IInv, User
<1> DEFINE x == Command(batch[cur])
<1>1. cur \in Tasks /\ batch[cur] # Null /\ x \in Texts /\ ran \in [Tasks -> Seq(Texts)]
  BY RangeTexts DEF Relay, TypeOK, HandOK, BatchOK
<1>2. /\ UNCHANGED <<task, lists, batch, cur, lost, asked, edits>>
      /\ pc = "relay" /\ pc' = "finish" /\ receipt' \in {"ok", "err"}
      /\ faults' \in Nat
  BY DEF Relay, TypeOK
<1>3. \/ Landed
      \/ ran' = ran /\ receipt' = "err"
  BY DEF Relay
<1> HIDE DEF x
<1>4. /\ Append(ran[cur], x) \in Seq(Texts) /\ Len(Append(ran[cur], x)) = Len(ran[cur]) + 1
      /\ x \in Range(Append(ran[cur], x))
  BY <1>1, Appended
<1>5. /\ ran' \in [Tasks -> Seq(Texts)]
      /\ \A u \in Tasks : u # cur => ran'[u] = ran[u]
      /\ ran'[cur] = ran[cur] \/ ran'[cur] = Append(ran[cur], x)
      /\ receipt' = "ok" => ran'[cur] = Append(ran[cur], x)
  BY <1>1, <1>3, <1>4 DEF Landed, x
<1>6. TypeOK'
  BY <1>1, <1>2, <1>5 DEF TypeOK
<1>7. BatchOK' /\ TaskOK'
  BY <1>2 DEF BatchOK, TaskOK
<1>8. HandOK'
  BY <1>1, <1>2, <1>4, <1>5 DEF HandOK, x
<1>9. CountOK'
  <2> SUFFICES ASSUME NEW u \in Tasks
               PROVE  /\ Len(ran'[u]) <= Len(asked[u]) + lost[u]
                      /\ Runnable(u)' /\ ~InHand(u)' => Len(ran'[u]) + 1 <= Len(asked[u]) + lost[u]
    BY <1>2 DEF CountOK
  <2>1. Len(ran[u]) \in Nat /\ Len(asked[u]) \in Nat /\ lost[u] \in Nat
    BY LenProperties DEF TypeOK
  <2>2. CASE u = cur
    <3>1. Len(ran[u]) + 1 <= Len(asked[u]) + lost[u]
      BY <2>2, <1>1, <1>2 DEF CountOK, Runnable, InHand
    <3>2. InHand(u)'
      BY <2>2, <1>2 DEF InHand
    <3> QED
      BY <3>1, <3>2, <2>1, <2>2, <1>4, <1>5
  <2>3. CASE u # cur
    BY <2>3, <1>2, <1>5 DEF CountOK, Runnable, InHand
  <2> QED
    BY <2>2, <2>3
<1> QED
  BY <1>6, <1>7, <1>8, <1>9

\* What a receipt leaves on a task: a mark, over the notes of a command it was given.
Quoted(t) == /\ task'[t].held /\ task'[t].mark # "none" /\ task'[t].mark = receipt
             /\ asked[t] # <<>> /\ \E x \in Range(asked[t]) : Class[x] # "personal"
             /\ task'[t].notes \in {Command(batch[t]), Null}
             /\ task'[t].notes # Null => Class[task'[t].notes] # "personal"

\* The receipt stands over the notes of the listed command, or over nothing.
LEMMA ReceiptQuotes ==
    ASSUME IInv, pc = "finish", cur \in Tasks, task[cur].held, task'[cur] = Receipted(cur)
    PROVE  Quoted(cur)
<1>1. task[cur] \in Task /\ receipt # "none" /\ receipt \in {"none", "ok", "err"}
      /\ batch[cur] # Null /\ batch[cur] \in Worded
  BY DEF IInv, TypeOK, HandOK
<1>2. /\ task'[cur].held /\ task'[cur].mark = receipt
      /\ task'[cur].notes = batch[cur].notes
  BY <1>1 DEF Receipted, Task
<1>3. /\ batch[cur].notes # Null => batch[cur].notes = Command(batch[cur])
      /\ Command(batch[cur]) \in Range(asked[cur]) /\ Class[Command(batch[cur])] # "personal"
  BY <1>1 DEF Command, IInv, BatchOK
<1>4. asked[cur] # <<>>
  BY DEF IInv, TaskOK
<1> QED
  BY <1>1, <1>2, <1>3, <1>4 DEF Quoted

\* The receipt closes the command in hand.
LEMMA FinishIInv == ASSUME IInv, Finish PROVE IInv'
<1> USE DEF IInv, User
<1>1. cur \in Tasks /\ batch[cur] # Null /\ batch[cur] \in Worded /\ Null \notin Tasks
  BY NullAssumption DEF Finish, TypeOK, HandOK
<1>2. /\ UNCHANGED <<lists, ran, lost, faults, asked, edits>>
      /\ pc = "finish" /\ pc' = "next" /\ receipt' = "none" /\ cur' = Null
      /\ task' = [task EXCEPT ![cur] = Receipted(cur)]
      /\ batch' = [batch EXCEPT ![cur] = Null]
  BY DEF Finish
<1>3. /\ task' \in [Tasks -> Task] /\ batch' \in [Tasks -> Worded \cup {Null}]
      /\ task'[cur] = Receipted(cur) /\ batch'[cur] = Null
      /\ \A u \in Tasks : u # cur => task'[u] = task[u] /\ batch'[u] = batch[u]
  <2>1. task[cur] \in Task /\ receipt \in {"none", "ok", "err"}
    BY <1>1 DEF TypeOK
  <2>2. Receipted(cur) \in Task
    BY <1>1, <2>1 DEF Task, Worded, Receipted
  <2> QED
    BY <1>1, <1>2, <2>2 DEF TypeOK
<1>4. TypeOK'
  BY <1>1, <1>2, <1>3 DEF TypeOK
<1>5. BatchOK'
  BY <1>2, <1>3 DEF BatchOK
<1>6. HandOK'
  BY <1>2 DEF HandOK
<1>7. Quoted(cur)
  BY <1>1, <1>3, ReceiptQuotes DEF Finish
<1>8. TaskOK'
  BY <1>1, <1>2, <1>3, <1>7 DEF TaskOK, Quoted
<1>9. CountOK'
  BY <1>7, <1>1, <1>2, <1>3 DEF CountOK, Runnable, InHand, Quoted
<1> QED
  BY <1>4, <1>5, <1>6, <1>8, <1>9

\* A run that ends, of itself or not, leaves nothing in hand, and counts what it
\* had in hand as lost.
LEMMA StopIInv ==
    ASSUME IInv, Done \/ NotFound \/ Fail
    PROVE  IInv'
<1> USE DEF IInv, User
<1>1. /\ Stop /\ UNCHANGED <<ran, asked, edits>> /\ faults' \in Nat
      /\ Null \notin Tasks
  BY NullAssumption DEF Done, NotFound, Fail, TypeOK
<1>2. \/ pc \notin {"relay", "finish"} /\ lost' = lost
      \/ pc \in {"relay", "finish"} /\ cur \in Tasks /\ lost' = [lost EXCEPT ![cur] = @ + 1]
  BY <1>1 DEF Done, NotFound, Fail, Forget, TypeOK
<1>3. \/ task' = task
      \/ /\ pc = "finish" /\ cur \in Tasks /\ task[cur].held
         /\ task' = [task EXCEPT ![cur] = Receipted(cur)]
  BY DEF Done, NotFound, Fail, TypeOK
<1>4. lost' \in [Tasks -> Nat] /\ \A u \in Tasks : lost'[u] >= lost[u]
  <2>1. CASE lost' = lost
    BY <2>1 DEF TypeOK
  <2>2. CASE cur \in Tasks /\ lost' = [lost EXCEPT ![cur] = lost[cur] + 1]
    BY <2>2 DEF TypeOK
  <2> QED
    BY <2>1, <2>2, <1>2
<1>5. /\ task' \in [Tasks -> Task]
      /\ \A u \in Tasks : task'[u] = task[u]
           \/ (u = cur /\ pc = "finish" /\ Quoted(u))
  <2>1. CASE task' = task
    BY <2>1 DEF TypeOK
  <2>2. CASE /\ pc = "finish" /\ cur \in Tasks /\ task[cur].held
             /\ task' = [task EXCEPT ![cur] = Receipted(cur)]
    <3>1. Receipted(cur) \in Task
      <4>1. task[cur] \in Task /\ batch[cur] \in Worded /\ receipt \in {"none", "ok", "err"}
        BY <2>2 DEF TypeOK, HandOK
      <4> QED
        BY <4>1 DEF Receipted, Task, Worded
    <3>2. task'[cur] = Receipted(cur) /\ task' \in [Tasks -> Task]
          /\ \A u \in Tasks : u # cur => task'[u] = task[u]
      BY <2>2, <3>1 DEF TypeOK
    <3> QED
      BY <2>2, <3>2, ReceiptQuotes
  <2> QED
    BY <1>3, <2>1, <2>2
<1>6. TypeOK'
  BY <1>1, <1>4, <1>5 DEF TypeOK, Stop, NoBatch
<1>7. BatchOK' /\ HandOK'
  BY <1>1 DEF BatchOK, HandOK, Stop, NoBatch
<1>8. TaskOK'
  BY <1>1, <1>5 DEF TaskOK, Quoted
<1>9. CountOK'
  <2> SUFFICES ASSUME NEW u \in Tasks
               PROVE  /\ Len(ran[u]) <= Len(asked[u]) + lost'[u]
                      /\ Runnable(u)' => Len(ran[u]) + 1 <= Len(asked[u]) + lost'[u]
    BY <1>1 DEF CountOK
  <2>1. Len(ran[u]) \in Nat /\ Len(asked[u]) \in Nat /\ lost[u] \in Nat /\ lost'[u] \in Nat
    BY <1>4, LenProperties DEF TypeOK
  <2>2. Len(ran[u]) <= Len(asked[u]) + lost[u]
    BY DEF CountOK
  <2>3. CASE InHand(u)
    <3>1. lost'[u] = lost[u] + 1
      BY <2>3, <1>2 DEF InHand, TypeOK
    <3> QED
      BY <3>1, <2>1, <2>2
  <2>4. CASE ~InHand(u)
    <3>1. Runnable(u)' => Runnable(u)
      BY <2>4, <1>1, <1>5 DEF Runnable, InHand, Stop, NoBatch, Quoted
    <3> QED
      BY <3>1, <2>1, <2>2, <2>4, <1>4 DEF CountOK
  <2> QED
    BY <2>3, <2>4
<1> QED
  BY <1>6, <1>7, <1>8, <1>9

\* Every step keeps the invariant.
LEMMA NextIInv == IInv /\ [Next]_vars => IInv'
<1> SUFFICES ASSUME IInv, [Next]_vars PROVE IInv'
  OBVIOUS
<1>1. CASE UNCHANGED vars
  BY <1>1 DEF vars, IInv, TypeOK, BatchOK, HandOK, TaskOK, CountOK, Runnable, InHand
<1>2. CASE UserStep
  BY <1>2, UserGivesOrNot, GiveIInv, WithdrawIInv
<1>3. CASE Executor
  BY <1>3, ListIInv, ParseIInv, RelayIInv, FinishIInv, StopIInv DEF Executor
<1>4. CASE Fail
  BY <1>4, StopIInv
<1> QED
  BY <1>1, <1>2, <1>3, <1>4 DEF Next

\* The inductive invariant of the inbox: what is listed is unanswered, a tick in
\* hand was earned, and a task that may still run has a run left.
THEOREM Invariant == Spec => []IInv
<1>1. Init => IInv
  BY InitIInv
<1>2. IInv /\ [Next]_vars => IInv'
  BY NextIInv
<1> QED
  BY <1>1, <1>2, PTL DEF Spec

\* A command runs once for each time it was asked for, and again only when the
\* executor lost hold of it before its receipt was written.
THEOREM RunsAsAsked == Spec => []RanAsAsked
<1>1. IInv => RanAsAsked
  BY DEF IInv, CountOK, RanAsAsked
<1> QED
  BY <1>1, Invariant, PTL

\* A task that was only ever personal has no receipt, and no receipt stands over
\* personal notes.
THEOREM PersonalTasksAreLeftAlone == Spec => []PersonalLeftAlone
<1>1. IInv => PersonalLeftAlone
  BY DEF IInv, TaskOK, PersonalLeftAlone
<1> QED
  BY <1>1, Invariant, PTL

\* The variables of the inbox stay in their types.
THEOREM Types == Spec => []TypeOK
<1>1. IInv => TypeOK
  BY DEF IInv
<1> QED
  BY <1>1, Invariant, PTL

-----------------------------------------------------------------------------
(* The executor implements CommandLog: each step of it, of the user and of *)
(* the network is a step of the log, or changes nothing there.             *)

\* The empty inbox is the empty log.
LEMMA LogInit == Init => Log!Init
<1> SUFFICES ASSUME Init PROVE Log!Init
  OBVIOUS
<1>1. Range(<<>>) = {}
  BY DEF Range
<1> QED
  BY <1>1 DEF Init, Log!Init, Given, Performed, Answer, About, Blank

\* Giving a task a command asks for it.
LEMMA GiveAsks ==
    ASSUME IInv, NEW t \in Tasks, NEW v \in Task, Gives(t, v)
    PROVE  Command(v) \in Texts /\ Log!Ask(t, Command(v))
<1> DEFINE x == Command(v)
<1>1. x \in Texts /\ ran' = ran
  BY DEF Gives, Quiet
<1>2. /\ asked' = [asked EXCEPT ![t] = Append(asked[t], x)] /\ task' = [task EXCEPT ![t] = v]
      /\ asked[t] \in Seq(Texts) /\ asked \in [Tasks -> Seq(Texts)] /\ task \in [Tasks -> Task]
  BY DEF Gives, Ask, IInv, TypeOK
<1> HIDE DEF x
<1>3. /\ Range(asked'[t]) = Range(asked[t]) \cup {x}
      /\ \A u \in Tasks : u # t => asked'[u] = asked[u] /\ task'[u] = task[u]
      /\ task'[t].held /\ task'[t].mark = "none"
  BY <1>1, <1>2, Appended DEF Gives
<1>4. Given' = [Given EXCEPT ![t] = @ \cup {x}]
  BY <1>3 DEF Given
<1>5. Performed' = Performed
  BY <1>1 DEF Performed
<1>6. [u \in Tasks |-> Answer(u)]' = [[u \in Tasks |-> Answer(u)] EXCEPT ![t] = "none"]
  BY <1>3 DEF Answer
<1>7. [u \in Tasks |-> About(u)]' = [[u \in Tasks |-> About(u)] EXCEPT ![t] = Null]
  BY <1>3 DEF About
<1> QED
  BY <1>1, <1>4, <1>5, <1>6, <1>7 DEF Log!Ask, x

\* A step that leaves the tasks' marks, notes under them and histories alone is none of the
\* log's business.
LEMMA Unlogged ==
    ASSUME asked' = asked, ran' = ran,
           \A u \in Tasks : /\ task'[u].held = task[u].held /\ task'[u].mark = task[u].mark
                            /\ task[u].mark # "none" => task'[u].notes = task[u].notes
    PROVE  UNCHANGED Log!vars
<1>1. Given' = Given /\ Performed' = Performed
  BY DEF Given, Performed
<1>2. [u \in Tasks |-> Answer(u)]' = [u \in Tasks |-> Answer(u)]
  BY DEF Answer
<1>3. [u \in Tasks |-> About(u)]' = [u \in Tasks |-> About(u)]
  BY DEF About
<1> QED
  BY <1>1, <1>2, <1>3 DEF Log!vars

\* A step of the user that leaves the task there leaves its receipt alone.
LEMMA UnmarkedPlain ==
    ASSUME IInv, NEW t \in Tasks, Plain(t), task'[t].held = task[t].held
    PROVE  /\ asked' = asked /\ ran' = ran
           /\ \A u \in Tasks : /\ task'[u].held = task[u].held /\ task'[u].mark = task[u].mark
                               /\ task[u].mark # "none" => task'[u].notes = task[u].notes
  BY DEF Plain, Quiet, IInv, TaskOK

\* One that takes the task away withdraws its command.
LEMMA PlainWithdraws ==
    ASSUME IInv, NEW t \in Tasks, Plain(t), task'[t].held # task[t].held
    PROVE  Log!Withdraw(t)
<1>1. /\ asked' = asked /\ ran' = ran
      /\ task'[t].mark = "none" /\ ~task'[t].held /\ asked[t] # <<>>
      /\ \A u \in Tasks : u # t => task'[u] = task[u]
  <2>1. task[t].held \in BOOLEAN /\ task'[t].held \in BOOLEAN
    BY DEF Plain, IInv, TypeOK, Task
  <2> QED
    BY <2>1 DEF Plain, Quiet, IInv, TaskOK
<1>2. Given' = Given /\ Performed' = Performed
  BY <1>1 DEF Given, Performed
<1>3. [u \in Tasks |-> Answer(u)]' = [[u \in Tasks |-> Answer(u)] EXCEPT ![t] = "withdrawn"]
  <2>1. Answer(t)' = "withdrawn"
    BY <1>1 DEF Answer
  <2>2. \A u \in Tasks : u # t => Answer(u)' = Answer(u)
    BY <1>1 DEF Answer
  <2> QED
    BY <2>1, <2>2, Zenon
<1>4. [u \in Tasks |-> About(u)]' = [[u \in Tasks |-> About(u)] EXCEPT ![t] = Null]
  BY <1>1 DEF About
<1> QED
  BY <1>2, <1>3, <1>4 DEF Log!Withdraw

\* A request that lands performs a command that was asked for and is unanswered.
LEMMA RelayPerforms ==
    ASSUME IInv, pc = "relay", Landed, task' = task, asked' = asked
    PROVE  Log!Perform(cur, Command(batch[cur])) /\ Command(batch[cur]) \in Texts
<1> DEFINE x == Command(batch[cur])
<1>1. /\ cur \in Tasks /\ batch[cur] # Null /\ x \in Texts
      /\ x \in Range(asked[cur]) /\ task[cur].mark = "none"
      /\ ran \in [Tasks -> Seq(Texts)] /\ ran' = [ran EXCEPT ![cur] = Append(@, x)]
  BY RangeTexts DEF IInv, TypeOK, HandOK, BatchOK, Landed
<1> HIDE DEF x
<1>2. /\ Range(ran'[cur]) = Range(ran[cur]) \cup {x}
      /\ \A u \in Tasks : u # cur => ran'[u] = ran[u]
  BY <1>1, Appended
<1>3. Performed' = Performed \cup {<<cur, x>>}
  <2>1. ASSUME NEW u \in Tasks, NEW y \in Texts
        PROVE  y \in Range(ran'[u]) <=> y \in Range(ran[u]) \/ (u = cur /\ y = x)
    BY <1>2
  <2> QED
    BY <2>1, <1>1 DEF Performed
<1>4. x \in Given[cur] /\ [u \in Tasks |-> Answer(u)][cur] \in {"none", "withdrawn"}
  BY <1>1 DEF Given, Answer
<1>5. /\ Given' = Given
      /\ [u \in Tasks |-> Answer(u)]' = [u \in Tasks |-> Answer(u)]
      /\ [u \in Tasks |-> About(u)]' = [u \in Tasks |-> About(u)]
  BY DEF Given, Answer, About
<1> QED
  BY <1>1, <1>3, <1>4, <1>5 DEF Log!Perform, x

\* A receipt answers the command in hand.
LEMMA ReceiptAnswers ==
    ASSUME IInv, pc = "finish", ran' = ran, asked' = asked, task[cur].held,
           task' = [task EXCEPT ![cur] = Receipted(cur)]
    PROVE  Log!Answer(cur, Command(batch[cur]), receipt) /\ cur \in Tasks
           /\ Command(batch[cur]) \in Texts /\ receipt \in {"ok", "err"}
<1>0. PICK x : x = Command(batch[cur])
  OBVIOUS
<1>1. /\ cur \in Tasks /\ batch[cur] # Null /\ batch[cur] \in Worded /\ x \in Texts
      /\ x \in Range(asked[cur]) /\ task[cur].mark = "none" /\ task[cur] \in Task
      /\ receipt \in {"ok", "err"}
      /\ receipt = "ok" => x \in Range(ran[cur])
  BY <1>0, RangeTexts DEF IInv, TypeOK, HandOK, BatchOK
<1>2. /\ task'[cur].mark = receipt /\ task'[cur].notes \in {x, Null}
      /\ \A u \in Tasks : u # cur => task'[u] = task[u]
  <2>1. task'[cur] = Receipted(cur) /\ \A u \in Tasks : u # cur => task'[u] = task[u]
    BY <1>1 DEF IInv, TypeOK
  <2> QED
    BY <1>0, <1>1, <2>1, ReceiptQuotes DEF Quoted
<1>3. x \in Given[cur] /\ [u \in Tasks |-> Answer(u)][cur] \in {"none", "withdrawn"}
  BY <1>1 DEF Given, Answer
<1>4. receipt = "ok" => <<cur, x>> \in Performed
  BY <1>1 DEF Performed
<1>5. Given' = Given /\ Performed' = Performed
  BY DEF Given, Performed
<1>6. [u \in Tasks |-> Answer(u)]' = [[u \in Tasks |-> Answer(u)] EXCEPT ![cur] = receipt]
  <2>1. \A u \in Tasks : u = cur => Answer(u)' = receipt
    <3>1. task'[cur].mark = receipt /\ receipt # "none"
      BY <1>1, <1>2
    <3> QED
      BY <3>1 DEF Answer
  <2>2. \A u \in Tasks : u # cur => Answer(u)' = Answer(u)
    BY <1>1, <1>2 DEF Answer
  <2> QED
    BY <2>1, <2>2, Zenon
<1>7. \E q \in {x, Null} :
         [u \in Tasks |-> About(u)]' = [[u \in Tasks |-> About(u)] EXCEPT ![cur] = q]
  <2>1. \A u \in Tasks : u = cur => About(u)' = task'[cur].notes
    <3>1. task'[cur].mark = receipt /\ receipt # "none"
      BY <1>1, <1>2
    <3> QED
      BY <3>1 DEF About
  <2>2. \A u \in Tasks : u # cur => About(u)' = About(u)
    BY <1>2 DEF About
  <2>3. [u \in Tasks |-> About(u)]'
          = [[u \in Tasks |-> About(u)] EXCEPT ![cur] = task'[cur].notes]
    BY <2>1, <2>2, Zenon
  <2> QED
    BY <2>3, <1>2
<1>8. Log!Answer(cur, x, receipt)
  BY <1>3, <1>4, <1>5, <1>6, <1>7 DEF Log!Answer
<1> QED
  BY <1>0, <1>1, <1>8

\* Every step of the inbox is a step of the log or leaves it alone.
LEMMA NextLogs == IInv /\ [Next]_vars => [Log!Next]_(Log!vars)
<1> SUFFICES ASSUME IInv, [Next]_vars PROVE Log!Next \/ UNCHANGED Log!vars
  OBVIOUS
<1>1. CASE UNCHANGED vars
  BY <1>1, Unlogged DEF vars
<1>2. CASE UserStep
  <2>1. PICK t \in Tasks : (\E v \in Task : Gives(t, v)) \/ Plain(t)
    BY <1>2, UserGivesOrNot
  <2>2. CASE \E v \in Task : Gives(t, v)
    BY <2>2, GiveAsks DEF Log!Next
  <2>3. CASE Plain(t) /\ task'[t].held = task[t].held
    BY <2>3, Unlogged, UnmarkedPlain
  <2>4. CASE Plain(t) /\ task'[t].held # task[t].held
    BY <2>4, PlainWithdraws DEF Log!Next
  <2> QED
    BY <2>1, <2>2, <2>3, <2>4
<1>3. CASE Executor
  <2>1. CASE Poll \/ Done \/ NotFound \/ (\E l \in Lists : List(l)) \/ (\E t \in Tasks : Parse(t))
    <3>1. asked' = asked /\ ran' = ran /\ task' = task
      BY <2>1 DEF Poll, Done, NotFound, List, Parse, User
    <3> QED
      BY <3>1, Unlogged
  <2>2. CASE Relay
    <3>1. pc = "relay" /\ task' = task /\ asked' = asked /\ (Landed \/ ran' = ran)
      BY <2>2 DEF Relay, User
    <3>2. CASE Landed
      <4>1. Log!Perform(cur, Command(batch[cur])) /\ Command(batch[cur]) \in Texts
        BY <3>1, <3>2, RelayPerforms
      <4>2. cur \in Tasks
        BY <3>1 DEF IInv, TypeOK
      <4> QED
        BY <4>1, <4>2 DEF Log!Next
    <3>3. CASE ran' = ran
      BY <3>1, <3>3, Unlogged
    <3> QED
      BY <3>1, <3>2, <3>3
  <2>3. CASE Finish
    <3>1. /\ pc = "finish" /\ ran' = ran /\ asked' = asked /\ task[cur].held
          /\ task' = [task EXCEPT ![cur] = Receipted(cur)]
      BY <2>3 DEF Finish, User
    <3> QED
      BY <3>1, ReceiptAnswers DEF Log!Next
  <2> QED
    BY <1>3, <2>1, <2>2, <2>3 DEF Executor
<1>4. CASE Fail
  <2>1. /\ asked' = asked /\ ran' = ran
        /\ \/ task' = task
           \/ /\ pc = "finish" /\ task[cur].held
              /\ task' = [task EXCEPT ![cur] = Receipted(cur)]
    BY <1>4 DEF Fail, User
  <2>2. CASE task' = task
    BY <2>1, <2>2, Unlogged
  <2>3. CASE /\ pc = "finish" /\ task[cur].held
             /\ task' = [task EXCEPT ![cur] = Receipted(cur)]
    BY <2>1, <2>3, ReceiptAnswers DEF Log!Next
  <2> QED
    BY <2>1, <2>2, <2>3
<1> QED
  BY <1>1, <1>2, <1>3, <1>4 DEF Next

\* The inbox implements CommandLog: a command is performed before it is ticked,
\* never after its receipt, and what a receipt quotes is the text that was run.
THEOREM ImplementsTheLog == Spec => KeepsTheLog
<1>1. Init => Log!Init
  BY LogInit
<1>2. IInv /\ [Next]_vars => [Log!Next]_(Log!vars)
  BY NextLogs
<1> QED
  BY <1>1, <1>2, Invariant, PTL DEF Spec, Log!Spec, KeepsTheLog

=============================================================================
