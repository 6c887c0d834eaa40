----------------------------- MODULE CommandLog -----------------------------
(***************************************************************************)
(* What the command inbox promises to whoever writes a command into a      *)
(* Google Tasks task and reads its notes for the receipt (engines/         *)
(* docs_gen.py, the _Commands Doc): a command is performed at least once   *)
(* before it is answered with a tick, never after its answer, and what an  *)
(* answer quotes, if it quotes anything, is the text it answers.           *)
(***************************************************************************)
CONSTANTS Tasks, Texts, Null

VARIABLES asked,     \* [Tasks -> the texts the task was given]
          performed, \* <<task, text>>: the commands that changed Notion
          answer,    \* [Tasks -> "none", a receipt "ok" or "err", or "withdrawn"]
          about      \* [Tasks -> the text its receipt quotes, Null when it quotes none]

vars == <<asked, performed, answer, about>>

Init == /\ asked = [t \in Tasks |-> {}]
        /\ performed = {}
        /\ answer = [t \in Tasks |-> "none"]
        /\ about = [t \in Tasks |-> Null]

Ask(t, x) == /\ asked' = [asked EXCEPT ![t] = @ \cup {x}]
             /\ answer' = [answer EXCEPT ![t] = "none"]
             /\ about' = [about EXCEPT ![t] = Null]
             /\ UNCHANGED performed

\* A command that is already on its way is not called back.
Withdraw(t) == /\ answer' = [answer EXCEPT ![t] = "withdrawn"]
               /\ about' = [about EXCEPT ![t] = Null]
               /\ UNCHANGED <<asked, performed>>

Perform(t, x) == /\ x \in asked[t] /\ answer[t] \in {"none", "withdrawn"}
                 /\ performed' = performed \cup {<<t, x>>}
                 /\ UNCHANGED <<asked, answer, about>>

Answer(t, x, mark) == /\ x \in asked[t] /\ answer[t] \in {"none", "withdrawn"}
                      /\ mark = "ok" => <<t, x>> \in performed
                      /\ answer' = [answer EXCEPT ![t] = mark]
                      /\ \E quoted \in {x, Null} : about' = [about EXCEPT ![t] = quoted]
                      /\ UNCHANGED <<asked, performed>>

Next == \E t \in Tasks :
            \/ Withdraw(t)
            \/ \E x \in Texts : \/ Ask(t, x) \/ Perform(t, x)
                                \/ \E mark \in {"ok", "err"} : Answer(t, x, mark)

Spec == Init /\ [][Next]_vars
=============================================================================
