--------------------------- MODULE MCCommandInbox ---------------------------
(***************************************************************************)
(* Instances of CommandInbox.                                              *)
(***************************************************************************)
EXTENDS CommandInbox, TLC

CONSTANTS t1, t2, mine, other, create, oops, milk

W(t, n)  == [title |-> t, notes |-> n]
ListsOf  == (t1 :> mine) @@ (t2 :> other)
OneList  == (t1 :> mine) @@ (t2 :> mine)
OneTask  == t1 :> mine
Alone    == t1 :> {}
AClass   == (create :> "request") @@ (milk :> "personal")
AWord    == t1 :> {W(create, Null), W(milk, create), W(milk, Null), W(milk, milk)}
Stacked  == (t1 :> {t2}) @@ (t2 :> {})
Words    == (t1 :> {W(create, Null), W(milk, create), W(oops, milk)})
            @@ (t2 :> {W(milk, create)})
Classes  == (create :> "request") @@ (milk :> "personal") @@ (oops :> "refused")
=============================================================================
