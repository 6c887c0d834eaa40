---------------------------- MODULE MCDeltaPoll -----------------------------
(***************************************************************************)
(* Instances of DeltaPoll.                                                 *)
(***************************************************************************)
EXTENDS DeltaPoll, TLC

CONSTANTS area, note, deep   \* a spine row, its child page, and that page's child

ParentMC == (area :> Null) @@ (note :> area) @@ (deep :> note)
ParentTwo == (area :> Null) @@ (note :> area)
=============================================================================
