------------------------------ MODULE MCMirror ------------------------------
(***************************************************************************)
(* Instances of Mirror.                                                    *)
(***************************************************************************)
EXTENDS Mirror, TLC

CONSTANTS area, proj, child, loose, action   \* loose is a root of LOOSE_PAGES

KindMC == (area :> "area") @@ (proj :> "project") @@ (child :> "page")
HomeMC == (area :> Null) @@ (proj :> area) @@ (child :> area)

KindRow == KindMC @@ (action :> "action")
HomeRow == HomeMC @@ (action :> Null)

KindTwo == (loose :> "loose") @@ (child :> "page")
HomeTwo == (loose :> Null) @@ (child :> loose)
=============================================================================
