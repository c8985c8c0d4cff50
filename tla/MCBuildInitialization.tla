------------------------ MODULE MCBuildInitialization ------------------------
(* Two Builds that name the same selection; the first also learns a site.  *)
(* MCOne is the first alone.                                               *)
EXTENDS BuildInitialization, TLC
CONSTANTS b1, b2, folder, site
MCOne == {b1}
MCBrains == {b1, b2}
MCSelections == {folder}
MCResources == (b1 :> <<site, folder>>) @@ (b2 :> <<folder>>)
=============================================================================
