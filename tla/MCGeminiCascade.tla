--------------------------- MODULE MCGeminiCascade ---------------------------
(***************************************************************************)
(* The orders a reload may give the cascade: both members, in the order of     *)
(* models.yaml or after a change of weight, or one of them alone.             *)
(***************************************************************************)
EXTENDS GeminiCascadeProps

CONSTANTS pro, flash

MCRosters == {<<pro, flash>>, <<flash, pro>>, <<flash>>}
==============================================================================
