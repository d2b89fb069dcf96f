--------------------------- MODULE MCOrderOverride ---------------------------
(* One override request, holding its copy of the order across any other steps, *)
(* and one rider.                                                             *)
EXTENDS OrderOverride

DefaultStages == PrePickupStages
=============================================================================
