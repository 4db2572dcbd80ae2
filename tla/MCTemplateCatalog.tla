------------------------- MODULE MCTemplateCatalog -------------------------
(***************************************************************************)
(* TemplateCatalog for TLC: no template, one template, another body for it *)
(* beside a second template, and a set the owner refuses.                  *)
(***************************************************************************)
EXTENDS TemplateCatalog

Paper(body) == [name |-> "paper", game |-> "minecraft", body |-> body]
Bedrock == [name |-> "bedrock", game |-> "minecraft", body |-> 1]
Gameless == [name |-> "lobby", game |-> "", body |-> 1]

MCTemplateSets == {{}, {Paper(1)}, {Paper(2), Bedrock}, {Paper(1), Gameless}}
=============================================================================
