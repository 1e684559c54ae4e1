--------------------------- MODULE MCReactionSync ---------------------------
(* An instance of ReactionSync: the two pairs of the emoji table that share   *)
(* an emoji.  The first loses it, so that no emoji stands for "smile".        *)
EXTENDS ReactionSync

MCTable == << <<"slight-smile", "smile">>, <<"slight-smile", "nod">> >>
==============================================================================
