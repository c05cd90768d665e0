--------------------------- MODULE MCGenerateCase ----------------------------
(***************************************************************************)
(* Two requests race for one success a day and three attempts between      *)
(* them, over a midnight.                                                  *)
(***************************************************************************)
EXTENDS GenerateCase
=============================================================================
