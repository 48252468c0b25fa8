--------------------------- MODULE QuestionDeckMC ---------------------------
(***************************************************************************)
(* Two versions of the site: the only question of the first is gone in the *)
(* second, which has two others.                                           *)
(***************************************************************************)
EXTENDS QuestionDeck

SampleCatalogs == <<{1}, {2, 3}>>
=============================================================================
