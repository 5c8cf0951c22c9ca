------------------------------ MODULE MCMvpPoller ------------------------------
(* An instance of MvpPoller for TLC: two CAT I articles, one of which      *)
(* appears twice, a routine one, and one that cannot be stored, alone and  *)
(* filling a page.                                                         *)
EXTENDS MvpPoller

CONSTANTS flash, bad, late, plain

MCItemOf == <<flash, bad, flash, late, bad, bad, plain>>
=============================================================================
