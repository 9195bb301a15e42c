------------------------------ MODULE MCReload ------------------------------
(* Reload with a few versions: the first is the running one, each further   *)
(* one is written by a notification.                                        *)
EXTENDS Reload, TLC
==============================================================================
