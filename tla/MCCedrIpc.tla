----------------------------- MODULE MCCedrIpc -----------------------------
(***************************************************************************)
(* An instance of CedrIpc for TLC: one sub_dag and one kill_daemon.        *)
(***************************************************************************)
EXTENDS CedrIpc

CONSTANTS sub, kill

OneOfEach == {sub, kill}
KillOnly == {kill}
=============================================================================
