------------------------------- MODULE MCEvt -------------------------------
(***************************************************************************)
(* Two descriptors and two timers, of which handlers add and delete.       *)
(***************************************************************************)
EXTENDS Evt
CONSTANTS f1, f2, k1, k2
MCInitFds == <<f1, f2>>
MCInitKeys == <<k1, k2>>
MCTimeouts == {-1, 2}
=============================================================================
