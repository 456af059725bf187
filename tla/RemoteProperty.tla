--------------------------- MODULE RemoteProperty ---------------------------
(***************************************************************************)
(* What a client of mls_elnet_rpc may rely on for a property of a node     *)
(* that no other client sets, over a network that keeps the order: a       *)
(* register that is written by calls which may fail, and may take effect   *)
(* late or several times, but never after a later call has succeeded; and  *)
(* that begins anew when the node's process has died.                      *)
(***************************************************************************)
CONSTANTS
  Value, \* the values of the property
  Start, \* the one it has when the process starts
  None   \* what was asked for before the first call

VARIABLES
  up,    \* does the process live?
  value, \* the property
  state, \* of the client's last call: "idle" (none), "wait", "ok", "failed"
  asked, \* the value it asked for
  may    \* the values that calls so far may still store

vars == <<up, value, state, asked, may>>

Init ==
  /\ up = TRUE
  /\ value = Start
  /\ state = "idle"
  /\ asked = None
  /\ may = {}

\* What may still be stored gets less in time, but not what a call insists on.
Fewer(S) ==
  /\ may' \subseteq S
  /\ state' = "wait" => asked' \in may'

Call(v) ==
  /\ state # "wait"
  /\ state' = "wait"
  /\ asked' = v
  /\ Fewer(may \cup {v})
  /\ UNCHANGED <<up, value>>

Store ==
  /\ up
  /\ value' \in may
  /\ Fewer(may)
  /\ UNCHANGED <<up, state, asked>>

Forget == Fewer(may) /\ UNCHANGED <<up, value, state, asked>>

\* Success: the property has the value, and nothing is left that could change it.
Succeed ==
  /\ up
  /\ state = "wait"
  /\ state' = "ok"
  /\ value = asked
  /\ may \subseteq {asked}
  /\ Fewer(may)
  /\ UNCHANGED <<up, value, asked>>

\* Failure says nothing: the value may be stored already, now or later.
Fail ==
  /\ state = "wait"
  /\ state' = "failed"
  /\ Fewer(may)
  /\ UNCHANGED <<up, value, asked>>

\* A death takes with it what was acknowledged.
Die ==
  /\ up
  /\ up' = FALSE
  /\ state' = IF state = "ok" THEN "failed" ELSE state
  /\ Fewer(may)
  /\ UNCHANGED <<value, asked>>

Restart ==
  /\ ~up
  /\ up' = TRUE
  /\ value' = Start
  /\ Fewer(may)
  /\ UNCHANGED <<state, asked>>

Next ==
  \/ (\E v \in Value : Call(v)) \/ Store \/ Forget \/ Succeed \/ Fail
  \/ Die \/ Restart

Returns == state = "wait" ~> state # "wait"

Safety == Init /\ [][Next]_vars

Spec == Safety /\ Returns
-----------------------------------------------------------------------------
\* What follows: an acknowledged value stays until the client calls again, or the
\* process dies.
OkStays == state = "ok" => up /\ value = asked /\ may \subseteq {asked}
=============================================================================
