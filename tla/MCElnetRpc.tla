----------------------------- MODULE MCElnetRpc -----------------------------
(***************************************************************************)
(* One device with an announced property that refuses the value v4, and    *)
(* clients that set and read it.                                           *)
(***************************************************************************)
EXTENDS ElnetRegister

CONSTANTS prof, dev, op, d5, v1, v2, v3, v4, c1

MCObjects == {prof, dev}
MCEPC == {op, d5}
MCValue == {v1, v2, v3, v4}

Prop(s) ==
  [set |-> s, setf |-> s, get |-> TRUE, getf |-> TRUE, anno |-> TRUE, size |-> 1,
   getret |-> 1, asserts |-> FALSE,
   setret |-> [v \in MCValue |-> IF v = v4 THEN -1 ELSE 1]]
MCTable ==
  [o \in MCObjects |-> IF o = dev THEN [e \in {op} |-> Prop(TRUE)]
                                  ELSE [e \in {d5} |-> Prop(FALSE)]]
MCInitValue == [o \in MCObjects |-> [e \in MCEPC |-> v1]]

SetReq(esv, v) == [deoj |-> dev, esv |-> esv,
                   items |-> <<[epc |-> op, pdc |-> 1, edt |-> v]>>]
GetReq == [deoj |-> dev, esv |-> "Get",
           items |-> <<[epc |-> op, pdc |-> 0, edt |-> NoData]>>]
Sets == {SetReq("SetC", v2), SetReq("SetC", v3), SetReq("SetC", v4)}
SetIAndGet == {SetReq("SetI", v2), GetReq}

MCAsks == [c \in Clients |-> Requests]

\* Every frame a client or the node itself may send to the node.
MCArriving ==
  {setup_frame(t, prof, r.deoj, r.esv, 1, r.items) :
     t \in 1..MaxCalls, r \in Requests}
  \cup {setup_frame(t, o, prof, "INF", 1, <<[epc |-> e, pdc |-> 1, edt |-> v]>>) :
          t \in 0..(TidMod - 1), o \in MCObjects, e \in MCEPC, v \in MCValue}
=============================================================================
