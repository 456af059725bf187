------------------------------- MODULE MCElope -------------------------------
(***************************************************************************)
(* One device: a property that is validated and announced (op), one that   *)
(* the network may only read but the command socket may set (fault), one   *)
(* without functions that set (ver).                                       *)
(***************************************************************************)
EXTENDS Elope

CONSTANTS prof, dev, op, fault, ver, d5, v1, v2, v3

MCObjects == {prof, dev}
MCEPC == {op, fault, ver, d5}
MCValue == {v1, v2, v3}

Prop(s, sf, bad, asserts) ==
  [set |-> s, setf |-> sf, get |-> TRUE, getf |-> TRUE, anno |-> TRUE, size |-> 1,
   getret |-> 1, asserts |-> asserts,
   setret |-> [v \in MCValue |-> IF v \in bad THEN -1 ELSE 1]]

MCTable ==
  [o \in MCObjects |->
     IF o = prof THEN [e \in {d5} |-> Prop(FALSE, FALSE, {}, FALSE)]
     ELSE [e \in {op, fault, ver} |->
             CASE e = op    -> Prop(TRUE, TRUE, {v3}, FALSE)
               [] e = fault -> Prop(FALSE, TRUE, {}, TRUE)
               [] e = ver   -> Prop(FALSE, FALSE, {}, FALSE)]]
MCInitValue == [o \in MCObjects |-> [e \in MCEPC |-> v1]]

I(e, n, v) == [epc |-> e, pdc |-> n, edt |-> v]
Cmd(s, o, it) == [svc |-> s, deoj |-> o, item |-> it]
AllCommands ==
  {Cmd("set", dev, I(op, 1, v2)), Cmd("set", dev, I(op, 1, v3)),
   Cmd("set", dev, I(op, 0, NoData)), Cmd("set", dev, I(fault, 1, v2)),
   Cmd("set", dev, I(fault, 0, NoData)), Cmd("set", dev, I(ver, 1, v2)),
   Cmd("get", dev, I(op, 0, NoData)), Cmd("get", prof, I(op, 0, NoData))}

\* One for each way a command can end that is found: taken or refused (the data is
\* short, and the setter reads any value), the death of the node, got.
ThreeCommands ==
  {Cmd("set", dev, I(op, 0, NoData)), Cmd("set", dev, I(fault, 0, NoData)),
   Cmd("get", dev, I(op, 0, NoData))}
TwoCommands == {Cmd("set", dev, I(op, 1, v3)), Cmd("set", dev, I(fault, 1, v2))}

MCArriving ==
  {setup_frame(7, prof, dev, "SetC", 2, <<I(op, 1, v1), I(op, 1, v2)>>),
   setup_frame(7, prof, dev, "SetI", 1, <<I(fault, 1, v1)>>)}
=============================================================================
