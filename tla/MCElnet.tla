------------------------------ MODULE MCElnet ------------------------------
(***************************************************************************)
(* A node with its profile object and one device.  The device has a        *)
(* property like 0x80 (validated and announced), one like 0xBF (two bytes, *)
(* the setter asserts the length) and one that can be read only.           *)
(***************************************************************************)
EXTENDS Elnet, SequencesExt

CONSTANTS prof, dev, ghost, op, uid, ver, d5, v1, v2, v3

MCObjects == {prof, dev, ghost}
MCEPC == {op, uid, ver, d5}
MCValue == {v1, v2, v3}

Prop(s, g, a, n, bad, asserts) ==
  [set |-> s, setf |-> TRUE, get |-> g, getf |-> TRUE, anno |-> a, size |-> n,
   getret |-> n, asserts |-> asserts,
   setret |-> [v \in MCValue |-> IF v \notin bad THEN n ELSE -1]]

OpProp  == Prop(TRUE, TRUE, TRUE, 1, {v3}, FALSE)
UidProp == Prop(TRUE, TRUE, FALSE, 2, {}, TRUE)
VerProp == Prop(FALSE, TRUE, FALSE, 1, {}, FALSE)
ListProp == [Prop(FALSE, TRUE, TRUE, 1, {}, FALSE) EXCEPT !.setf = FALSE]

MCTable ==
  [o \in {prof, dev} |->
     IF o = prof
     THEN [e \in {op, d5} |-> IF e = op THEN OpProp ELSE ListProp]
     ELSE [e \in {op, uid, ver} |->
             CASE e = op -> OpProp [] e = uid -> UidProp [] e = ver -> VerProp]]

MCInitValue == [o \in MCObjects |-> [e \in MCEPC |-> v1]]

I(e, n, v) == [epc |-> e, pdc |-> n, edt |-> v]
SetItems == {I(op, 0, NoData), I(op, 1, v2), I(op, 1, v3), I(uid, 1, v2),
             I(uid, 2, v2), I(ver, 1, v2)}
GetItems == {I(op, 0, NoData), I(uid, 0, NoData), I(d5, 0, NoData),
             I(op, 1, v1)}
F(esv, o, n, s) == setup_frame(7, prof, o, esv, n, s)

MCArriving ==
  LET Sets == {F(e, dev, n, s) : e \in SetEsv, n \in 0..2,
                                 s \in BoundedSeq(SetItems, 2)}
      Gets == {F(e, dev, n, s) : e \in GetEsv, n \in 1..2,
                                 s \in BoundedSeq(GetItems, 2)}
      Infs == {F("INFC", dev, n, s) : n \in 1..2,
                                      s \in BoundedSeq({I(op, 1, v3)}, 2)}
      Others == {F(e, dev, 1, <<I(op, 1, v2)>>) : e \in Esv}
      Profs == {F("SetC", prof, 1, <<I(op, 1, v2)>>),
                F("Get", prof, 1, <<I(d5, 0, NoData)>>)}
      Lost == {F("SetC", ghost, 1, <<I(op, 1, v2)>>),
               [F("SetC", dev, 1, <<I(op, 1, v2)>>) EXCEPT !.ehd = FALSE]}
  IN  Sets \cup Gets \cup Infs \cup Others \cup Profs \cup Lost
=============================================================================
