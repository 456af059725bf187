----------------------------- MODULE MCDiscover -----------------------------
(***************************************************************************)
(* A node with two devices, the second of which is looked for, and one     *)
(* that refuses its list; and the objects whose maps and lists are checked.*)
(***************************************************************************)
EXTENDS Discover

CONSTANTS n1, n2

Code(i) == [class |-> i, inc |-> 1]
MCCond == Code(2)
Dev(code, props) == [code |-> code, props |-> props]
MCDevices == [n \in {n1, n2} |-> IF n = n1 THEN <<Dev(Code(1), <<>>), Dev(Code(2), <<>>)>>
                                 ELSE <<>>]

\* k properties with different codes from 0x80 on, out of order, and every mix of
\* accesses among them.
Props(k) ==
  [i \in 1..k |-> [epc |-> 128 + ((37 * i) % 128),
                   get |-> i % 5 # 0, set |-> i % 2 = 0, anno |-> i % 3 = 0]]
Eojs == {Dev(Code(1), Props(k)) : k \in 0..40}
Pairs == {<<Dev(Code(1), Props(k)), Dev(Code(2), Props(l))>> : k, l \in {0, 1, 7, 9}}

Nodeful(k) == [i \in 1..k |-> Dev([class |-> i % 3, inc |-> i], <<>>)]

\* 0 to 40 properties in one object, so both sides of the border; two objects in one
\* list; as many devices as there is room for.
MCBuilds ==
  {<<>>} \cup {<<eoj>> : eoj \in Eojs} \cup Pairs \cup {Nodeful(k) : k \in 0..MaxDevices}
MCObjects == UNION {Range(node) : node \in MCBuilds}
=============================================================================
