---------------------------- MODULE NodeObjects ----------------------------
(***************************************************************************)
(* What a node says of itself: the property maps of its objects and the    *)
(* lists of its instances and classes (middleware/comm/mls_obj.c,          *)
(* mls_node.c, sample/temp_sensor/profile.c, temperature_sensor.c).        *)
(*                                                                         *)
(* An object is [code, props].  A code is [class, inc], the class standing *)
(* for the bytes cgc and clc; a property is [epc, get, set, anno].  A node *)
(* is the sequence of its devices.  A buffer is a function on the offsets  *)
(* from 0; a byte of it is a number, the set of its bits when it is one of *)
(* a bit map, or Unset while nothing was written to it.                    *)
(***************************************************************************)
EXTENDS Integers, FiniteSets, SequencesExt

Border == 16     \* MLS_EL_PROPERTY_MAP_BORDER
UCharMax == 255  \* a getter's buffer, and the most its length can say
Unset == {-1}

Access == {"get", "set", "anno"}

Matches(epr, access) ==
  \/ "get" \in access /\ epr.get
  \/ "set" \in access /\ epr.set
  \/ "anno" \in access /\ epr.anno

\* found[n] are those of the first n properties with the access.
Selected(eoj, access) ==
  LET found[n \in 0..Len(eoj.props)] ==
        IF n = 0 THEN <<>>
        ELSE IF Matches(eoj.props[n], access)
             THEN Append(found[n - 1], eoj.props[n])
             ELSE found[n - 1]
  IN  found[Len(eoj.props)]

mls_eoj_get_num_properties(eoj, access) == Len(Selected(eoj, access))

mls_eoj_get_num_properties_in_node(node, access) ==
  LET num[n \in 0..Len(node)] ==
        IF n = 0 THEN 0 ELSE num[n - 1] + mls_eoj_get_num_properties(node[n], access)
  IN  num[Len(node)]

\* The bit of an EPC, in the byte of its low half.
\* Mutant: the high half itself is the bit.
_set_prop_map_high(epc) == [byte |-> epc % 16, bit |-> epc \div 16]
_set_prop_map(epc) == [byte |-> epc % 16, bit |-> (epc \div 16) - 8]

\* Up to Border - 1 properties are listed, more are a bit map, which is cleared
\* first.  pnum decides; the object's own number need not be the same.
PutMap(found, pnum, buf, at) ==
  [i \in DOMAIN buf |->
     IF pnum < Border
     THEN IF i \in at..(at + Len(found) - 1) THEN found[i - at + 1].epc ELSE buf[i]
     ELSE IF i \in at..(at + Border - 1)
          THEN {_set_prop_map(p.epc).bit :
                  p \in {q \in Range(found) : _set_prop_map(q.epc).byte = i - at}}
          ELSE buf[i]]

mls_eoj_get_property_map(eoj, access, pnum, buf, at) ==
  PutMap(Selected(eoj, access), pnum, buf, at)

\* One object after the other: the place in the buffer advances by the number of
\* properties so far, which from the third object on is too much, and a bit map
\* loses the objects before.
mls_eoj_get_property_map_in_node(node, access, pnum, buf, at) ==
  LET AddEoj(s, eoj) ==
        LET num == s.num + mls_eoj_get_num_properties(eoj, access)
        IN  [num |-> num,
             buf |-> mls_eoj_get_property_map(eoj, access, pnum, s.buf, s.at),
             at  |-> IF pnum < Border THEN s.at + num ELSE s.at]
      done[n \in 0..Len(node)] ==
        IF n = 0 THEN [num |-> 0, buf |-> buf, at |-> at] ELSE AddEoj(done[n - 1], node[n])
  IN  done[Len(node)].buf

\* The sample's getters: the number, then the map.
Blank(pnum) == [i \in 0..(UCharMax - 1) |-> IF i = 0 THEN pnum % 256 ELSE Unset]
MapSize(pnum) == 1 + (IF pnum < Border THEN pnum ELSE Border)
Property_map(buf, pnum) == [i \in 0..(MapSize(pnum) - 1) |-> buf[i]]

_get_property_map(eoj, access) ==
  LET pnum == mls_eoj_get_num_properties(eoj, access)
  IN  Property_map(mls_eoj_get_property_map(eoj, access, pnum, Blank(pnum), 1), pnum)

\* The profile's maps are about the devices; its own properties are not in them.
_get_property_map_of_profile(node, access) ==
  LET pnum == mls_eoj_get_num_properties_in_node(node, access)
  IN  Property_map(mls_eoj_get_property_map_in_node(node, access, pnum, Blank(pnum), 1), pnum)

\* The value of 0xD5 and 0xD6, and of 0xD7: a count of eight bits, and a code per
\* device.  A class is there once per device that has it.
mls_el_node_get_instance_list(node) ==
  [nins |-> Len(node) % 256, codes |-> [i \in 1..Len(node) |-> node[i].code]]
mls_el_node_get_class_list(node) ==
  [nins |-> Len(node) % 256, codes |-> [i \in 1..Len(node) |-> node[i].code.class]]
InstanceListSize(node) == 1 + 3 * Len(node)
-----------------------------------------------------------------------------
\* What a reader of the map makes of it, by the standard: the properties listed,
\* or those whose bit is set.
Decode(map) ==
  IF map[0] < Border
  THEN {map[i] : i \in 1..map[0]}
  ELSE UNION {{16 * (bit + 8) + (i - 1) : bit \in map[i]} : i \in 1..Border}

Accessible(eoj, access) == {p.epc : p \in Range(Selected(eoj, access))}

\* The reader of a device's property map learns which properties have the access,
\* no more and no less, on both sides of the border between list and bits, and
\* the map has at most the 17 bytes doc/echonet-lite_spec:127 gives it.
MapIsRight(eoj) ==
  \A access \in (SUBSET Access) \ {{}} :
    LET map == _get_property_map(eoj, access)
    IN  /\ Decode(map) = Accessible(eoj, access)
        /\ Cardinality(DOMAIN map) <= 17

\* The profile's map is right for a node of one device, and for two if together
\* they have fewer properties than Border.
NodeMapIsRight(node) ==
  \A access \in (SUBSET Access) \ {{}} :
    \/ Len(node) > 2
    \/ Len(node) = 2 /\ mls_eoj_get_num_properties_in_node(node, access) >= Border
    \/ Decode(_get_property_map_of_profile(node, access)) =
         UNION {Accessible(eoj, access) : eoj \in Range(node)}

\* The lists count what they name, name every device, and its class, and no other;
\* those of the most devices there is room for fit the buffer.
MaxDevices == (UCharMax - 1) \div 3
ListsAreRight(node) ==
  LET instances == mls_el_node_get_instance_list(node)
      classes == mls_el_node_get_class_list(node)
  IN  Len(node) <= MaxDevices =>
        /\ InstanceListSize(node) <= UCharMax
        /\ instances.nins = Len(instances.codes)
        /\ Range(instances.codes) = {eoj.code : eoj \in Range(node)}
        /\ classes.nins = Len(classes.codes)
        /\ Range(classes.codes) = {eoj.code.class : eoj \in Range(node)}
=============================================================================
