---------------------------- MODULE ElnetRegister ----------------------------
(***************************************************************************)
(* What the protocol of module ElnetRpc is for: a client that sets one     *)
(* property of a node, and no other client does, has in it the register of *)
(* module RemoteProperty.                                                  *)
(***************************************************************************)
EXTENDS ElnetRpc

CONSTANTS
  TheClient,  \* the client
  TheObject,  \* the object and
  TheProperty \* the code of the property that it sets

\* The values that may still be stored are in the client's requests on the way, in
\* the one the server is about to look at, and in the one it would send again.
Pending ==
  {m.frame : m \in {d \in Range(net[Server]) : d.from = TheClient}}
    \cup (IF pc = "items" /\ idx = 1 /\ from = TheClient THEN {req} ELSE {})
    \cup (IF cpc[TheClient] = "wait" THEN {call[TheClient]} ELSE {})
StillToCome == {f.items[1].edt : f \in {g \in Pending : g.esv \in SetEsv}}

\* The register: what the property is, how the client's last call stands (an answer
\* that refuses the set is no success, nor is one of a process that has died since)
\* and what it asked for.
PropertyValue == store[TheObject][TheProperty]
Acknowledged ==
  /\ cpc[TheClient] = "ok" /\ result[TheClient].esv = "Set_Res"
  /\ born[TheClient] = kills
CallState ==
  IF Acknowledged THEN "ok"
  ELSE IF cpc[TheClient] \in {"ok", "over", "error"} THEN "failed"
  ELSE cpc[TheClient]
AskedFor ==
  IF call[TheClient] = NoFrame THEN NoData ELSE call[TheClient].items[1].edt

Register == INSTANCE RemoteProperty WITH
  Value <- Value, Start <- InitValue[TheObject][TheProperty], None <- NoData,
  up <- pc # "dead", value <- PropertyValue, state <- CallState, asked <- AskedFor, may <- StillToCome

\* The client's sets of the property behave as RemoteProperty says: a call that
\* succeeds has set it, and whatever copies of earlier requests are still under way
\* cannot change it any more; and every call returns.
ImplementsRegister == Register!Spec
-----------------------------------------------------------------------------
\* A set names a property once, and has all the data of it.
WholeSet(r) ==
  \A i \in 1..Len(r.items) :
    /\ r.deoj \in DOMAIN Table /\ r.items[i].epc \in DOMAIN Table[r.deoj] =>
         r.items[i].pdc >= Table[r.deoj][r.items[i].epc].size
    /\ \A j \in 1..Len(r.items) : r.items[i].epc = r.items[j].epc => i = j

SetsProperty(r, o, e) ==
  r.esv \in SetEsv /\ r.deoj = o /\ \E i \in 1..Len(r.items) : r.items[i].epc = e

\* When an acknowledged set stays: each client has properties of its own, the network
\* keeps the order, no setter reports an error as 0 (which the server takes for
\* success), and the sets have all the data the property has.
SeparateSetters ==
  /\ \A b, c \in Clients : b # c =>
       \A q \in Asks[b], r \in Asks[c], o \in Objects, e \in EPC :
         ~(SetsProperty(q, o, e) /\ SetsProperty(r, o, e))
  /\ Fifo
  /\ SettersTellErrors
  /\ \A r \in Requests : r.esv \in SetEsv => WholeSet(r)

\* TheClient sets the one property and does nothing else; no other client sets it.
LoneSetter ==
  /\ SeparateSetters
  /\ TheClient \in Clients
  /\ TheObject \in DOMAIN Table /\ TheProperty \in DOMAIN Table[TheObject]
  /\ \A r \in Asks[TheClient] :
       /\ r.esv \in SetEsv /\ r.deoj = TheObject
       /\ Len(r.items) = 1 /\ r.items[1].epc = TheProperty
  /\ \A c \in Clients \ {TheClient} : \A r \in Asks[c] :
       ~SetsProperty(r, TheObject, TheProperty)
=============================================================================
