------------------------------- MODULE Elnet -------------------------------
(***************************************************************************)
(* The ECHONET Lite server of one node: mls_elnet_event_handler and all it *)
(* calls (middleware/comm/mls_elnet.c), the property setters and getters   *)
(* of the node's objects (sample/temp_sensor), and the announcement of the *)
(* node when its process starts.                                           *)
(*                                                                         *)
(* The process is single threaded, so one datagram is handled at a time.   *)
(* Its handling is cut into steps, one per property of the frame, because  *)
(* a step is what the outside world can see: a setter's announcement       *)
(* leaves before the next property is looked at, and the process may die   *)
(* between two of them.                                                    *)
(***************************************************************************)
EXTENDS Frame, FiniteSets

CONSTANTS
  Objects,      \* the EOJs frames may name
  Profile,      \* the EOJ of the node profile object
  EPC,          \* property codes
  InstanceList, \* MLS_EL_EPC_INSTANCE_LIST_NOTIFICATION (0xD5)
  Value,        \* property values
  NoData,       \* the EDT of an item that has none
  Table,        \* Table[o]: the properties of the node's object o
  InitValue,    \* InitValue[o][e]: a property's value when the process starts
  Address,      \* where datagrams come from
  Group,        \* the multicast group
  TidMod,       \* transaction ids are counted modulo TidMod (2^16 in the code)
  Arriving      \* the frames the network may deliver

\* The fields of struct mls_epr that matter here: the access rights, whether the
\* two functions are there, whether a set is announced.  "size" is the length of
\* the property's data; getret and setret[v] are what the getter, and the setter
\* when it is given v, return (the size, or a code <= 0); "asserts" tells whether
\* the setter takes its data with mls_type_get_short, which asserts that there is
\* enough of it.
Property ==
  [set: BOOLEAN, setf: BOOLEAN, get: BOOLEAN, getf: BOOLEAN, anno: BOOLEAN,
   size: Nat \ {0}, getret: Int, setret: [Value -> Int], asserts: BOOLEAN]

Item == [epc: EPC, pdc: Nat, edt: Value \cup {NoData}]
AnyFrame == [ehd: BOOLEAN, tid: Nat, seoj: Objects, deoj: Objects, esv: Esv,
             opc: Nat, items: Seq(Item)]
Datagram == [to: Address \cup {Group}, frame: AnyFrame]

ASSUME ConstantsAssumption ==
  /\ Profile \in Objects
  /\ InstanceList \in EPC
  /\ NoData \notin Value
  /\ Group \notin Address
  /\ TidMod \in Nat /\ TidMod > 1
  /\ DOMAIN Table \subseteq Objects
  /\ Profile \in DOMAIN Table
  /\ \A o \in DOMAIN Table :
       /\ DOMAIN Table[o] \subseteq EPC
       /\ \A e \in DOMAIN Table[o] : Table[o][e] \in Property
  /\ InstanceList \in DOMAIN Table[Profile]
  /\ Table[Profile][InstanceList].getret > 0
  /\ InitValue \in [Objects -> [EPC -> Value]]

\* The frames of the network: an item without EDT is one whose PDC is 0.
ASSUME ArrivingAssumption ==
  /\ Arriving \subseteq AnyFrame
  /\ \A f \in Arriving : \A i \in 1..Len(f.items) :
       (f.items[i].pdc = 0) <=> (f.items[i].edt = NoData)

VARIABLES
  pc,     \* "recv": in the event loop, "items": inside a handler,
          \* "done": about to return to the event loop, "dead": no process
  store,  \* the values of the properties, in the process's memory
  tid,    \* _tid of _get_next_tid
  from,   \* the source address of the datagram being handled
  req,    \* _req: that datagram
  idx,    \* the loop counter of _set/_get/_inf_properties, from 1
  ret,    \* their result so far: 0, or -2 once a property was refused
  res,    \* _res: the answer's properties so far
  out,    \* the datagrams given to sendto in this handler (or at startup)
  before, \* history: the store when the handler started
  heard   \* history: what a listener that has heard every announcement of this
          \* process believes the announced properties to be (NoData: unknown)

vars == <<pc, store, tid, from, req, idx, ret, res, out, before, heard>>
-----------------------------------------------------------------------------
SetEsv == {"SetI", "SetC"}
GetEsv == {"Get", "INF_REQ"}

\* mls_el_node_get_device and mls_eoj_get_property.
get_device(o) == o \in DOMAIN Table
get_property(o, e) == e \in DOMAIN Table[o]

Settable(o, e) == get_property(o, e) /\ Table[o][e].set /\ Table[o][e].setf
Gettable(o, e) == get_property(o, e) /\ Table[o][e].get /\ Table[o][e].getf

\* The values a setter may find in the EDT: with too few bytes it reads on, into
\* whatever the receive buffer holds there.
Read(o, it) == IF it.pdc < Table[o][it.epc].size THEN Value ELSE {it.edt}

\* A setter that checks the length aborts the process.
Aborts(o, it) == Table[o][it.epc].asserts /\ it.pdc < Table[o][it.epc].size

\* Mutant: the counter is wider than the field.
next_tid_unbounded == tid + 1
_get_next_tid == (tid + 1) % TidMod

\* mls_elnet_announce_property: the item of the request, whatever was stored.
announce_property(o, it) ==
  [to |-> Group,
   frame |-> setup_frame(_get_next_tid, o, Profile, "INF", 1, <<it>>)]

\* A property whose setter returned n is announced: not the set that changed it,
\* and not whether it changed, makes the difference.
\* Mutant: a set without answer goes unannounced.
announces_SetC_only(p, n) == n > 0 /\ p.anno /\ req.esv = "SetC"
announces(p, n) == n > 0 /\ p.anno

\* mls_elnet_announce_profile: the instance list, to whom it may concern.
announce_profile ==
  [to |-> Group,
   frame |-> setup_frame(1, Profile, Profile, "INF", 1,
               <<[epc |-> InstanceList,
                  pdc |-> Table[Profile][InstanceList].getret,
                  edt |-> InitValue[Profile][InstanceList]]>>)]

\* What a listener makes of an announced item: a short EDT tells it that the
\* property was set, and not to what.
Believe(o, it) ==
  [heard EXCEPT ![o][it.epc] =
     IF it.pdc < Table[o][it.epc].size THEN NoData ELSE it.edt]

\* The properties of an answer to a set: EPC with the EDT that was refused, or
\* without EDT when it was taken.
\* Mutant: the refused data is not sent back.
RefusedWithoutData(it) == [epc |-> it.epc, pdc |-> 0, edt |-> NoData]
Refused(it) == it
Taken(it) == [epc |-> it.epc, pdc |-> 0, edt |-> NoData]
-----------------------------------------------------------------------------
NoFrame == setup_frame(0, Profile, Profile, "Other", 0, <<>>)

Unknown == [o \in Objects |-> [e \in EPC |-> NoData]]

\* The process has announced itself, with the first transaction id, and is about
\* to enter its event loop.
Init ==
  /\ pc = "done"
  /\ store = InitValue
  /\ tid = 1
  /\ from = Group
  /\ req = NoFrame
  /\ idx = 1
  /\ ret = 0
  /\ res = <<>>
  /\ out = <<announce_profile>>
  /\ before = InitValue
  /\ heard = Unknown

\* Back to the event loop: what the handler kept of the datagram is of no use.
Return ==
  /\ pc = "done"
  /\ pc' = "recv"
  /\ from' = Group
  /\ req' = NoFrame
  /\ idx' = 1
  /\ ret' = 0
  /\ res' = <<>>
  /\ out' = <<>>
  /\ before' = store
  /\ UNCHANGED <<store, tid, heard>>

\* _handle_message drops these after RECVFROM: a bad header, a service it does
\* not know or does not serve, an answer, or an object it does not have.
\* Mutant: a notification is let through to the handlers.
IgnoredButInf(f) ==
  \/ ~f.ehd
  \/ f.esv \notin SetEsv \cup GetEsv \cup {"INFC", "INF"}
  \/ ~get_device(f.deoj)

Ignored(f) ==
  \/ ~f.ehd
  \/ f.esv \notin SetEsv \cup GetEsv \cup {"INFC"}
  \/ ~get_device(f.deoj)

Ignore(a, f) ==
  /\ pc = "recv"
  /\ Ignored(f)
  /\ pc' = "done"
  /\ from' = a
  /\ req' = f
  /\ UNCHANGED <<store, tid, idx, ret, res, out, before, heard>>

Receive(a, f) ==
  /\ pc = "recv"
  /\ ~Ignored(f)
  /\ pc' = "items"
  /\ from' = a
  /\ req' = f
  /\ UNCHANGED <<store, tid, idx, ret, res, out, before, heard>>

\* The loops of _set_properties, _get_properties and _inf_properties.
AtItem == pc = "items" /\ idx <= req.opc /\ idx <= Len(req.items)
It == req.items[idx]

\* The frame ends before the item does, or a Get carries data: the rest of it is
\* not looked at and there is no answer.  What was set and announced stays so.
Drop ==
  /\ pc' = "done"
  /\ UNCHANGED <<store, tid, from, req, idx, ret, res, out, before, heard>>

\* Mutant: the length is checked in sets only.
CutSet == /\ pc = "items" /\ idx <= req.opc /\ idx > Len(req.items)
          /\ req.esv \in SetEsv /\ Drop

CutFrame == pc = "items" /\ idx <= req.opc /\ idx > Len(req.items) /\ Drop

GetWithData == AtItem /\ req.esv \in GetEsv /\ It.pdc # 0 /\ Drop

NextItem(status, item) ==
  /\ idx' = idx + 1
  /\ ret' = status
  /\ res' = Append(res, item)
  /\ UNCHANGED <<pc, from, req, before>>

\* Mutant: the loop goes on without noting the error.
SetNoPropertyUnnoted ==
  /\ AtItem /\ req.esv \in SetEsv
  /\ ~Settable(req.deoj, It.epc)
  /\ NextItem(ret, Refused(It))
  /\ UNCHANGED <<store, tid, out, heard>>

SetNoProperty ==
  /\ AtItem /\ req.esv \in SetEsv
  /\ ~Settable(req.deoj, It.epc)
  /\ NextItem(-2, Refused(It))
  /\ UNCHANGED <<store, tid, out, heard>>

\* Mutant: announced before the setter is asked.
SetRefusedAnnounced ==
  /\ AtItem /\ req.esv \in SetEsv
  /\ Settable(req.deoj, It.epc)
  /\ ~Aborts(req.deoj, It)
  /\ \E v \in Read(req.deoj, It) : Table[req.deoj][It.epc].setret[v] < 0
  /\ out' = Append(out, announce_property(req.deoj, It))
  /\ tid' = _get_next_tid
  /\ heard' = Believe(req.deoj, It)
  /\ NextItem(-2, Refused(It))
  /\ UNCHANGED store

SetRefused ==
  /\ AtItem /\ req.esv \in SetEsv
  /\ Settable(req.deoj, It.epc)
  /\ ~Aborts(req.deoj, It)
  /\ \E v \in Read(req.deoj, It) : Table[req.deoj][It.epc].setret[v] < 0
  /\ NextItem(-2, Refused(It))
  /\ UNCHANGED <<store, tid, out, heard>>

\* The setter returns 0 or more.  It stored the value, and it is announced,
\* when it returns more than 0.
SetTaken ==
  /\ AtItem /\ req.esv \in SetEsv
  /\ Settable(req.deoj, It.epc)
  /\ ~Aborts(req.deoj, It)
  /\ \E v \in Read(req.deoj, It) :
       LET p == Table[req.deoj][It.epc]
           stored == p.setret[v] > 0
       IN  /\ p.setret[v] >= 0
           /\ store' = IF stored THEN [store EXCEPT ![req.deoj][It.epc] = v]
                                 ELSE store
           /\ IF announces(p, p.setret[v])
              THEN /\ out' = Append(out, announce_property(req.deoj, It))
                   /\ tid' = _get_next_tid
                   /\ heard' = Believe(req.deoj, It)
              ELSE UNCHANGED <<out, tid, heard>>
  /\ NextItem(ret, Taken(It))

\* What a getter returns; 0 when there is none to call.
getf(o, e) == IF Gettable(o, e) THEN Table[o][e].getret ELSE 0

GetTaken ==
  /\ AtItem /\ req.esv \in GetEsv /\ It.pdc = 0
  /\ getf(req.deoj, It.epc) > 0
  /\ NextItem(ret, [epc |-> It.epc, pdc |-> getf(req.deoj, It.epc),
                    edt |-> store[req.deoj][It.epc]])
  /\ UNCHANGED <<store, tid, out, heard>>

GetRefused ==
  /\ AtItem /\ req.esv \in GetEsv /\ It.pdc = 0
  /\ getf(req.deoj, It.epc) <= 0
  /\ NextItem(-2, Refused(It))
  /\ UNCHANGED <<store, tid, out, heard>>

InfItem ==
  /\ AtItem /\ req.esv = "INFC"
  /\ NextItem(ret, Taken(It))
  /\ UNCHANGED <<store, tid, out, heard>>

\* The loop is over.  A SetI without a refused property is not answered; an
\* INF_REQ is answered to the group, everything else to the sender.
ItemsDone == pc = "items" /\ idx > req.opc

Silent ==
  /\ ItemsDone
  /\ req.esv = "SetI" /\ ret = 0
  /\ pc' = "done"
  /\ UNCHANGED <<store, tid, from, req, idx, ret, res, out, before, heard>>

Answer(to, t) ==
  /\ ItemsDone
  /\ ~(req.esv = "SetI" /\ ret = 0)
  /\ out' = Append(out,
       [to |-> to,
        frame |-> setup_frame(t, req.deoj, req.seoj,
                    select_response_esv(req.esv, ret), req.opc, res)])
  /\ pc' = "done"
  /\ UNCHANGED <<store, tid, from, req, idx, ret, res, before, heard>>

\* Mutant: the answer keeps the number mls_elnet_setup_frame_header gave it.
ReplyWithoutTid == Answer(IF req.esv = "INF_REQ" THEN Group ELSE from, 0)
Reply == Answer(IF req.esv = "INF_REQ" THEN Group ELSE from, req.tid)

\* The process dies: killed at any moment, or by the assertion of a setter.
Gone ==
  /\ pc' = "dead"
  /\ UNCHANGED <<store, tid, from, req, idx, ret, res, out, before, heard>>

Kill == pc # "dead" /\ Gone

SetAborts ==
  /\ AtItem /\ req.esv \in SetEsv
  /\ Settable(req.deoj, It.epc)
  /\ Aborts(req.deoj, It)
  /\ Gone

\* The process is started again: nothing is kept, and it announces itself.
Restart ==
  /\ pc = "dead"
  /\ pc' = "done"
  /\ store' = InitValue
  /\ tid' = 1
  /\ from' = Group
  /\ req' = NoFrame
  /\ idx' = 1
  /\ ret' = 0
  /\ res' = <<>>
  /\ out' = <<announce_profile>>
  /\ before' = InitValue
  /\ heard' = Unknown

Handle ==
  \/ CutFrame \/ GetWithData
  \/ SetNoProperty \/ SetRefused \/ SetTaken \/ SetAborts
  \/ GetTaken \/ GetRefused \/ InfItem
  \/ Silent \/ Reply \/ Return

Next ==
  \/ \E a \in Address, f \in Arriving : Ignore(a, f) \/ Receive(a, f)
  \/ Handle
  \/ Kill
  \/ Restart

\* The process runs while it is not blocked in select or dead.
Spec == Init /\ [][Next]_vars /\ WF_vars(Handle)
-----------------------------------------------------------------------------
TypeOK ==
  /\ pc \in {"recv", "items", "done", "dead"}
  /\ store \in [Objects -> [EPC -> Value]]
  /\ before \in [Objects -> [EPC -> Value]]
  /\ heard \in [Objects -> [EPC -> Value \cup {NoData}]]
  /\ tid \in 0..(TidMod - 1)
  /\ from \in Address \cup {Group}
  /\ req \in AnyFrame
  /\ idx \in Nat \ {0}
  /\ ret \in {0, -2}
  /\ res \in Seq(Item)
  /\ out \in Seq(Datagram)

\* The answer of this handler, if it gave one: the last datagram, unless that is
\* an announcement.  (An announcement is not addressed to the request's sender
\* and does not have its transaction id; what tells it here is the service.)
Announcing == req.esv \in SetEsv \cup {"Other"}
Answers == {i \in 1..Len(out) : ~(Announcing /\ out[i].frame.esv = "INF")}

\* The answer to a request is one the requesting side recognises: the matching
\* of mls_elnet_rpc accepts it, and it names the same properties in the same
\* order.  At most one answer is given, and it is the last thing sent.
AnswerIsRecognised ==
  \A i \in Answers :
    /\ i = Len(out)
    /\ req.esv # "INFC" => unmarshal_frame_response(req, out[i].frame)
    /\ Len(out[i].frame.items) = req.opc
    /\ \A j \in 1..req.opc : out[i].frame.items[j].epc = req.items[j].epc

\* What _set_properties has reported so far is what it has done: a property holds
\* the data of the last item for it that was reported taken, and otherwise what
\* it held before the datagram came.  (Properties that were given too few bytes
\* are left out: see AnnouncementCarriesContent.)
ShortItem(e) ==
  \E i \in 1..(idx - 1) : /\ req.items[i].epc = e
                          /\ get_property(req.deoj, e)
                          /\ req.items[i].pdc < Table[req.deoj][e].size
TakenItems(e) ==
  {i \in 1..(idx - 1) : req.items[i].epc = e /\ res[i] = Taken(req.items[i])}
LastOf(S) == CHOOSE i \in S : \A j \in S : j <= i
SetReportIsTrue ==
  pc = "items" /\ req.esv \in SetEsv =>
    \A e \in EPC : ~ShortItem(e) /\ get_property(req.deoj, e) =>
      store[req.deoj][e] = IF TakenItems(e) = {} THEN before[req.deoj][e]
                           ELSE req.items[LastOf(TakenItems(e))].edt

\* mls_obj.h lets a setter report an error by 0 as well as by less, and the server
\* takes a 0 for success: what it reports is true of setters that do not use it.
SettersTellErrors ==
  \A o \in DOMAIN Table : \A e \in DOMAIN Table[o] :
    \A v \in Value : Table[o][e].setret[v] # 0

\* A success code speaks for every property of the request.
SuccessMeansAll ==
  \A i \in Answers :
    LET f == out[i].frame
    IN  /\ f.esv = "Set_Res" => \A j \in 1..req.opc :
             Settable(req.deoj, req.items[j].epc) /\ f.items[j].pdc = 0
        /\ f.esv \in {"Get_Res", "INF"} => \A j \in 1..req.opc :
             /\ f.items[j].pdc > 0
             /\ f.items[j].edt = store[req.deoj][req.items[j].epc]

\* A listener that follows the announcements is never wrong about a property,
\* whatever mix of requests, refusals, cut frames and repeated properties came
\* by: "when property changed, announce" (mls_obj.h).
ListenerIsRight ==
  pc # "dead" =>
    \A o \in Objects, e \in EPC :
      heard[o][e] # NoData => heard[o][e] = store[o][e]

\* Once something was announced about a property, it changes only with another
\* announcement in the same step, or with the process.
AnnouncedChange ==
  \A o \in DOMAIN Table : \A e \in DOMAIN Table[o] :
    Table[o][e].anno /\ store'[o][e] # store[o][e] /\ pc # "dead" =>
      /\ Len(out') = Len(out) + 1
      /\ out'[Len(out')].frame.seoj = o
      /\ out'[Len(out')].frame.items[1].epc = e
ChangesAreAnnounced == [][AnnouncedChange]_vars

\* Every handler comes to its end: the process goes back to its event loop.
HandlerEnds == pc = "items" ~> pc \in {"recv", "dead"}
-----------------------------------------------------------------------------
\* What the repository says of the program and the code does not do.

\* doc/echonet-lite_spec, rule (2): an answer of refusal goes to the address the
\* request came from.
SnaGoesToRequester ==
  \A i \in Answers : out[i].frame.esv \in ErrorEsv => out[i].to = from

\* mls_elnet.c, mls_elnet_announce_property: the content of the property is
\* announced.
AnnouncementCarriesContent ==
  pc = "items" =>
    \A i \in 1..Len(out) :
      (i = Len(out) /\ out[i].frame.esv = "INF") =>
        LET it == out[i].frame.items[1]
        IN  it.edt = store[out[i].frame.seoj][it.epc]

\* mls_elnet.h: 0x7A is the response of INFC.  mls_elnet_rpc must know it.
InfcAnswerIsRecognised ==
  \A i \in Answers : req.esv = "INFC" =>
    unmarshal_frame_response(req, out[i].frame)
=============================================================================
