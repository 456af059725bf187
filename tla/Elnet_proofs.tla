---------------------------- MODULE Elnet_proofs ----------------------------
(***************************************************************************)
(* Theorems about the ECHONET Lite server, for every table of properties   *)
(* and every set of arriving frames.                                       *)
(***************************************************************************)
EXTENDS Elnet, TLAPS

\* A remainder is smaller than the divisor: _get_next_tid stays in its field.
LEMMA ModBound ==
  ASSUME NEW a \in Nat, NEW b \in Nat, b > 0
  PROVE  a % b \in 0..(b - 1)
OBVIOUS

\* What the handlers are given is always a frame of the network.
ReqOK ==
  /\ req \in Arriving \cup {NoFrame}
  /\ pc = "items" => req \in Arriving /\ ~Ignored(req)

TInv == TypeOK /\ ReqOK

\* The frame that stands for "no request" is a frame.
LEMMA NoFrameType == NoFrame \in AnyFrame
<1>1. <<>> \in Seq(Item)
  OBVIOUS
<1> QED
  BY <1>1, ConstantsAssumption DEF NoFrame, setup_frame, AnyFrame, Esv

\* mls_elnet_announce_profile sends a well-formed datagram.
LEMMA ProfileAnnouncementType == announce_profile \in Datagram
<1> DEFINE it == [epc |-> InstanceList,
                  pdc |-> Table[Profile][InstanceList].getret,
                  edt |-> InitValue[Profile][InstanceList]]
<1>1. Table[Profile][InstanceList].getret \in Nat
  BY ConstantsAssumption DEF Property
<1>2. it \in Item
  BY <1>1, ConstantsAssumption DEF Item
<1>3. <<it>> \in Seq(Item)
  BY <1>2
<1> QED
  BY <1>3, ConstantsAssumption
  DEF announce_profile, setup_frame, Datagram, AnyFrame, Esv, ResponseEsv

\* The item a step looks at: one of the frame's, with data when its PDC is not 0.
LEMMA ItType ==
  ASSUME TInv, AtItem
  PROVE  /\ It \in Item
         /\ It.pdc # 0 => It.edt \in Value
         /\ req \in Arriving
         /\ req.deoj \in DOMAIN Table
         /\ req.deoj \in Objects
<1>1. idx \in 1..Len(req.items) /\ req \in Arriving /\ ~Ignored(req)
  BY DEF TInv, TypeOK, ReqOK, AtItem, AnyFrame
<1>2. req.items \in Seq(Item) /\ req.deoj \in Objects
  BY DEF TInv, TypeOK, AnyFrame
<1>3. It \in Item
  BY <1>1, <1>2 DEF It
<1>4. It.pdc # 0 => It.edt \in Value
  BY <1>1, <1>3, ArrivingAssumption DEF It, Item
<1>5. req.deoj \in DOMAIN Table
  BY <1>1 DEF Ignored, get_device
<1> QED
  BY <1>1, <1>2, <1>3, <1>4, <1>5

\* A property a set reaches is one of the table.
LEMMA SettableType ==
  ASSUME NEW o \in DOMAIN Table, NEW e, Settable(o, e)
  PROVE  Table[o][e] \in Property
BY ConstantsAssumption DEF Settable, get_property

\* What a set of a property of the table gives rise to has its type, whatever the
\* length of its data.
LEMMA SetType ==
  ASSUME TInv, NEW o \in DOMAIN Table, NEW it \in Item,
         it.pdc # 0 => it.edt \in Value, get_property(o, it.epc)
  PROVE  /\ Read(o, it) \subseteq Value
         /\ _get_next_tid \in 0..(TidMod - 1)
         /\ announce_property(o, it) \in Datagram
         /\ Believe(o, it) \in [Objects -> [EPC -> Value \cup {NoData}]]
<1>1. o \in Objects /\ Table[o][it.epc] \in Property
  BY ConstantsAssumption DEF get_property
<1>2. Read(o, it) \subseteq Value
  BY <1>1 DEF Read, Property, Item
<1>3. _get_next_tid \in 0..(TidMod - 1)
  BY ModBound, ConstantsAssumption DEF _get_next_tid, TInv, TypeOK
<1>4. announce_property(o, it) \in Datagram
  BY <1>1, <1>3, ConstantsAssumption
  DEF announce_property, setup_frame, Datagram, AnyFrame, Esv, ResponseEsv
<1>5. Believe(o, it) \in [Objects -> [EPC -> Value \cup {NoData}]]
  BY <1>1 DEF Believe, TInv, TypeOK, Item
<1> QED
  BY <1>2, <1>3, <1>4, <1>5

\* The process starts in a well-formed state.
LEMMA TypeInit == Init => TInv
<1> SUFFICES ASSUME Init PROVE TInv
  OBVIOUS
<1>1. <<announce_profile>> \in Seq(Datagram)
  BY ProfileAnnouncementType
<1>2. Unknown \in [Objects -> [EPC -> Value \cup {NoData}]]
  BY DEF Unknown
<1> QED
  BY <1>1, <1>2, NoFrameType, ConstantsAssumption DEF Init, TInv, TypeOK, ReqOK

\* What NextItem does to the answer keeps it one.
LEMMA NextItemType ==
  ASSUME TInv, NEW status \in {0, -2}, NEW item \in Item, NextItem(status, item)
  PROVE  /\ idx' \in Nat \ {0} /\ ret' \in {0, -2} /\ res' \in Seq(Item)
         /\ pc' = pc /\ from' = from /\ req' = req /\ before' = before
BY DEF TInv, TypeOK, NextItem

\* Every step keeps the state well formed: one step of the proof per action.
LEMMA TypeNext == TInv /\ [Next]_vars => TInv'
<1> SUFFICES ASSUME TInv, [Next]_vars PROVE TInv'
  OBVIOUS
<1> USE DEF TInv
<1>1. ASSUME NEW a \in Address, NEW f \in Arriving, Ignore(a, f) PROVE TInv'
  BY <1>1, ArrivingAssumption DEF Ignore, TypeOK, ReqOK
<1>2. ASSUME NEW a \in Address, NEW f \in Arriving, Receive(a, f) PROVE TInv'
  BY <1>2, ArrivingAssumption DEF Receive, TypeOK, ReqOK, Ignored
<1>3. CASE CutFrame \/ GetWithData
  BY <1>3 DEF CutFrame, GetWithData, Drop, TypeOK, ReqOK
<1>4. CASE SetNoProperty \/ SetRefused
  <2>1. AtItem /\ NextItem(-2, It)
    BY <1>4 DEF SetNoProperty, SetRefused, Refused
  <2>2. It \in Item
    BY <2>1, ItType
  <2> QED
    BY <1>4, <2>1, <2>2, NextItemType
    DEF SetNoProperty, SetRefused, TypeOK, ReqOK, Ignored, get_device
<1>5. CASE SetTaken
  <2>1. AtItem /\ Settable(req.deoj, It.epc) /\ NextItem(ret, Taken(It))
    BY <1>5 DEF SetTaken
  <2>2. /\ It \in Item /\ (It.pdc # 0 => It.edt \in Value)
        /\ req.deoj \in DOMAIN Table /\ req.deoj \in Objects
    BY <2>1, ItType
  <2>3. Taken(It) \in Item
    BY <2>2 DEF Taken, Item
  <2>4. get_property(req.deoj, It.epc)
    BY <2>1 DEF Settable
  <2>5. /\ Read(req.deoj, It) \subseteq Value
        /\ _get_next_tid \in 0..(TidMod - 1)
        /\ announce_property(req.deoj, It) \in Datagram
        /\ Believe(req.deoj, It) \in [Objects -> [EPC -> Value \cup {NoData}]]
    BY <2>2, <2>4, SetType
  <2>9. /\ store' \in [Objects -> [EPC -> Value]]
        /\ out' \in Seq(Datagram)
        /\ tid' \in 0..(TidMod - 1)
        /\ heard' \in [Objects -> [EPC -> Value \cup {NoData}]]
    <3> DEFINE p == Table[req.deoj][It.epc]
    <3>1. PICK v \in Read(req.deoj, It) :
            /\ store' = IF p.setret[v] > 0
                        THEN [store EXCEPT ![req.deoj][It.epc] = v] ELSE store
            /\ IF announces(p, p.setret[v])
               THEN /\ out' = Append(out, announce_property(req.deoj, It))
                    /\ tid' = _get_next_tid
                    /\ heard' = Believe(req.deoj, It)
               ELSE UNCHANGED <<out, tid, heard>>
      BY <1>5 DEF SetTaken
    <3>2. v \in Value /\ It.epc \in EPC
      BY <2>2, <2>5 DEF Item
    <3>3. store' \in [Objects -> [EPC -> Value]]
      BY <2>2, <3>1, <3>2 DEF TypeOK
    <3>4. out' \in Seq(Datagram)
      <4>1. \/ out' = Append(out, announce_property(req.deoj, It))
            \/ out' = out
        BY <3>1
      <4>2. out \in Seq(Datagram)
        BY DEF TypeOK
      <4> QED
        BY ONLY <2>5, <4>1, <4>2
    <3>5. tid' \in 0..(TidMod - 1)
      <4>1. tid' = _get_next_tid \/ tid' = tid
        BY <3>1
      <4>2. tid \in 0..(TidMod - 1)
        BY DEF TypeOK
      <4> QED
        BY ONLY <2>5, <4>1, <4>2
    <3>6. heard' \in [Objects -> [EPC -> Value \cup {NoData}]]
      <4>1. heard' = Believe(req.deoj, It) \/ heard' = heard
        BY <3>1
      <4> QED
        BY <2>5, <4>1 DEF TypeOK
    <3> QED
      BY <3>3, <3>4, <3>5, <3>6
  <2>10. ret \in {0, -2}
    BY DEF TypeOK
  <2> QED
    BY <2>1, <2>3, <2>9, <2>10, NextItemType
    DEF TypeOK, ReqOK, Ignored, get_device
<1>6. CASE GetTaken \/ GetRefused \/ InfItem
  <2>1. AtItem /\ UNCHANGED <<store, tid, out, heard>>
    BY <1>6 DEF GetTaken, GetRefused, InfItem
  <2>2. It \in Item /\ req.deoj \in Objects /\ req.deoj \in DOMAIN Table
    BY <2>1, ItType
  <2>3. CASE GetTaken
    <3>1. getf(req.deoj, It.epc) > 0 /\ getf(req.deoj, It.epc) \in Int
      BY <2>2, <2>3, ConstantsAssumption
      DEF GetTaken, getf, Gettable, get_property, Property
    <3>2. [epc |-> It.epc, pdc |-> getf(req.deoj, It.epc),
           edt |-> store[req.deoj][It.epc]] \in Item
      BY <2>2, <3>1 DEF Item, TypeOK
    <3>3. ret \in {0, -2}
      BY DEF TypeOK
    <3> QED
      BY <2>1, <2>3, <3>2, <3>3, NextItemType
      DEF GetTaken, TypeOK, ReqOK, Ignored, get_device
  <2>4. CASE GetRefused
    BY <2>1, <2>2, <2>4, NextItemType
    DEF GetRefused, Refused, TypeOK, ReqOK, Ignored, get_device
  <2>5. CASE InfItem
    <3>1. Taken(It) \in Item
      BY <2>2 DEF Taken, Item
    <3>2. ret \in {0, -2}
      BY DEF TypeOK
    <3> QED
      BY <2>1, <2>5, <3>1, <3>2, NextItemType
      DEF InfItem, TypeOK, ReqOK, Ignored, get_device
  <2> QED
    BY <1>6, <2>3, <2>4, <2>5
<1>7. CASE SetAborts \/ Kill
  BY <1>7 DEF SetAborts, Kill, Gone, TypeOK, ReqOK
<1>8. CASE Silent
  BY <1>8 DEF Silent, TypeOK, ReqOK
<1>9. CASE Reply
  <2>1. req \in AnyFrame /\ from \in Address \cup {Group} /\ res \in Seq(Item)
    BY DEF TypeOK
  <2>2. req.esv \in SetEsv \cup GetEsv \cup {"INFC"}
    BY <1>9 DEF Reply, Answer, ItemsDone, ReqOK, Ignored
  <2>3. select_response_esv(req.esv, ret) \in Esv
    BY <2>2 DEF select_response_esv, SetEsv, GetEsv, Esv, RequestEsv,
                ResponseEsv, ErrorEsv
  <2>4. out' \in Seq(Datagram)
    BY <1>9, <2>1, <2>3
    DEF Reply, Answer, setup_frame, Datagram, AnyFrame, TypeOK
  <2> QED
    BY <1>9, <2>4 DEF Reply, Answer, TypeOK, ReqOK
<1>10. CASE Return
  BY <1>10, NoFrameType, ConstantsAssumption DEF Return, TypeOK, ReqOK
<1>11. CASE Restart
  <2>1. <<announce_profile>> \in Seq(Datagram)
    BY ProfileAnnouncementType
  <2>2. Unknown \in [Objects -> [EPC -> Value \cup {NoData}]]
    BY DEF Unknown
  <2> QED
    BY <1>11, <2>1, <2>2, NoFrameType, ConstantsAssumption
    DEF Restart, TypeOK, ReqOK
<1>12. CASE UNCHANGED vars
  BY <1>12 DEF vars, TypeOK, ReqOK, Ignored, get_device
<1> QED
  BY <1>1, <1>2, <1>3, <1>4, <1>5, <1>6, <1>7, <1>8, <1>9, <1>10, <1>11, <1>12
  DEF Next, Handle

\* The state of the server always has its type: in particular nothing that is
\* not a value of a property is ever stored, whatever frames arrive.
THEOREM TypeCorrect == Spec => []TypeOK
<1>1. TInv => TypeOK
  BY DEF TInv
<1> QED
  BY TypeInit, TypeNext, <1>1, PTL DEF Spec
-----------------------------------------------------------------------------
(***************************************************************************)
(* What a listener knows.  ListenerIsRight is not inductive: a property    *)
(* that is set without an announcement must be one nothing was ever heard  *)
(* of.                                                                     *)
(***************************************************************************)
HeardOK ==
  \A o \in Objects, e \in EPC : heard[o][e] # NoData =>
    /\ get_device(o)
    /\ get_property(o, e)
    /\ Table[o][e].anno
    /\ heard[o][e] = store[o][e]

\* A property that was set is announced with what was stored, or nothing was ever
\* heard of it: the step that could make a listener wrong.
LEMMA HeardSet ==
  ASSUME TInv, HeardOK, NEW o \in DOMAIN Table, NEW it \in Item,
         get_property(o, it.epc), NEW v \in Read(o, it),
         store' = [store EXCEPT ![o][it.epc] = v],
         IF Table[o][it.epc].anno THEN heard' = Believe(o, it) ELSE heard' = heard
  PROVE  HeardOK'
<1> DEFINE e == it.epc
           p == Table[o][e]
<1>1. o \in Objects /\ e \in EPC
  BY ConstantsAssumption DEF Item
<1>2. store \in [Objects -> [EPC -> Value]]
      /\ heard \in [Objects -> [EPC -> Value \cup {NoData}]]
  BY DEF TInv, TypeOK
<1>3. CASE p.anno
  <2>1. store'[o][e] = v
        /\ \A q \in Objects, f \in EPC : <<q, f>> # <<o, e>> =>
             store'[q][f] = store[q][f] /\ heard'[q][f] = heard[q][f]
    BY <1>1, <1>2, <1>3 DEF Believe
  <2>2. heard'[o][e] = IF it.pdc < p.size THEN NoData ELSE it.edt
    BY <1>1, <1>2, <1>3 DEF Believe
  <2>3. heard'[o][e] # NoData => heard'[o][e] = v
    BY <2>2 DEF Read
  <2> QED
    BY <1>1, <1>3, <2>1, <2>3 DEF HeardOK, get_device
<1>4. CASE ~p.anno
  <2>1. heard[o][e] = NoData
    BY <1>1, <1>4 DEF HeardOK
  <2>2. \A q \in Objects, f \in EPC : <<q, f>> # <<o, e>> =>
             store'[q][f] = store[q][f]
    BY <1>1, <1>2
  <2> QED
    BY <1>4, <2>1, <2>2 DEF HeardOK
<1> QED
  BY <1>3, <1>4

LEMMA HeardSetTaken == TInv /\ HeardOK /\ SetTaken => HeardOK'
<1> SUFFICES ASSUME TInv, HeardOK, SetTaken PROVE HeardOK'
  OBVIOUS
<1> DEFINE o == req.deoj
           p == Table[o][It.epc]
<1>1. AtItem /\ Settable(o, It.epc)
  BY DEF SetTaken
<1>2. It \in Item /\ o \in DOMAIN Table
  BY <1>1, ItType DEF TInv
<1>3. PICK v \in Read(o, It) :
        /\ store' = IF p.setret[v] > 0
                    THEN [store EXCEPT ![o][It.epc] = v] ELSE store
        /\ IF announces(p, p.setret[v])
           THEN heard' = Believe(o, It)
           ELSE heard' = heard
  BY DEF SetTaken
<1>4. CASE p.setret[v] > 0
  <2>1. store' = [store EXCEPT ![o][It.epc] = v]
    BY <1>3, <1>4
  <2>2. IF p.anno THEN heard' = Believe(o, It) ELSE heard' = heard
    BY <1>3, <1>4 DEF announces
  <2>3. get_property(o, It.epc)
    BY <1>1 DEF Settable
  <2> QED
    BY <1>2, <2>1, <2>2, <2>3, HeardSet
<1>5. CASE ~(p.setret[v] > 0)
  BY <1>3, <1>5 DEF HeardOK, announces
<1> QED
  BY <1>4, <1>5

\* No step makes a listener wrong.
LEMMA HeardNext == TInv /\ HeardOK /\ [Next]_vars => HeardOK'
<1> SUFFICES ASSUME TInv, HeardOK, [Next]_vars PROVE HeardOK'
  OBVIOUS
<1>1. CASE SetTaken
  BY <1>1, HeardSetTaken
<1>2. CASE Restart
  BY <1>2 DEF Restart, HeardOK, Unknown
<1>3. CASE UNCHANGED <<store, heard>>
  BY <1>3 DEF HeardOK
<1>4. SetTaken \/ Restart \/ UNCHANGED <<store, heard>>
  BY DEF Next, Handle, Ignore, Receive, CutFrame, GetWithData, Drop,
         SetNoProperty, SetRefused, SetAborts, Kill, Gone, GetTaken, GetRefused,
         InfItem, Silent, Reply, Answer, Return, vars
<1> QED
  BY <1>1, <1>2, <1>3, <1>4

\* A listener that follows the announcements of a process is never wrong about
\* a property, for every table, frame and order of arrival.
THEOREM ListenerCorrect == Spec => []ListenerIsRight
<1>1. Init => HeardOK
  BY DEF Init, HeardOK, Unknown
<1>2. HeardOK => ListenerIsRight
  BY DEF HeardOK, ListenerIsRight
<1> QED
  BY TypeInit, TypeNext, HeardNext, <1>1, <1>2, PTL DEF Spec

\* A step that changes an announced property announces it.
LEMMA ChangeStep == TInv /\ [Next]_vars => [AnnouncedChange]_vars
<1> SUFFICES ASSUME TInv, Next, NEW o \in DOMAIN Table, NEW e \in DOMAIN Table[o],
                    Table[o][e].anno, store'[o][e] # store[o][e], pc # "dead"
             PROVE  /\ Len(out') = Len(out) + 1
                    /\ out'[Len(out')].frame.seoj = o
                    /\ out'[Len(out')].frame.items[1].epc = e
  BY DEF AnnouncedChange
<1>1. SetTaken
  BY DEF Next, Handle, Ignore, Receive, CutFrame, GetWithData, Drop,
       SetNoProperty, SetRefused, SetAborts, Kill, Gone, GetTaken, GetRefused,
       InfItem, Silent, Reply, Answer, Return, Restart
<1>2. AtItem
  BY <1>1 DEF SetTaken
<1>3. req.deoj \in Objects /\ It.epc \in EPC /\ o \in Objects /\ e \in EPC
  BY <1>2, ItType, ConstantsAssumption DEF Item
<1>4. store \in [Objects -> [EPC -> Value]] /\ out \in Seq(Datagram)
  BY DEF TInv, TypeOK
<1> DEFINE p == Table[req.deoj][It.epc]
<1>5. PICK v \in Read(req.deoj, It) :
      /\ store' = IF p.setret[v] > 0
                  THEN [store EXCEPT ![req.deoj][It.epc] = v] ELSE store
      /\ announces(p, p.setret[v]) =>
           out' = Append(out, announce_property(req.deoj, It))
  BY <1>1 DEF SetTaken
<1>6. p.setret[v] > 0 /\ o = req.deoj /\ e = It.epc
  BY <1>3, <1>4, <1>5
<1>7. out' = Append(out, announce_property(o, It))
  BY <1>5, <1>6 DEF announces
<1>8. Len(out') = Len(out) + 1 /\ out'[Len(out')] = announce_property(o, It)
  BY <1>4, <1>7
<1> QED
  BY <1>6, <1>8 DEF announce_property, setup_frame

\* An announced property changes only together with its announcement.
THEOREM ChangesCorrect == Spec => ChangesAreAnnounced
BY TypeInit, TypeNext, ChangeStep, PTL DEF Spec, ChangesAreAnnounced
-----------------------------------------------------------------------------
(***************************************************************************)
(* What the answers say.  Until the loop over the properties is done there *)
(* is no answer, only announcements of a set; and what has been collected  *)
(* for it is about the properties looked at so far.                        *)
(***************************************************************************)
Quiet == \A i \in 1..Len(out) : Announcing /\ out[i].frame.esv = "INF"

\* While nothing was refused, everything looked at was done, or is as it was read.
AllDone ==
  \A j \in 1..(idx - 1) :
    /\ req.esv \in SetEsv =>
         Settable(req.deoj, req.items[j].epc) /\ res[j].pdc = 0
    /\ req.esv \in GetEsv =>
         /\ res[j].pdc > 0
         /\ res[j].edt = store[req.deoj][req.items[j].epc]

Collected ==
  /\ Len(res) = idx - 1
  /\ idx - 1 <= Len(req.items)
  /\ idx - 1 <= req.opc
  /\ \A j \in 1..(idx - 1) : res[j].epc = req.items[j].epc
  /\ ret = 0 => AllDone

AnswerInv ==
  /\ pc = "recv" => out = <<>> /\ idx = 1 /\ ret = 0 /\ res = <<>>
  /\ pc = "items" => Quiet /\ Collected
  /\ AnswerIsRecognised
  /\ SuccessMeansAll

\* One more property was looked at: the last of the answer's properties is its.
LEMMA CollectItem ==
  ASSUME TInv, AnswerInv, AtItem, NEW status \in {0, -2}, NEW item \in Item,
         NextItem(status, item), item.epc = It.epc,
         status = 0 => ret = 0,
         \A j \in 1..(idx - 1) : (req.esv \in GetEsv) =>
           store'[req.deoj][req.items[j].epc] = store[req.deoj][req.items[j].epc],
         status = 0 =>
           /\ req.esv \in SetEsv => Settable(req.deoj, It.epc) /\ item.pdc = 0
           /\ req.esv \in GetEsv =>
                item.pdc > 0 /\ item.edt = store'[req.deoj][It.epc]
  PROVE  Collected'
<1>1. /\ idx' = idx + 1 /\ ret' = status /\ res' = Append(res, item)
      /\ UNCHANGED <<pc, from, req, before>>
  BY DEF NextItem
<1>2. /\ pc = "items" /\ idx <= req.opc /\ idx <= Len(req.items)
      /\ idx \in Nat \ {0} /\ res \in Seq(Item)
  BY DEF AtItem, TInv, TypeOK
<1>3. Len(res) = idx - 1 /\ Collected
  BY <1>2 DEF AnswerInv, Collected
<1>4. Len(res') = idx /\ res'[idx] = item
      /\ \A j \in 1..(idx - 1) : res'[j] = res[j]
  BY <1>1, <1>2, <1>3
<1>5. \A j \in 1..(idx' - 1) : j = idx \/ j \in 1..(idx - 1)
  BY <1>1, <1>2
<1>6. \A j \in 1..(idx' - 1) : res'[j].epc = req'.items[j].epc
  BY <1>1, <1>3, <1>4, <1>5 DEF Collected, It
<1>7. ASSUME ret' = 0 PROVE AllDone'
  <2>1. AllDone
    BY <1>1, <1>3, <1>7 DEF Collected
  <2> SUFFICES ASSUME NEW j \in 1..(idx' - 1)
               PROVE  /\ req.esv \in SetEsv =>
                           Settable(req.deoj, req.items[j].epc) /\ res'[j].pdc = 0
                      /\ req.esv \in GetEsv =>
                           /\ res'[j].pdc > 0
                           /\ res'[j].edt = store'[req.deoj][req.items[j].epc]
    BY <1>1 DEF AllDone, Settable, get_property
  <2>2. CASE j = idx
    BY <1>1, <1>4, <1>7, <2>2 DEF It
  <2>3. CASE j \in 1..(idx - 1)
    BY <1>4, <2>1, <2>3 DEF AllDone
  <2> QED
    BY <1>5, <2>2, <2>3
<1> QED
  BY <1>1, <1>2, <1>4, <1>6, <1>7 DEF Collected

\* The answer that is sent when the loop is done.
LEMMA ReplyAnswers == TInv /\ AnswerInv /\ Reply => AnswerInv'
<1> SUFFICES ASSUME TInv, AnswerInv, Reply PROVE AnswerInv'
  OBVIOUS
<1> DEFINE a == setup_frame(req.tid, req.deoj, req.seoj,
                  select_response_esv(req.esv, ret), req.opc, res)
           n == Len(out) + 1
<1>1. /\ pc = "items" /\ idx > req.opc /\ pc' = "done"
      /\ ~(req.esv = "SetI" /\ ret = 0)
      /\ UNCHANGED <<store, tid, from, req, idx, ret, res, before, heard>>
      /\ \E to : out' = Append(out, [to |-> to, frame |-> a])
  BY DEF Reply, Answer, ItemsDone
<1>2. Quiet /\ Collected
  BY <1>1 DEF AnswerInv
<1>3. out \in Seq(Datagram) /\ req \in AnyFrame /\ idx \in Nat \ {0}
      /\ ret \in {0, -2} /\ req.opc \in Nat
  BY DEF TInv, TypeOK, AnyFrame
<1>4. req.ehd /\ req.esv \in SetEsv \cup GetEsv \cup {"INFC"}
  BY <1>1 DEF TInv, ReqOK, Ignored
<1>5. Len(out') = n /\ out'[n].frame = a
      /\ \A i \in 1..Len(out) : out'[i] = out[i]
  BY <1>1, <1>3
<1>6. \A i \in Answers' : i = n
  BY <1>1, <1>2, <1>3, <1>5 DEF Answers, Announcing, Quiet
<1>7. Len(res) = req.opc /\ \A j \in 1..req.opc : res[j].epc = req.items[j].epc
  BY <1>1, <1>2, <1>3 DEF Collected
<1>8. req.esv # "INFC" => unmarshal_frame_response(req, a)
  BY <1>1, <1>3, <1>4
  DEF unmarshal_frame_response, setup_frame, select_response_esv, LowNibble,
      SetEsv, GetEsv, Esv, RequestEsv, ResponseEsv, ErrorEsv
<1>9. AnswerIsRecognised'
  BY <1>1, <1>5, <1>6, <1>7, <1>8 DEF AnswerIsRecognised, setup_frame
<1>10. SuccessMeansAll'
  <2>1. a.esv \in {"Set_Res", "Get_Res", "INF"} => ret = 0
    BY <1>1, <1>3, <1>4 DEF setup_frame, select_response_esv, SetEsv, GetEsv
  <2>2. a.esv = "Set_Res" => req.esv \in SetEsv
    BY <1>1, <1>3, <1>4 DEF setup_frame, select_response_esv, SetEsv, GetEsv
  <2>3. a.esv \in {"Get_Res", "INF"} => req.esv \in GetEsv
    BY <1>1, <1>3, <1>4 DEF setup_frame, select_response_esv, SetEsv, GetEsv
  <2>4. ret = 0 => AllDone /\ idx - 1 = req.opc
    BY <1>1, <1>2, <1>3 DEF Collected
  <2>5. a.items = res
    BY DEF setup_frame
  <2> HIDE DEF a
  <2>6. a.esv = "Set_Res" => \A j \in 1..req.opc :
          Settable(req.deoj, req.items[j].epc) /\ a.items[j].pdc = 0
    BY <2>1, <2>2, <2>4, <2>5 DEF AllDone
  <2>7. a.esv \in {"Get_Res", "INF"} => \A j \in 1..req.opc :
          /\ a.items[j].pdc > 0
          /\ a.items[j].edt = store[req.deoj][req.items[j].epc]
    BY <2>1, <2>3, <2>4, <2>5 DEF AllDone
  <2> QED
    BY <1>1, <1>5, <1>6, <2>6, <2>7 DEF SuccessMeansAll, Settable, get_property
<1> QED
  BY <1>1, <1>9, <1>10 DEF AnswerInv

\* Looking at a property is not answering.
LEMMA ItemAnswers ==
  ASSUME TInv, AnswerInv, AtItem, pc' = pc, req' = req, Collected',
         \/ out' = out
         \/ /\ req.esv \in SetEsv
            /\ out' = Append(out, announce_property(req.deoj, It))
  PROVE  AnswerInv'
<1>1. pc = "items" /\ Quiet /\ out \in Seq(Datagram)
  BY DEF AtItem, AnswerInv, TInv, TypeOK
<1>2. Quiet'
  <2>1. CASE out' = out
    BY <1>1, <2>1 DEF Quiet, Announcing
  <2>2. CASE req.esv \in SetEsv /\ out' = Append(out, announce_property(req.deoj, It))
    <3>1. announce_property(req.deoj, It).frame.esv = "INF"
      BY DEF announce_property, setup_frame
    <3>2. \A i \in 1..Len(out') : i \in 1..Len(out) \/ i = Len(out) + 1
      BY <1>1, <2>2
    <3>3. /\ \A i \in 1..Len(out) : out'[i] = out[i]
          /\ out'[Len(out) + 1] = announce_property(req.deoj, It)
      BY <1>1, <2>2
    <3> QED
      BY <1>1, <2>2, <3>1, <3>2, <3>3 DEF Quiet, Announcing
  <2> QED
    BY <2>1, <2>2
<1>3. Answers' = {}
  BY <1>2 DEF Quiet, Answers, Announcing
<1> QED
  BY <1>1, <1>2, <1>3 DEF AnswerInv, AnswerIsRecognised, SuccessMeansAll

LEMMA AnswerInit == Init => AnswerInv
<1> SUFFICES ASSUME Init PROVE AnswerInv
  OBVIOUS
<1>1. Quiet
  BY DEF Init, Quiet, Announcing, NoFrame, announce_profile, setup_frame
<1>2. Answers = {}
  BY <1>1 DEF Quiet, Answers
<1> QED
  BY <1>2 DEF Init, AnswerInv, AnswerIsRecognised, SuccessMeansAll

\* One step per action, those of the loop by the two lemmas.
LEMMA AnswerNext == TInv /\ AnswerInv /\ [Next]_vars => AnswerInv'
<1> SUFFICES ASSUME TInv, AnswerInv, [Next]_vars PROVE AnswerInv'
  OBVIOUS
<1>1. ASSUME NEW a \in Address, NEW f \in Arriving, Ignore(a, f) \/ Receive(a, f)
      PROVE  AnswerInv'
  <2>1. out' = <<>> /\ idx' = 1 /\ ret' = 0 /\ res' = <<>>
        /\ pc' \in {"items", "done"}
    BY <1>1 DEF Ignore, Receive, AnswerInv
  <2>2. Quiet' /\ Answers' = {}
    BY <2>1 DEF Quiet, Answers
  <2>3. pc' = "items" => Collected'
    <3>1. CASE Ignore(a, f)
      BY <3>1 DEF Ignore
    <3>2. CASE Receive(a, f)
      <4>1. req' \in AnyFrame /\ req'.opc \in Nat /\ Len(req'.items) \in Nat
        BY <3>2, ArrivingAssumption DEF Receive, AnyFrame
      <4> QED
        BY <2>1, <4>1 DEF Collected, AllDone
    <3> QED
      BY <1>1, <3>1, <3>2
  <2> QED
    BY <2>1, <2>2, <2>3 DEF AnswerInv, AnswerIsRecognised, SuccessMeansAll
<1>2. CASE CutFrame \/ GetWithData \/ Silent
  <2>1. /\ pc = "items" /\ pc' = "done"
        /\ UNCHANGED <<store, tid, from, req, idx, ret, res, out, before, heard>>
    BY <1>2 DEF CutFrame, GetWithData, AtItem, Drop, Silent, ItemsDone
  <2>2. Answers' = {}
    BY <2>1 DEF AnswerInv, Quiet, Answers, Announcing
  <2> QED
    BY <2>1, <2>2 DEF AnswerInv, AnswerIsRecognised, SuccessMeansAll
<1>3. CASE SetNoProperty \/ SetRefused
  <2>1. /\ AtItem /\ NextItem(-2, It) /\ UNCHANGED <<store, out>>
    BY <1>3 DEF SetNoProperty, SetRefused, Refused
  <2>2. Collected'
    BY <2>1, ItType, CollectItem
  <2> QED
    BY <2>1, <2>2, ItemAnswers DEF NextItem
<1>4. CASE SetTaken
  <2>1. /\ AtItem /\ NextItem(ret, Taken(It)) /\ Settable(req.deoj, It.epc)
        /\ req.esv \in SetEsv /\ req.esv \notin GetEsv
        /\ out' = out \/ out' = Append(out, announce_property(req.deoj, It))
    BY <1>4 DEF SetTaken, SetEsv, GetEsv
  <2>2. Taken(It) \in Item /\ Taken(It).epc = It.epc /\ Taken(It).pdc = 0
    BY <2>1, ItType DEF Taken, Item
  <2>3. ret \in {0, -2}
    BY DEF TInv, TypeOK
  <2>4. Collected'
    BY <2>1, <2>2, <2>3, CollectItem
  <2> QED
    BY <2>1, <2>4, ItemAnswers DEF NextItem
<1>5. CASE GetTaken \/ GetRefused \/ InfItem
  <2>1. AtItem /\ UNCHANGED <<store, tid, out, heard>>
    BY <1>5 DEF GetTaken, GetRefused, InfItem
  <2>2. It \in Item /\ req.deoj \in Objects /\ req.deoj \in DOMAIN Table
    BY <2>1, ItType
  <2>3. ret \in {0, -2}
    BY DEF TInv, TypeOK
  <2>4. CASE GetTaken
    <3> DEFINE item == [epc |-> It.epc, pdc |-> getf(req.deoj, It.epc),
                        edt |-> store[req.deoj][It.epc]]
    <3>1. /\ NextItem(ret, item) /\ req.esv \in GetEsv /\ req.esv \notin SetEsv
          /\ getf(req.deoj, It.epc) > 0
      BY <2>4 DEF GetTaken, SetEsv, GetEsv
    <3>2. getf(req.deoj, It.epc) \in Int
      BY <2>2, ConstantsAssumption DEF getf, Gettable, get_property, Property
    <3>3. item \in Item
      BY <2>2, <3>1, <3>2 DEF Item, TInv, TypeOK
    <3>4. item.epc = It.epc /\ item.pdc > 0 /\ item.edt = store'[req.deoj][It.epc]
      BY <2>1, <3>1
    <3> HIDE DEF item
    <3>5. Collected'
      BY <2>1, <2>3, <3>1, <3>3, <3>4, CollectItem
    <3> QED
      BY <2>1, <3>1, <3>5, ItemAnswers DEF NextItem
  <2>5. CASE GetRefused
    <3>1. NextItem(-2, It)
      BY <2>5 DEF GetRefused, Refused
    <3>2. Collected'
      BY <2>1, <2>2, <3>1, CollectItem
    <3> QED
      BY <2>1, <3>1, <3>2, ItemAnswers DEF NextItem
  <2>6. CASE InfItem
    <3>1. /\ NextItem(ret, Taken(It)) /\ req.esv \notin SetEsv
          /\ req.esv \notin GetEsv
      BY <2>6 DEF InfItem, SetEsv, GetEsv
    <3>2. Taken(It) \in Item /\ Taken(It).epc = It.epc
      BY <2>2 DEF Taken, Item
    <3>3. Collected'
      BY <2>1, <2>3, <3>1, <3>2, CollectItem
    <3> QED
      BY <2>1, <3>1, <3>3, ItemAnswers DEF NextItem
  <2> QED
    BY <1>5, <2>4, <2>5, <2>6
<1>6. CASE Reply
  BY <1>6, ReplyAnswers
<1>7. CASE SetAborts \/ Kill
  <2>1. /\ pc' = "dead"
        /\ UNCHANGED <<store, tid, from, req, idx, ret, res, out, before, heard>>
    BY <1>7 DEF SetAborts, Kill, Gone
  <2> QED
    BY <2>1 DEF AnswerInv, AnswerIsRecognised, SuccessMeansAll, Answers, Announcing,
                Settable, get_property
<1>8. CASE Return
  <2>1. Answers' = {}
    BY <1>8 DEF Return, Answers
  <2> QED
    BY <1>8, <2>1 DEF Return, AnswerInv, AnswerIsRecognised, SuccessMeansAll
<1>9. CASE Restart
  <2>1. Answers' = {}
    BY <1>9 DEF Restart, Answers, Announcing, NoFrame, announce_profile, setup_frame
  <2> QED
    BY <1>9, <2>1 DEF Restart, AnswerInv, AnswerIsRecognised, SuccessMeansAll
<1>10. CASE UNCHANGED vars
  BY <1>10 DEF vars, AnswerInv, Quiet, Collected, AllDone, AnswerIsRecognised,
     SuccessMeansAll, Answers, Announcing, Settable, get_property
<1> QED
  BY <1>1, <1>2, <1>3, <1>4, <1>5, <1>6, <1>7, <1>8, <1>9, <1>10 DEF Next, Handle

\* Whatever is asked, the answer is one the asking side recognises, names the same
\* properties in their order, and is the last thing sent.
THEOREM AnswerCorrect == Spec => []AnswerIsRecognised
<1>1. AnswerInv => AnswerIsRecognised
  BY DEF AnswerInv
<1> QED
  BY TypeInit, TypeNext, AnswerInit, AnswerNext, <1>1, PTL DEF Spec

\* A success code speaks for every property of the request.
THEOREM SuccessCorrect == Spec => []SuccessMeansAll
<1>1. AnswerInv => SuccessMeansAll
  BY DEF AnswerInv
<1> QED
  BY TypeInit, TypeNext, AnswerInit, AnswerNext, <1>1, PTL DEF Spec
-----------------------------------------------------------------------------
(***************************************************************************)
(* What a set reports is what it did.  mls_obj.h lets a setter report an   *)
(* error by 0 as well; the server takes a 0 for success, so this is true   *)
(* of the setters that do not.                                             *)
(***************************************************************************)
SetInv ==
  /\ pc = "recv" => before = store
  /\ SetReportIsTrue

\* What was taken before the property looked at, and what is taken with it.
LEMMA TakenNext ==
  ASSUME TInv, AnswerInv, AtItem, NEW status, NEW item, NextItem(status, item),
         NEW e \in EPC
  PROVE  /\ TakenItems(e) \subseteq 1..(idx - 1)
         /\ TakenItems(e)' = TakenItems(e) \cup
              (IF It.epc = e /\ item = Taken(It) THEN {idx} ELSE {})
         /\ ~ShortItem(e)' =>
              /\ ~ShortItem(e)
              /\ It.epc = e /\ get_property(req.deoj, e) =>
                   ~(It.pdc < Table[req.deoj][e].size)
<1>1. /\ idx' = idx + 1 /\ res' = Append(res, item) /\ req' = req
      /\ pc = "items" /\ idx \in Nat \ {0} /\ res \in Seq(Item)
  BY DEF NextItem, AtItem, TInv, TypeOK
<1>2. Len(res) = idx - 1
  BY <1>1 DEF AnswerInv, Collected
<1>3. /\ res'[idx] = item
      /\ \A j \in 1..(idx - 1) : res'[j] = res[j]
  BY <1>1, <1>2
<1>4. \A j : j \in 1..(idx' - 1) <=> j = idx \/ j \in 1..(idx - 1)
  BY <1>1
<1>5. TakenItems(e)' = {j \in 1..(idx' - 1) :
         req.items[j].epc = e /\ res'[j] = Taken(req.items[j])}
  BY <1>1 DEF TakenItems, Taken
<1>6. \A j \in 1..(idx - 1) :
        res'[j] = Taken(req.items[j]) <=> res[j] = Taken(req.items[j])
  BY <1>3
<1>7. TakenItems(e)' = TakenItems(e) \cup
        (IF It.epc = e /\ item = Taken(It) THEN {idx} ELSE {})
  BY <1>3, <1>4, <1>5, <1>6 DEF TakenItems, It
<1>8. ~ShortItem(e)' => ~ShortItem(e)
  BY <1>1, <1>4 DEF ShortItem, get_property
<1>9. ~ShortItem(e)' /\ It.epc = e /\ get_property(req.deoj, e) =>
        ~(It.pdc < Table[req.deoj][e].size)
  BY <1>1, <1>4 DEF ShortItem, get_property, It
<1> QED
  BY <1>7, <1>8, <1>9 DEF TakenItems

\* A property that is refused keeps what it had; it is not among those taken.
LEMMA SetRefusedReport ==
  ASSUME TInv, AnswerInv, SetInv, SetNoProperty \/ SetRefused
  PROVE  SetReportIsTrue'
<1>1. /\ AtItem /\ req.esv \in SetEsv /\ NextItem(-2, It) /\ store' = store
      /\ pc = "items" /\ req' = req /\ before' = before
  BY DEF SetNoProperty, SetRefused, Refused, NextItem, AtItem
<1>2. req.deoj \in DOMAIN Table
  BY <1>1, ItType
<1> SUFFICES ASSUME NEW e \in EPC, ~ShortItem(e)', get_property(req.deoj, e)
             PROVE  store[req.deoj][e] =
                      IF TakenItems(e)' = {} THEN before[req.deoj][e]
                      ELSE req.items[LastOf(TakenItems(e)')].edt
  BY <1>1 DEF SetReportIsTrue, get_property, LastOf
<1>3. TakenItems(e)' = TakenItems(e)
  <2>1. Table[req.deoj][e].size \in Nat \ {0}
    BY <1>2, ConstantsAssumption DEF get_property, Property
  <2>2. It.epc = e => It.pdc # 0
    BY <1>1, <2>1, TakenNext
  <2>3. It.epc = e => It # Taken(It)
    BY <2>2 DEF Taken
  <2>4. TakenItems(e)' = TakenItems(e) \cup
          (IF It.epc = e /\ It = Taken(It) THEN {idx} ELSE {})
    BY <1>1, TakenNext
  <2> QED
    BY <2>3, <2>4
<1>4. ~ShortItem(e)
  BY <1>1, TakenNext
<1> QED
  BY <1>1, <1>3, <1>4 DEF SetInv, SetReportIsTrue

\* A property that is taken has the data of the item, which is now the last.
LEMMA SetTakenReport ==
  ASSUME TInv, AnswerInv, SetInv, SettersTellErrors, SetTaken
  PROVE  SetReportIsTrue'
<1>1. /\ AtItem /\ req.esv \in SetEsv /\ NextItem(ret, Taken(It))
      /\ Settable(req.deoj, It.epc)
      /\ pc = "items" /\ req' = req /\ before' = before
  BY DEF SetTaken, NextItem, AtItem
<1>2. /\ req.deoj \in DOMAIN Table /\ req.deoj \in Objects /\ It \in Item
      /\ It.epc \in DOMAIN Table[req.deoj] /\ It.epc \in EPC
      /\ It.pdc # 0 => It.edt \in Value
      /\ Table[req.deoj][It.epc] \in Property
  BY <1>1, ItType, SettableType DEF Settable, get_property, Item
<1>3. PICK v \in Read(req.deoj, It) :
        /\ Table[req.deoj][It.epc].setret[v] >= 0
        /\ store' = IF Table[req.deoj][It.epc].setret[v] > 0
                    THEN [store EXCEPT ![req.deoj][It.epc] = v] ELSE store
  BY DEF SetTaken
<1>4. v \in Value
  BY <1>2, <1>3 DEF Read, Property, Item
<1>5. store' = [store EXCEPT ![req.deoj][It.epc] = v]
  <2>1. Table[req.deoj][It.epc].setret[v] # 0
    BY <1>2, <1>4 DEF SettersTellErrors
  <2>2. Table[req.deoj][It.epc].setret[v] \in Int
    BY <1>2, <1>4 DEF Property
  <2> QED
    BY <1>3, <2>1, <2>2
<1>6. store \in [Objects -> [EPC -> Value]]
  BY DEF TInv, TypeOK
<1> SUFFICES ASSUME NEW e \in EPC, ~ShortItem(e)', get_property(req.deoj, e)
             PROVE  store'[req.deoj][e] =
                      IF TakenItems(e)' = {} THEN before[req.deoj][e]
                      ELSE req.items[LastOf(TakenItems(e)')].edt
  BY <1>1 DEF SetReportIsTrue, get_property, LastOf
<1>7. CASE e = It.epc
  <2>1. v = It.edt
    BY <1>1, <1>3, <1>7, TakenNext DEF Read
  <2>2. store'[req.deoj][e] = It.edt
    BY <1>2, <1>5, <1>6, <1>7, <2>1
  <2>3. TakenItems(e)' = TakenItems(e) \cup {idx}
        /\ TakenItems(e) \subseteq 1..(idx - 1)
    BY <1>1, <1>7, TakenNext
  <2>4. idx \in Nat \ {0}
    BY DEF TInv, TypeOK
  <2>5. LastOf(TakenItems(e)') = idx
    <3> DEFINE S == TakenItems(e) \cup {idx}
    <3>1. idx \in S /\ \A j \in S : j \in Nat /\ j <= idx
      BY <2>3, <2>4
    <3>2. \A i \in S : (\A j \in S : j <= i) => i = idx
      BY <2>4, <3>1
    <3> HIDE DEF S
    <3>3. LastOf(S) = idx
      BY <3>1, <3>2 DEF LastOf
    <3> QED
      BY <2>3, <3>3 DEF S
  <2> QED
    BY <2>2, <2>3, <2>5 DEF It
<1>8. CASE e # It.epc
  <2>1. TakenItems(e)' = TakenItems(e) /\ ~ShortItem(e)
    BY <1>1, <1>8, TakenNext
  <2>2. store'[req.deoj][e] = store[req.deoj][e]
    BY <1>2, <1>5, <1>6, <1>8
  <2> QED
    BY <1>1, <2>1, <2>2 DEF SetInv, SetReportIsTrue
<1> QED
  BY <1>7, <1>8

LEMMA SetInvNext ==
  ASSUME SettersTellErrors, TInv, AnswerInv, SetInv, [Next]_vars
  PROVE  SetInv'
<1>1. ASSUME NEW a \in Address, NEW f \in Arriving, Ignore(a, f) \/ Receive(a, f)
      PROVE  SetInv'
  <2>1. store' = store /\ before' = store /\ idx' = 1 /\ pc' # "recv"
    BY <1>1 DEF Ignore, Receive, SetInv, AnswerInv
  <2>2. \A e \in EPC : TakenItems(e)' = {}
    BY <2>1 DEF TakenItems
  <2> QED
    BY <2>1, <2>2 DEF SetInv, SetReportIsTrue
<1>2. CASE SetNoProperty \/ SetRefused
  <2>1. pc' # "recv"
    BY <1>2 DEF SetNoProperty, SetRefused, NextItem, AtItem
  <2> QED
    BY <1>2, <2>1, SetRefusedReport DEF SetInv
<1>3. CASE SetTaken
  <2>1. pc' # "recv"
    BY <1>3 DEF SetTaken, NextItem, AtItem
  <2> QED
    BY <1>3, <2>1, SetTakenReport DEF SetInv
<1>4. CASE GetTaken \/ GetRefused \/ InfItem
  <2>1. pc' # "recv" /\ req'.esv \notin SetEsv
    BY <1>4 DEF GetTaken, GetRefused, InfItem, NextItem, AtItem, SetEsv, GetEsv
  <2> QED
    BY <2>1 DEF SetInv, SetReportIsTrue
<1>5. CASE \/ CutFrame \/ GetWithData \/ Silent \/ Reply \/ SetAborts \/ Kill
           \/ Return \/ Restart
  BY <1>5 DEF CutFrame, GetWithData, Drop, Silent, Reply, Answer, SetAborts, Kill,
     Gone, Return, Restart, SetInv, SetReportIsTrue
<1>6. CASE UNCHANGED vars
  <2>1. UNCHANGED <<pc, store, req, idx, res, before>>
    BY <1>6 DEF vars
  <2>2. \A e \in EPC : TakenItems(e)' = TakenItems(e)
    BY <2>1 DEF TakenItems, Taken
  <2>3. \A e \in EPC : ShortItem(e)' <=> ShortItem(e)
    BY <2>1 DEF ShortItem, get_property
  <2> QED
    BY <2>1, <2>2, <2>3 DEF SetInv, SetReportIsTrue, LastOf, get_property
<1> QED
  BY <1>1, <1>2, <1>3, <1>4, <1>5, <1>6 DEF Next, Handle

\* What a set reports of every property of the request is what it did to it, also
\* when one is named twice or in between one is refused.
THEOREM SetReportCorrect == Spec => [](SettersTellErrors => SetReportIsTrue)
<1> DEFINE I == SettersTellErrors => SetInv
<1>1. Init => I
  BY DEF Init, SetInv, SetReportIsTrue
<1>2. I => (SettersTellErrors => SetReportIsTrue)
  BY DEF SetInv
<1>3. TInv /\ AnswerInv /\ I /\ [Next]_vars => I'
  <2> SUFFICES ASSUME TInv, AnswerInv, I, [Next]_vars, SettersTellErrors
               PROVE  SetInv'
    BY DEF SettersTellErrors
  <2> QED
    BY SetInvNext
<1> HIDE DEF I
<1> QED
  BY TypeInit, TypeNext, AnswerInit, AnswerNext, <1>1, <1>2, <1>3, PTL DEF Spec
-----------------------------------------------------------------------------
(***************************************************************************)
(* The end of a handler.                                                   *)
(***************************************************************************)

\* The steps a handler has before it at the most: those of the items that are left,
\* the answer, and the return to the loop.
StepsLeft ==
  IF pc = "items" THEN 2 + (IF idx <= req.opc THEN req.opc + 1 - idx ELSE 0)
  ELSE IF pc = "done" THEN 1
  ELSE 0

\* Every step of a handler brings it nearer to its end, whatever the counts of the frame
\* say and whether or not its items are there: none goes on for ever or comes back to an
\* item.  HandlerEnds rests on it.
THEOREM HandlerDescends ==
  Spec => [][Handle => StepsLeft \in Nat /\ StepsLeft' \in Nat /\ StepsLeft' < StepsLeft]_vars
<1>1. ASSUME TInv, Handle
      PROVE  StepsLeft \in Nat /\ StepsLeft' \in Nat /\ StepsLeft' < StepsLeft
  <2>1. idx \in Nat \ {0} /\ req.opc \in Nat
    BY <1>1 DEF TInv, TypeOK, AnyFrame
  <2>2. CASE CutFrame \/ GetWithData \/ Silent \/ Reply
    <3>1. pc = "items" /\ pc' = "done"
      BY <2>2 DEF CutFrame, GetWithData, AtItem, Drop, Silent, Reply, Answer, ItemsDone
    <3> QED
      BY <2>1, <3>1 DEF StepsLeft
  <2>3. CASE \/ SetNoProperty \/ SetRefused \/ SetTaken
             \/ GetTaken \/ GetRefused \/ InfItem
    <3>1. AtItem /\ \E status, item : NextItem(status, item)
      BY <2>3 DEF SetNoProperty, SetRefused, SetTaken, GetTaken, GetRefused, InfItem
    <3>2. pc = "items" /\ pc' = "items" /\ req' = req /\ idx' = idx + 1 /\ idx <= req.opc
      BY <3>1 DEF AtItem, NextItem
    <3> QED
      BY <2>1, <3>2 DEF StepsLeft
  <2>4. CASE SetAborts
    <3>1. pc = "items" /\ pc' = "dead"
      BY <2>4 DEF SetAborts, AtItem, Gone
    <3> QED
      BY <2>1, <3>1 DEF StepsLeft
  <2>5. CASE Return
    <3>1. pc = "done" /\ pc' = "recv"
      BY <2>5 DEF Return
    <3> QED
      BY <3>1 DEF StepsLeft
  <2> QED
    BY <1>1, <2>2, <2>3, <2>4, <2>5 DEF Handle
<1> QED
  BY <1>1, TypeInit, TypeNext, PTL DEF Spec
=============================================================================
