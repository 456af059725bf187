------------------------------ MODULE Discover ------------------------------
(***************************************************************************)
(* el-discover (tool/el-discover/main.c), which asks the group for the     *)
(* instance lists of its nodes and prints the hosts that have a given      *)
(* instance, with mls_elnet_infreq (middleware/comm/mls_elnet.c), which    *)
(* sends the request once and collects answers until three seconds pass    *)
(* without a datagram or the caller's entries are full.                    *)
(*                                                                         *)
(* The nodes are the ones of module Elnet, seen from outside: they answer  *)
(* the request to the group, and announce themselves when they start.      *)
(***************************************************************************)
EXTENDS Frame, NodeObjects, Bags

CONSTANTS
  Nodes,      \* the hosts in the group that are ECHONET Lite nodes
  Tool,       \* the host el-discover runs on
  Objects,    \* the objects a device can be, as in NodeObjects
  Builds,     \* the nodes that are built of them: sequences of devices
  Devices,    \* Devices[n]: the devices of the node at n
  Refusers,   \* the nodes (of other makes) that refuse to notify the list
  Cond,       \* the instance that is looked for
  Reslnum,    \* the entries mls_elnet_infreq is given (5)
  MaxCopies,  \* the network delivers a datagram 0..MaxCopies times
  Capacity,   \* bound: datagrams on their way to the tool
  MaxChatter, \* bound: things the nodes have to say unasked
  MaxErrors   \* bound: failures of sendto, select and recvfrom

Profile == "profile"            \* 0E F0 01, of every node and of the tool
InstanceList == "instance_list" \* 0xD5
OtherEpc == "operation_status"  \* a property of the profile that is announced
Device == "device"              \* an object that is no profile
RetryMax == 2                   \* retry_max of command

Hosts == Nodes \cup {Tool}

\* There are 128 property codes, from 0x80 on, so an object's number fits a byte.
ASSUME BuildsAssumption ==
  /\ \A eoj \in Objects :
       /\ eoj.props \in Seq([epc: 128..255, get: BOOLEAN, set: BOOLEAN, anno: BOOLEAN])
       /\ Len(eoj.props) <= UCharMax
  /\ \A node \in Builds : node \in Seq(Objects)

ASSUME DiscoverAssumption ==
  /\ Tool \notin Nodes
  /\ Refusers \subseteq Nodes
  /\ \A n \in Nodes : /\ Devices[n] \in Builds
                     /\ InstanceListSize(Devices[n]) <= UCharMax
  /\ Reslnum \in Nat \ {0}
  /\ MaxCopies \in Nat /\ Capacity \in Nat
  /\ MaxChatter \in Nat /\ MaxErrors \in Nat

VARIABLES
  asked,    \* asked[n]: requests on their way to, or queued at, node n
  net,      \* the datagrams on their way to, or queued at, the tool: a bag
  pc,       \* "send", in "select", "examine" the answers, "returned"
  resl,     \* resl[i]: the sender of the datagram in entry i, and its bytes
  resli,    \* the entries that hold an answer
  retry,    \* of command
  printed,  \* the hosts printed
  status,   \* what command returned: "found" (0), "not_found", "error" (-1)
  named,    \* history: the hosts whose accepted answers had Cond in their list
  chatter,  \* what the nodes have said unasked, so far
  errors    \* how often a call has failed

vars == <<asked, net, pc, resl, resli, retry, printed, status, named, chatter, errors>>
-----------------------------------------------------------------------------
NoList == [nins |-> 0, codes |-> <<>>]
Item(epc, edt) == [epc |-> epc, pdc |-> 1, edt |-> edt]
Bare(epc) == [epc |-> epc, pdc |-> 0, edt |-> NoList]
Inf(tid, seoj, item) == setup_frame(tid, seoj, Profile, "INF", 1, <<item>>)

\* The first transaction id of a process is 1, the tool's only one.
Request == setup_frame(1, Profile, Profile, "INF_REQ", 1, <<Bare(InstanceList)>>)

ListOf(n) == mls_el_node_get_instance_list(Devices[n])

\* The answer of a node; its announcement at the start is the same frame.
Answer(n) ==
  IF n \in Refusers
  THEN setup_frame(1, Profile, Profile, "INF_SNA", 1, <<Bare(InstanceList)>>)
  ELSE Inf(1, Profile, Item(InstanceList, ListOf(n)))

\* Bytes that are no instance list and read like one that has the instance.
LooksLikeCond == [nins |-> 1, codes |-> <<Cond>>]

\* What else a node may say to the group: the announcement of another property of
\* its profile, under any number, and of a device's.
Unasked(n) ==
  {Inf(tid, seoj, Item(OtherEpc, LooksLikeCond)) :
     tid \in {1, 2}, seoj \in {Profile, Device}}

Msg(h, f) == [from |-> h, frame |-> f]

ToTool(m) ==
  \E k \in 0..MaxCopies :
    /\ BagCardinality(net) + k <= Capacity
    /\ net' = IF k = 0 THEN net ELSE net (+) [copy \in {m} |-> k]
-----------------------------------------------------------------------------
\* The nodes.
NodeAnswers(n) ==
  /\ asked[n] > 0
  /\ asked' = [asked EXCEPT ![n] = @ - 1]
  /\ ToTool(Msg(n, Answer(n)))
  /\ UNCHANGED <<pc, resl, resli, retry, printed, status, named, chatter, errors>>

\* A new process announces itself; what was queued at the old one is gone.
NodeRestarts(n) ==
  /\ chatter < MaxChatter
  /\ n \notin Refusers
  /\ chatter' = chatter + 1
  /\ asked' = [asked EXCEPT ![n] = 0]
  /\ ToTool(Msg(n, Answer(n)))
  /\ UNCHANGED <<pc, resl, resli, retry, printed, status, named, errors>>

NodeAnnounces(n) ==
  /\ chatter < MaxChatter
  /\ chatter' = chatter + 1
  /\ \E f \in Unasked(n) : ToTool(Msg(n, f))
  /\ UNCHANGED <<asked, pc, resl, resli, retry, printed, status, named, errors>>
-----------------------------------------------------------------------------
\* mls_elnet_infreq.
InfreqFails ==
  /\ pc' = "returned"
  /\ status' = "error"
  /\ UNCHANGED <<asked, net, resl, resli, retry, printed, named, chatter>>

\* The tool is in the group and hears its own request.
Send ==
  /\ pc = "send"
  /\ pc' = "select"
  /\ resli' = 0
  /\ ToTool(Msg(Tool, Request))
  /\ \E k \in [Nodes -> 0..MaxCopies] : asked' = [n \in Nodes |-> asked[n] + k[n]]
  /\ UNCHANGED <<resl, retry, printed, status, named, chatter, errors>>

\* sendto, select or recvfrom fails: what was collected is given up.
Fails ==
  /\ pc \in {"send", "select"}
  /\ errors < MaxErrors
  /\ errors' = errors + 1
  /\ InfreqFails

\* A datagram is received into the next entry, whatever it is.  One without data
\* leaves there what an earlier one had in that place.
Received(entry, m) ==
  LET it == m.frame.items[1]
  IN  [from |-> m.from, epc |-> it.epc, pdc |-> it.pdc,
       edt |-> IF it.pdc = 0 THEN entry.edt ELSE it.edt]

\* Is the instance in the list?  (find_and_print_eoj)
Finds(edt) == \E i \in 1..edt.nins : edt.codes[i] = Cond

\* The entry the next datagram goes to, and whether there is one after n answers.
\* Mutant: always the first.
EntryFirst == 1
Entry == resli + 1
\* Mutant: one more than there are entries.
MoreToCome_one_more(n) == n <= Reslnum
MoreToCome(n) == n < Reslnum

Take(m) ==
  /\ pc = "select"
  /\ BagIn(m, net)
  /\ net' = net (-) SetToBag({m})
  /\ resl' = [resl EXCEPT ![Entry] = Received(@, m)]
  /\ IF unmarshal_frame_response(Request, m.frame)
     THEN /\ resli' = resli + 1
          /\ pc' = IF MoreToCome(resli + 1) THEN "select" ELSE "examine"
          /\ named' = IF m.frame.items[1].epc = InstanceList /\ Finds(m.frame.items[1].edt)
                      THEN named \cup {m.from} ELSE named
     ELSE UNCHANGED <<resli, pc, named>>
  /\ UNCHANGED <<asked, retry, printed, status, chatter, errors>>

\* Mutant: nobody answered, so the request is sent again.
SilenceSendsAgain ==
  /\ pc = "select"
  /\ pc' = IF resli > 0 THEN "examine" ELSE "send"
  /\ UNCHANGED <<asked, net, resl, resli, retry, printed, status, named, chatter, errors>>

\* Three seconds without a datagram.  No answer at all is an error to command,
\* which does not ask again then.
Silence ==
  /\ pc = "select"
  /\ IF resli > 0
     THEN /\ pc' = "examine"
          /\ UNCHANGED <<asked, net, resl, resli, retry, printed, status, named, chatter>>
     ELSE InfreqFails
  /\ UNCHANGED errors
-----------------------------------------------------------------------------
\* command: an entry counts if it is about the instance list and has data.
\* Mutant: the data is looked at though there is none.
ValidWithoutData(entry) == entry.epc = InstanceList
Valid(entry) == entry.epc = InstanceList /\ entry.pdc # 0

Found == {i \in 1..resli : Valid(resl[i]) /\ Finds(resl[i].edt)}

Examine ==
  /\ pc = "examine"
  /\ printed' = {resl[i].from : i \in Found}
  /\ IF Found # {}
     THEN pc' = "returned" /\ status' = "found" /\ UNCHANGED retry
     ELSE IF retry < RetryMax
          THEN pc' = "send" /\ retry' = retry + 1 /\ UNCHANGED status
          ELSE pc' = "returned" /\ status' = "not_found" /\ UNCHANGED retry
  /\ UNCHANGED <<asked, net, resl, resli, named, chatter, errors>>
-----------------------------------------------------------------------------
DiscoverInit ==
  /\ asked = [n \in Nodes |-> 0]
  /\ net = EmptyBag
  /\ pc = "send"
  /\ resl = [i \in 1..Reslnum |->
               [from |-> Tool, epc |-> OtherEpc, pdc |-> 0, edt |-> NoList]]
  /\ resli = 0
  /\ retry = 0
  /\ printed = {}
  /\ status = "running"
  /\ named = {}
  /\ chatter = 0
  /\ errors = 0

ToolStep == Send \/ (\E m \in BagToSet(net) : Take(m)) \/ Silence \/ Examine

DiscoverNext ==
  \/ \E n \in Nodes : NodeAnswers(n) \/ NodeRestarts(n) \/ NodeAnnounces(n)
  \/ ToolStep
  \/ Fails

\* select returns after three seconds; the nodes owe nothing.
DiscoverSpec == DiscoverInit /\ [][DiscoverNext]_vars /\ WF_vars(ToolStep)
-----------------------------------------------------------------------------
List == [nins: Nat, codes: Seq({Cond} \cup UNION {Range(ListOf(n).codes) : n \in Nodes})]
Entries == [from: Hosts, epc: {InstanceList, OtherEpc}, pdc: {0, 1}, edt: List]

\* What may reach the tool: its own request, and what the nodes say.
Datagrams ==
  {Msg(Tool, Request)} \cup UNION {{Msg(n, f) : f \in {Answer(n)} \cup Unasked(n)} : n \in Nodes}

\* While select waits there is an entry for what comes.
DiscoverTypeOK ==
  /\ asked \in [Nodes -> Nat]
  /\ IsABag(net) /\ BagToSet(net) \subseteq Datagrams
  /\ pc \in {"send", "select", "examine", "returned"}
  /\ resl \in [1..Reslnum -> Entries]
  /\ resli \in 0..Reslnum
  /\ pc = "select" => resli < Reslnum
  /\ retry \in 0..RetryMax
  /\ printed \subseteq Hosts /\ named \subseteq Hosts
  /\ status \in {"running", "found", "not_found", "error"}
  /\ status = "running" <=> pc # "returned"
  /\ chatter \in 0..MaxChatter /\ errors \in 0..MaxErrors

\* A host that is printed has the instance: whatever the entries held before, from
\* datagrams that were no answers, from refusals, and from the rounds before, no
\* list is taken for another node's.
PrintedIsThere ==
  \A h \in printed : h \in Nodes /\ Cond \in Range(ListOf(h).codes)

\* If no call failed, the hosts printed are those that named the instance in an
\* answer mls_elnet_infreq took, in any of the rounds; so "not_found" means that
\* none did.  (After an error they are lost.)
AnswersCount ==
  pc = "returned" /\ errors = 0 =>
    /\ printed = named
    /\ (status = "found") = (named # {})

\* What a node says of itself is so: the property maps of its objects, and of its
\* profile, name the properties with the access asked for, and the lists its
\* devices.  (No action changes an object: it is enough to look before anybody is
\* asked.)
AllRight ==
  /\ \A eoj \in Objects : MapIsRight(eoj)
  /\ \A node \in Builds : NodeMapIsRight(node) /\ ListsAreRight(node)
SelfReportIsRight == pc = "send" => AllRight

\* el-discover returns, also when nobody answers: the retries are bounded and so
\* is, in the model, the traffic that starts the three seconds anew.
DiscoverReturns == <>(pc = "returned")
=============================================================================
