-------------------------- MODULE Discover_proofs --------------------------
(***************************************************************************)
(* Theorems about el-discover, for any number of nodes and of entries, and *)
(* whatever the network and the nodes do.                                  *)
(***************************************************************************)
EXTENDS Discover, SequenceLemmas

\* A datagram with a list of instances is from a node, and the list is the node's;
\* one without data has none.
Honest(m) ==
  LET it == m.frame.items[1]
  IN  /\ it.epc = InstanceList /\ it.pdc # 0 => m.from \in Nodes /\ it.edt = ListOf(m.from)
      /\ it.pdc = 0 => it.edt = NoList

NetOK == \A m \in BagToSet(net) : Honest(m)

\* The entries.
SlotsOK ==
  /\ pc \in {"send", "select", "examine", "returned"}
  /\ resli \in 0..Reslnum
  /\ pc = "select" => resli < Reslnum
  /\ DOMAIN resl = 1..Reslnum

\* An entry that counts holds the list of the node it is from.
EntriesOK ==
  \A i \in 1..Reslnum :
    Valid(resl[i]) => resl[i].from \in Nodes /\ resl[i].edt = ListOf(resl[i].from)

\* So far the answers that named the instance are in the entries of this round: in
\* an earlier one there was none.
CountOK ==
  /\ pc \in {"select", "examine"} => named = {resl[i].from : i \in Found}
  /\ pc = "send" => named = {}
  /\ pc # "returned" => printed = {} /\ status = "running"
  /\ errors \in Nat

DiscoverInv ==
  NetOK /\ SlotsOK /\ EntriesOK /\ CountOK /\ PrintedIsThere /\ AnswersCount
-----------------------------------------------------------------------------
\* A list that has the instance is one of a node that has it.
LEMMA ListsAreTrue ==
  ASSUME NEW n \in Nodes, Finds(ListOf(n))
  PROVE  Cond \in Range(ListOf(n).codes)
<1> DEFINE node == Devices[n]
           codes == [i \in 1..Len(node) |-> node[i].code]
<1>1. Len(node) \in Nat
  BY DiscoverAssumption
<1>2. ListOf(n).nins = Len(node) % 256 /\ ListOf(n).codes = codes
  BY DEF ListOf, mls_el_node_get_instance_list
<1>3. Len(node) % 256 <= Len(node) /\ Len(node) % 256 \in Nat
  <2>1. \A k \in Nat : k % 256 <= k /\ k % 256 \in Nat
    OBVIOUS
  <2> QED
    BY <1>1, <2>1
<1>4. PICK i \in 1..ListOf(n).nins : ListOf(n).codes[i] = Cond
  BY DEF Finds
<1>5. i \in 1..Len(node) /\ codes[i] = Cond
  <2>1. ListOf(n).nins \in Nat /\ ListOf(n).nins <= Len(node)
    BY <1>2, <1>3
  <2>2. i \in 1..Len(node)
    BY <1>1, <2>1
  <2> QED
    BY <1>2, <1>4, <2>2
<1>6. i \in DOMAIN codes
  BY <1>5
<1> QED
  BY <1>2, <1>5, <1>6 DEF Range

\* What the network adds to the tool's queue is the datagram that was sent.
LEMMA ToToolAdds ==
  ASSUME NEW m, ToTool(m), NetOK, Honest(m)
  PROVE  NetOK'
<1>1. BagToSet(net') \subseteq BagToSet(net) \cup {m}
  BY DEF ToTool, BagToSet, (+)
<1> QED
  BY <1>1 DEF NetOK

\* What the nodes say of their instances is true.
LEMMA NodesAreHonest ==
  ASSUME NEW n \in Nodes
  PROVE  /\ Honest(Msg(n, Answer(n)))
         /\ \A f \in Unasked(n) : Honest(Msg(n, f))
<1>1. Honest(Msg(n, Answer(n)))
  <2>1. CASE n \in Refusers
    BY <2>1 DEF Honest, Msg, Answer, Bare, setup_frame
  <2>2. CASE n \notin Refusers
    BY <2>2 DEF Honest, Msg, Answer, Inf, Item, setup_frame
  <2> QED
    BY <2>1, <2>2
<1>2. \A f \in Unasked(n) : Honest(Msg(n, f))
  <2> SUFFICES ASSUME NEW tid \in {1, 2}, NEW seoj \in {Profile, Device}
               PROVE  Honest(Msg(n, Inf(tid, seoj, Item(OtherEpc, LooksLikeCond))))
    BY DEF Unasked
  <2> DEFINE m == Msg(n, Inf(tid, seoj, Item(OtherEpc, LooksLikeCond)))
  <2>1. m.frame.items[1] = Item(OtherEpc, LooksLikeCond)
    BY DEF Msg, Inf, setup_frame
  <2>2. m.frame.items[1].epc = OtherEpc /\ m.frame.items[1].pdc = 1
    BY <2>1 DEF Item
  <2>3. OtherEpc # InstanceList
    BY DEF OtherEpc, InstanceList
  <2> HIDE DEF m
  <2>4. Honest(m)
    BY <2>2, <2>3 DEF Honest
  <2> QED
    BY <2>4 DEF m
<1> QED
  BY <1>1, <1>2

\* The tool's own request has no data.
LEMMA RequestIsHonest == Honest(Msg(Tool, Request))
BY DEF Honest, Msg, Request, Bare, setup_frame

\* The nodes' steps leave the tool alone.
LEMMA NodesOK ==
  ASSUME DiscoverInv, NEW n \in Nodes,
         NodeAnswers(n) \/ NodeRestarts(n) \/ NodeAnnounces(n)
  PROVE  DiscoverInv'
<1>1. NetOK'
  <2>1. CASE NodeAnswers(n)
    BY <2>1, ToToolAdds, NodesAreHonest DEF NodeAnswers, DiscoverInv
  <2>2. CASE NodeRestarts(n)
    BY <2>2, ToToolAdds, NodesAreHonest DEF NodeRestarts, DiscoverInv
  <2>3. CASE NodeAnnounces(n)
    BY <2>3, ToToolAdds, NodesAreHonest DEF NodeAnnounces, DiscoverInv
  <2> QED
    BY <2>1, <2>2, <2>3
<1>2. UNCHANGED <<pc, resl, resli, retry, printed, status, named, errors>>
  BY DEF NodeAnswers, NodeRestarts, NodeAnnounces
<1>3. SlotsOK' /\ EntriesOK'
  BY <1>2 DEF DiscoverInv, SlotsOK, EntriesOK, Valid
<1>4. Found' = Found
  BY <1>2 DEF Found, Valid, Finds
<1>5. CountOK' /\ PrintedIsThere' /\ AnswersCount'
  BY <1>2, <1>4 DEF DiscoverInv, CountOK, PrintedIsThere, AnswersCount
<1> QED
  BY <1>1, <1>3, <1>5 DEF DiscoverInv
-----------------------------------------------------------------------------
\* A new round has no entries yet.
LEMMA SendOK == DiscoverInv /\ Send => DiscoverInv'
<1> SUFFICES ASSUME DiscoverInv, Send PROVE DiscoverInv'
  OBVIOUS
<1>1. NetOK'
  BY ToToolAdds, RequestIsHonest DEF Send, DiscoverInv
<1>2. /\ pc = "send" /\ pc' = "select" /\ resli' = 0
      /\ UNCHANGED <<resl, printed, status, named, errors>>
  BY DEF Send
<1>3. SlotsOK' /\ EntriesOK'
  BY <1>2, DiscoverAssumption DEF DiscoverInv, SlotsOK, EntriesOK, Valid
<1>4. Found' = {}
  BY <1>2 DEF Found
<1>5. CountOK' /\ PrintedIsThere' /\ AnswersCount'
  BY <1>2, <1>4 DEF DiscoverInv, CountOK, PrintedIsThere, AnswersCount
<1> QED
  BY <1>1, <1>3, <1>5 DEF DiscoverInv

\* mls_elnet_infreq returns an error: either a call failed, or there was no answer,
\* and so none that named the instance.
LEMMA ErrorOK ==
  ASSUME DiscoverInv, InfreqFails,
         \/ errors' = errors + 1
         \/ pc = "select" /\ resli = 0 /\ errors' = errors
  PROVE  DiscoverInv'
<1>1. /\ pc' = "returned" /\ status' = "error"
      /\ UNCHANGED <<net, resl, resli, printed, named>>
  BY DEF InfreqFails
<1>2. NetOK' /\ SlotsOK' /\ EntriesOK' /\ PrintedIsThere'
  BY <1>1 DEF DiscoverInv, NetOK, SlotsOK, EntriesOK, Valid, PrintedIsThere
<1>3. CountOK'
  BY <1>1 DEF DiscoverInv, CountOK
<1>4. AnswersCount'
  <2>1. CASE errors' = errors + 1
    BY <2>1 DEF DiscoverInv, CountOK, AnswersCount
  <2>2. CASE pc = "select" /\ resli = 0 /\ errors' = errors
    <3>1. Found = {}
      BY <2>2 DEF Found
    <3>2. named = {} /\ printed = {}
      BY <2>2, <3>1 DEF DiscoverInv, CountOK
    <3> QED
      BY <1>1, <3>2 DEF AnswersCount
  <2> QED
    BY <2>1, <2>2
<1> QED
  BY <1>2, <1>3, <1>4 DEF DiscoverInv

\* A datagram is received.
LEMMA TakeOK == ASSUME DiscoverInv, NEW m \in BagToSet(net), Take(m) PROVE DiscoverInv'
<1> DEFINE it == m.frame.items[1]
           answers == unmarshal_frame_response(Request, m.frame)
           names == it.epc = InstanceList /\ Finds(it.edt)
<1>1. /\ pc = "select" /\ resli \in Nat /\ resli < Reslnum /\ Reslnum \in Nat
      /\ DOMAIN resl = 1..Reslnum
  BY DiscoverAssumption DEF Take, DiscoverInv, SlotsOK
<1>2. Honest(m)
  BY DEF DiscoverInv, NetOK
<1>3. /\ resl' = [resl EXCEPT ![resli + 1] = Received(@, m)]
      /\ UNCHANGED <<printed, status, errors>>
      /\ answers => /\ resli' = resli + 1
                    /\ pc' \in {"select", "examine"}
                    /\ pc' = "select" => resli + 1 < Reslnum
                    /\ named' = IF names THEN named \cup {m.from} ELSE named
      /\ ~answers => UNCHANGED <<resli, pc, named>>
  BY DEF Take, Entry, MoreToCome
<1>4. NetOK'
  <2>1. BagToSet(net') \subseteq BagToSet(net)
    BY DEF Take, BagToSet, (-)
  <2> QED
    BY <2>1 DEF DiscoverInv, NetOK
<1>5. SlotsOK'
  BY <1>1, <1>3 DEF SlotsOK
<1>6. \A i \in 1..Reslnum : resl'[i] = IF i = resli + 1 THEN Received(resl[i], m) ELSE resl[i]
  BY <1>1, <1>3
<1>7. Valid(Received(resl[resli + 1], m)) <=> it.epc = InstanceList /\ it.pdc # 0
  BY DEF Valid, Received
<1>8. it.pdc # 0 => Received(resl[resli + 1], m).edt = it.edt
  BY DEF Received
<1>9. Received(resl[resli + 1], m).from = m.from
  BY DEF Received
<1>10. EntriesOK'
  <2> SUFFICES ASSUME NEW i \in 1..Reslnum, Valid(resl'[i])
               PROVE  resl'[i].from \in Nodes /\ resl'[i].edt = ListOf(resl'[i].from)
    BY DEF EntriesOK
  <2>1. CASE i = resli + 1
    BY <1>2, <1>6, <1>7, <1>8, <1>9, <2>1 DEF Honest
  <2>2. CASE i # resli + 1
    BY <1>6, <2>2 DEF DiscoverInv, EntriesOK
  <2> QED
    BY <2>1, <2>2
<1>11. named = {resl[i].from : i \in Found}
  BY <1>1 DEF DiscoverInv, CountOK
<1>12. \A i \in 1..resli : i \in 1..Reslnum /\ resl'[i] = resl[i]
  BY <1>1, <1>6
<1>13. pc' \in {"select", "examine"} /\ named' = {resl'[i].from : i \in Found'}
  <2>1. CASE ~answers
    <3>1. Found' = Found
      BY <1>3, <1>12, <2>1 DEF Found
    <3>2. \A i \in Found : resl'[i].from = resl[i].from
      BY <1>12 DEF Found
    <3> QED
      BY <1>1, <1>3, <1>11, <2>1, <3>1, <3>2
  <2>2. CASE answers
    <3>1. \A i : i \in 1..(resli + 1) <=> i \in 1..resli \/ i = resli + 1
      BY <1>1
    <3>2. names <=> it.epc = InstanceList /\ it.pdc # 0 /\ Finds(it.edt)
      <4>1. ~ Finds(NoList)
        BY DEF Finds, NoList
      <4> QED
        BY <1>2, <4>1 DEF Honest
    <3>3. resl'[resli + 1] = Received(resl[resli + 1], m)
      BY <1>1, <1>6
    <3>4. Valid(resl'[resli + 1]) /\ Finds(resl'[resli + 1].edt) <=> names
      BY <1>7, <1>8, <3>2, <3>3
    <3>5. Found' = IF names THEN Found \cup {resli + 1} ELSE Found
      <4>1. Found' = {i \in 1..(resli + 1) : Valid(resl'[i]) /\ Finds(resl'[i].edt)}
        BY <1>3, <2>2 DEF Found
      <4>2. \A i \in 1..resli : i # resli + 1 /\ i \in Found' <=> i \in Found
        BY <1>1, <1>12, <3>1, <4>1 DEF Found
      <4>3. resli + 1 \in Found' <=> names
        BY <3>1, <3>4, <4>1
      <4>4. Found \subseteq 1..resli /\ Found' \subseteq 1..resli \cup {resli + 1}
        BY <3>1, <4>1 DEF Found
      <4>5. resli + 1 \notin 1..resli
        BY <1>1
      <4> HIDE DEF names
      <4>6. CASE names
        BY <4>2, <4>3, <4>4, <4>5, <4>6
      <4>7. CASE ~names
        <5>1. \A i : i \in Found' <=> i \in Found
          BY <4>2, <4>3, <4>4, <4>5, <4>7
        <5>2. Found' = Found
          BY <5>1 DEF Found
        <5> QED
          BY <4>7, <5>2
      <4> QED
        BY <4>6, <4>7
    <3>6. \A i \in Found : resl'[i].from = resl[i].from
      BY <1>12 DEF Found
    <3>7. resl'[resli + 1].from = m.from
      BY <1>9, <3>3
    <3> HIDE DEF names, answers
    <3> QED
      BY <1>3, <1>11, <2>2, <3>5, <3>6, <3>7
  <2> QED
    BY <2>1, <2>2
<1>14. CountOK' /\ PrintedIsThere' /\ AnswersCount'
  BY <1>1, <1>3, <1>13 DEF DiscoverInv, CountOK, PrintedIsThere, AnswersCount
<1> QED
  BY <1>4, <1>5, <1>10, <1>14 DEF DiscoverInv

\* Three seconds without a datagram.
LEMMA SilenceOK == DiscoverInv /\ Silence => DiscoverInv'
<1> SUFFICES ASSUME DiscoverInv, Silence PROVE DiscoverInv'
  OBVIOUS
<1>1. resli \in Nat /\ pc = "select" /\ errors' = errors
  BY DEF DiscoverInv, SlotsOK, Silence
<1>2. CASE resli > 0
  <2>1. pc' = "examine" /\ UNCHANGED <<net, resl, resli, printed, status, named, errors>>
    BY <1>2 DEF Silence
  <2>2. NetOK' /\ SlotsOK' /\ EntriesOK' /\ PrintedIsThere'
    BY <2>1 DEF DiscoverInv, NetOK, SlotsOK, EntriesOK, Valid, PrintedIsThere
  <2>3. Found' = Found
    BY <2>1 DEF Found, Valid, Finds
  <2>4. CountOK' /\ AnswersCount'
    BY <1>1, <2>1, <2>3 DEF DiscoverInv, CountOK, AnswersCount
  <2> QED
    BY <2>2, <2>4 DEF DiscoverInv
<1>3. CASE ~ resli > 0
  <2>1. InfreqFails /\ resli = 0
    BY <1>1, <1>3 DEF Silence
  <2> QED
    BY <1>1, <2>1, ErrorOK
<1> QED
  BY <1>2, <1>3

\* The answers are looked at.
LEMMA ExamineOK == DiscoverInv /\ Examine => DiscoverInv'
<1> SUFFICES ASSUME DiscoverInv, Examine PROVE DiscoverInv'
  OBVIOUS
<1>1. /\ pc = "examine" /\ printed' = {resl[i].from : i \in Found}
      /\ UNCHANGED <<net, resl, resli, named, errors>>
      /\ IF Found # {}
         THEN pc' = "returned" /\ status' = "found"
         ELSE \/ pc' = "send" /\ status' = status
              \/ pc' = "returned" /\ status' = "not_found"
  BY DEF Examine
<1>2. NetOK' /\ SlotsOK' /\ EntriesOK'
  BY <1>1 DEF DiscoverInv, NetOK, SlotsOK, EntriesOK, Valid
<1>3. printed' = named /\ (named = {} <=> Found = {}) /\ status = "running"
  BY <1>1 DEF DiscoverInv, CountOK
<1>4. PrintedIsThere'
  <2> SUFFICES ASSUME NEW i \in Found
               PROVE  resl[i].from \in Nodes /\ Cond \in Range(ListOf(resl[i].from).codes)
    BY <1>1 DEF PrintedIsThere
  <2>1. Valid(resl[i]) /\ Finds(resl[i].edt) /\ i \in 1..Reslnum
    BY DiscoverAssumption DEF Found, DiscoverInv, SlotsOK
  <2>2. resl[i].from \in Nodes /\ resl[i].edt = ListOf(resl[i].from)
    BY <2>1 DEF DiscoverInv, EntriesOK
  <2> QED
    BY <2>1, <2>2, ListsAreTrue
<1>5. CountOK' /\ AnswersCount'
  BY <1>1, <1>3 DEF DiscoverInv, CountOK, AnswersCount
<1> QED
  BY <1>2, <1>4, <1>5 DEF DiscoverInv

\* A call fails.
LEMMA FailsOK == DiscoverInv /\ Fails => DiscoverInv'
BY ErrorOK DEF Fails
-----------------------------------------------------------------------------
\* Nothing was said and no entry used.
LEMMA InitOK == DiscoverInit => DiscoverInv
<1> SUFFICES ASSUME DiscoverInit PROVE DiscoverInv
  OBVIOUS
<1>1. NetOK
  BY DEF DiscoverInit, NetOK, EmptyBag, SetToBag, BagToSet
<1>2. SlotsOK
  BY DiscoverAssumption DEF DiscoverInit, SlotsOK
<1>3. EntriesOK
  BY DEF DiscoverInit, EntriesOK, Valid
<1>4. CountOK /\ PrintedIsThere /\ AnswersCount
  BY DEF DiscoverInit, CountOK, PrintedIsThere, AnswersCount
<1> QED
  BY <1>1, <1>2, <1>3, <1>4 DEF DiscoverInv

\* Every step keeps the invariant.
LEMMA DiscoverNextOK == DiscoverInv /\ [DiscoverNext]_vars => DiscoverInv'
<1> SUFFICES ASSUME DiscoverInv, [DiscoverNext]_vars PROVE DiscoverInv'
  OBVIOUS
<1>1. CASE \E n \in Nodes : NodeAnswers(n) \/ NodeRestarts(n) \/ NodeAnnounces(n)
  BY <1>1, NodesOK
<1>2. CASE ToolStep
  BY <1>2, SendOK, TakeOK, SilenceOK, ExamineOK DEF ToolStep
<1>3. CASE Fails
  BY <1>3, FailsOK
<1>4. CASE UNCHANGED vars
  BY <1>4 DEF vars, DiscoverInv, NetOK, SlotsOK, EntriesOK, CountOK, Found, Valid, Finds,
              PrintedIsThere, AnswersCount
<1> QED
  BY <1>1, <1>2, <1>3, <1>4 DEF DiscoverNext

\* PrintedIsThere, for any number of nodes and entries: what el-discover prints is a
\* host that has the instance, whatever other datagrams and rounds left in the
\* entries.
THEOREM PrintedCorrect == DiscoverSpec => []PrintedIsThere
<1>1. DiscoverInv => PrintedIsThere
  BY DEF DiscoverInv
<1> QED
  BY InitOK, DiscoverNextOK, <1>1, PTL DEF DiscoverSpec

\* AnswersCount, for any number of nodes and entries: unless a call fails, el-discover
\* prints every host whose answer it took and that has the instance.
THEOREM CountCorrect == DiscoverSpec => []AnswersCount
<1>1. DiscoverInv => AnswersCount
  BY DEF DiscoverInv
<1> QED
  BY InitOK, DiscoverNextOK, <1>1, PTL DEF DiscoverSpec

\* mls_elnet_infreq receives only into entries the caller gave it.
THEOREM EntriesCorrect == DiscoverSpec => [](pc = "select" => resli \in 0..(Reslnum - 1))
<1>1. DiscoverInv => (pc = "select" => resli \in 0..(Reslnum - 1))
  BY DiscoverAssumption DEF DiscoverInv, SlotsOK
<1> QED
  BY InitOK, DiscoverNextOK, <1>1, PTL DEF DiscoverSpec
-----------------------------------------------------------------------------
\* The list of a node is one.
LEMMA ListIsOne == ASSUME NEW n \in Nodes PROVE ListOf(n) \in List
<1> DEFINE node == Devices[n]
           codes == [i \in 1..Len(node) |-> node[i].code]
           all == {Cond} \cup UNION {Range(ListOf(k).codes) : k \in Nodes}
<1>1. Len(node) \in Nat
  BY DiscoverAssumption
<1>2. ListOf(n) = [nins |-> Len(node) % 256, codes |-> codes]
  BY DEF ListOf, mls_el_node_get_instance_list
<1>3. Len(node) % 256 \in Nat
  <2>1. \A k \in Nat : k % 256 \in Nat
    OBVIOUS
  <2> QED
    BY <1>1, <2>1
<1>4. \A i \in 1..Len(node) : codes[i] \in all
  <2> SUFFICES ASSUME NEW i \in 1..Len(node) PROVE codes[i] \in Range(ListOf(n).codes)
    OBVIOUS
  <2>1. i \in DOMAIN codes /\ ListOf(n).codes = codes
    BY <1>2
  <2> HIDE DEF codes
  <2> QED
    BY <2>1 DEF Range
<1>5. codes \in Seq(all)
  <2>1. codes \in [1..Len(node) -> all]
    BY <1>4
  <2> HIDE DEF codes, all, node
  <2> QED
    BY <1>1, <2>1
<1> HIDE DEF codes, all, node
<1> QED
  BY <1>2, <1>3, <1>5 DEF List, all

\* So are the empty one and the bytes that read like one.
LEMMA OthersAreLists == NoList \in List /\ LooksLikeCond \in List
<1> DEFINE all == {Cond} \cup UNION {Range(ListOf(k).codes) : k \in Nodes}
<1>1. Cond \in all /\ List = [nins: Nat, codes: Seq(all)]
  BY DEF List
<1> HIDE DEF all
<1>2. <<>> \in Seq(all) /\ <<Cond>> \in Seq(all)
  BY <1>1
<1> QED
  BY <1>1, <1>2 DEF NoList, LooksLikeCond

\* What an entry takes of a datagram is typed.
Typed(m) ==
  LET it == m.frame.items[1]
  IN  /\ m.from \in Hosts
      /\ it.epc \in {InstanceList, OtherEpc} /\ it.pdc \in {0, 1} /\ it.edt \in List

\* Whatever is sent to the tool is.
LEMMA DatagramsAreTyped == ASSUME NEW m \in Datagrams PROVE Typed(m)
<1>1. CASE m = Msg(Tool, Request)
  <2>1. m.from = Tool /\ m.frame.items[1] = Bare(InstanceList)
    BY <1>1 DEF Msg, Request, setup_frame
  <2> QED
    BY <2>1, OthersAreLists DEF Typed, Bare, Hosts
<1>2. CASE \E n \in Nodes : m = Msg(n, Answer(n))
  <2>1. PICK n \in Nodes : m = Msg(n, Answer(n))
    BY <1>2
  <2>2. m.from = n /\ m.from \in Hosts
    BY <2>1 DEF Msg, Hosts
  <2>3. CASE n \in Refusers
    <3>1. m.frame.items[1] = Bare(InstanceList)
      BY <2>1, <2>3 DEF Msg, Answer, setup_frame
    <3> QED
      BY <2>2, <3>1, OthersAreLists DEF Typed, Bare
  <2>4. CASE n \notin Refusers
    <3>1. m.frame.items[1] = Item(InstanceList, ListOf(n))
      BY <2>1, <2>4 DEF Msg, Answer, Inf, setup_frame
    <3> QED
      BY <2>2, <3>1, ListIsOne DEF Typed, Item
  <2> QED
    BY <2>3, <2>4
<1>3. CASE \E n \in Nodes : \E f \in Unasked(n) : m = Msg(n, f)
  <2>1. PICK n \in Nodes, tid \in {1, 2}, seoj \in {Profile, Device} :
               m = Msg(n, Inf(tid, seoj, Item(OtherEpc, LooksLikeCond)))
    BY <1>3 DEF Unasked
  <2>2. m.from \in Hosts /\ m.frame.items[1] = Item(OtherEpc, LooksLikeCond)
    BY <2>1 DEF Msg, Hosts, Inf, setup_frame
  <2> QED
    BY <2>2, OthersAreLists DEF Typed, Item
<1> QED
  BY <1>1, <1>2, <1>3 DEF Datagrams

\* The network delivers nothing but copies of what was sent, each a number of times.
NetTyped == IsABag(net) /\ BagToSet(net) \subseteq Datagrams

LEMMA ToToolTyped ==
  ASSUME NetTyped, NEW m \in Datagrams, ToTool(m)
  PROVE  NetTyped'
<1>1. PICK k \in 0..MaxCopies : net' = IF k = 0 THEN net ELSE net (+) [copy \in {m} |-> k]
  BY DEF ToTool
<1>2. CASE k = 0
  BY <1>1, <1>2 DEF NetTyped, IsABag, BagToSet
<1>3. CASE k # 0
  <2>1. k \in Nat /\ k > 0
    BY <1>3, DiscoverAssumption
  <2>2. net' = [e \in DOMAIN net \cup {m} |->
                  (IF e \in DOMAIN net THEN net[e] ELSE 0) + (IF e \in {m} THEN k ELSE 0)]
    BY <1>1, <1>3 DEF (+)
  <2>3. \A e \in DOMAIN net : net[e] \in Nat /\ net[e] > 0
    BY DEF NetTyped, IsABag
  <2>4. DOMAIN net' = DOMAIN net \cup {m}
    BY <2>2
  <2>5. \A e \in DOMAIN net' : net'[e] \in {i \in Nat : i > 0}
    BY <2>1, <2>2, <2>3
  <2>6. net' \in [DOMAIN net' -> {i \in Nat : i > 0}]
    BY <2>2, <2>4, <2>5
  <2> QED
    BY <2>4, <2>6 DEF NetTyped, IsABag, BagToSet
<1> QED
  BY <1>2, <1>3

\* What is left of it when a copy is received.
LEMMA ReceivedTyped ==
  ASSUME NetTyped, NEW m \in BagToSet(net), net' = net (-) SetToBag({m})
  PROVE  NetTyped'
<1>1. \A e \in DOMAIN net : net[e] \in Nat /\ net[e] > 0
  BY DEF NetTyped, IsABag
<1> DEFINE left == [e \in DOMAIN net |-> IF e \in {m} THEN net[e] - 1 ELSE net[e]]
<1>2. net' = [e \in {d \in DOMAIN left : left[d] > 0} |-> left[e]]
  BY DEF (-), SetToBag
<1>3. DOMAIN left = DOMAIN net /\ \A e \in DOMAIN net : left[e] \in Int
  BY <1>1
<1>4. DOMAIN net' \subseteq DOMAIN net
  BY <1>2, <1>3
<1>5. \A e \in DOMAIN net' : net'[e] \in {i \in Nat : i > 0}
  <2> HIDE DEF left
  <2> QED
    BY <1>2, <1>3
<1>6. net' \in [DOMAIN net' -> {i \in Nat : i > 0}]
  BY <1>2, <1>5
<1> QED
  BY <1>4, <1>6 DEF NetTyped, IsABag, BagToSet
-----------------------------------------------------------------------------
\* Every step keeps the types.  SlotsOK says that a datagram has an entry to go to.
ToolTyped ==
  /\ resl \in [1..Reslnum -> Entries]
  /\ retry \in 0..RetryMax
  /\ printed \subseteq Hosts /\ named \subseteq Hosts
  /\ status \in {"running", "found", "not_found", "error"}
  /\ status = "running" <=> pc # "returned"
  /\ errors \in 0..MaxErrors

\* Together with SlotsOK the parts are DiscoverTypeOK.
LEMMA TypesAreParts ==
  SlotsOK => (DiscoverTypeOK <=> /\ asked \in [Nodes -> Nat] /\ chatter \in 0..MaxChatter
                                 /\ NetTyped /\ ToolTyped)
BY DEF SlotsOK, DiscoverTypeOK, NetTyped, ToolTyped

\* The nodes' steps.
LEMMA NodesTyped ==
  ASSUME SlotsOK, SlotsOK', DiscoverTypeOK, NEW n \in Nodes,
         NodeAnswers(n) \/ NodeRestarts(n) \/ NodeAnnounces(n)
  PROVE  DiscoverTypeOK'
<1>1. /\ asked \in [Nodes -> Nat] /\ chatter \in 0..MaxChatter /\ NetTyped /\ ToolTyped
      /\ MaxChatter \in Nat
  BY TypesAreParts, DiscoverAssumption
<1>2. Msg(n, Answer(n)) \in Datagrams /\ \A f \in Unasked(n) : Msg(n, f) \in Datagrams
  BY DEF Datagrams
<1>3. NetTyped'
  <2>1. CASE NodeAnswers(n)
    BY <1>1, <1>2, <2>1, ToToolTyped DEF NodeAnswers
  <2>2. CASE NodeRestarts(n)
    BY <1>1, <1>2, <2>2, ToToolTyped DEF NodeRestarts
  <2>3. CASE NodeAnnounces(n)
    BY <1>1, <1>2, <2>3, ToToolTyped DEF NodeAnnounces
  <2> QED
    BY <2>1, <2>2, <2>3
<1>4. UNCHANGED <<pc, resl, resli, retry, printed, status, named, errors>>
  BY DEF NodeAnswers, NodeRestarts, NodeAnnounces
<1>5. ToolTyped'
  BY <1>1, <1>4 DEF ToolTyped
<1>6. asked' \in [Nodes -> Nat]
  <2>1. CASE NodeAnswers(n)
    BY <1>1, <2>1 DEF NodeAnswers
  <2>2. CASE NodeRestarts(n)
    BY <1>1, <2>2 DEF NodeRestarts
  <2>3. CASE NodeAnnounces(n)
    BY <1>1, <2>3 DEF NodeAnnounces
  <2> QED
    BY <2>1, <2>2, <2>3
<1>7. chatter' \in 0..MaxChatter
  BY <1>1 DEF NodeAnswers, NodeRestarts, NodeAnnounces
<1> QED
  BY <1>3, <1>5, <1>6, <1>7, SlotsOK' DEF SlotsOK, DiscoverTypeOK, NetTyped, ToolTyped

\* The tool's steps.
LEMMA ToolStepsTyped ==
  ASSUME SlotsOK, SlotsOK', DiscoverTypeOK, ToolStep \/ Fails
  PROVE  DiscoverTypeOK'
<1>1. /\ asked \in [Nodes -> Nat] /\ chatter \in 0..MaxChatter /\ NetTyped /\ ToolTyped
      /\ MaxErrors \in Nat /\ MaxCopies \in Nat
      /\ resli \in Nat /\ (pc = "select" => resli + 1 \in 1..Reslnum)
  BY TypesAreParts, DiscoverAssumption DEF SlotsOK
<1>2. chatter' = chatter
  BY DEF ToolStep, Send, Take, Silence, Examine, Fails, InfreqFails
<1>3. CASE Send
  <2>1. Msg(Tool, Request) \in Datagrams
    BY DEF Datagrams
  <2>2. NetTyped'
    BY <1>1, <1>3, <2>1, ToToolTyped DEF Send
  <2>3. asked' \in [Nodes -> Nat]
    <3>1. PICK k \in [Nodes -> 0..MaxCopies] : asked' = [h \in Nodes |-> asked[h] + k[h]]
      BY <1>3 DEF Send
    <3>2. \A h \in Nodes : asked[h] \in Nat /\ k[h] \in Nat
      BY <1>1
    <3> QED
      BY <3>1, <3>2
  <2>4. ToolTyped'
    BY <1>1, <1>3 DEF Send, ToolTyped
  <2> QED
    BY <1>1, <1>2, <2>2, <2>3, <2>4 DEF SlotsOK, DiscoverTypeOK, NetTyped, ToolTyped
<1>4. ASSUME NEW m \in BagToSet(net), Take(m) PROVE DiscoverTypeOK'
  <2>1. NetTyped'
    BY <1>1, <1>4, ReceivedTyped DEF Take
  <2>2. Typed(m)
    BY <1>1, DatagramsAreTyped DEF NetTyped
  <2>3. /\ pc = "select" /\ pc' \in {"select", "examine"} /\ resli + 1 \in 1..Reslnum
        /\ resl' = [resl EXCEPT ![resli + 1] = Received(@, m)]
        /\ named' = named \/ named' = named \cup {m.from}
        /\ UNCHANGED <<asked, retry, printed, status, errors>>
    BY <1>1, <1>4 DEF Take, Entry
  <2>4. Received(resl[resli + 1], m) \in Entries
    <3>1. resl[resli + 1] \in Entries
      BY <1>1, <2>3 DEF ToolTyped
    <3>2. resl[resli + 1].edt \in List
      BY <3>1 DEF Entries
    <3> QED
      BY <2>2, <3>2 DEF Typed, Received, Entries
  <2>5. resl' \in [1..Reslnum -> Entries]
    BY <1>1, <2>3, <2>4 DEF ToolTyped
  <2>6. ToolTyped'
    BY <1>1, <2>2, <2>3, <2>5 DEF ToolTyped, Typed
  <2> QED
    BY <1>1, <1>2, <2>1, <2>3, <2>6 DEF SlotsOK, DiscoverTypeOK, NetTyped, ToolTyped
<1>5. CASE Examine
  <2>1. UNCHANGED <<asked, net, resl, named, errors>>
    BY <1>5 DEF Examine
  <2>2. printed' \subseteq Hosts
    <3>1. printed' = {resl[i].from : i \in Found}
      BY <1>5 DEF Examine
    <3>2. \A i \in Found : resl[i] \in Entries
      BY <1>1, DiscoverAssumption DEF Found, ToolTyped, SlotsOK
    <3> QED
      BY <3>1, <3>2 DEF Entries
  <2>3. retry' \in 0..RetryMax
    BY <1>1, <1>5 DEF Examine, ToolTyped, RetryMax
  <2>4. /\ status' \in {"running", "found", "not_found", "error"}
        /\ status' = "running" <=> pc' # "returned"
    BY <1>1, <1>5 DEF Examine, ToolTyped
  <2>5. ToolTyped'
    BY <1>1, <2>1, <2>2, <2>3, <2>4 DEF ToolTyped
  <2>6. NetTyped'
    BY <1>1, <2>1 DEF NetTyped
  <2> QED
    BY <1>1, <1>2, <2>1, <2>5, <2>6 DEF SlotsOK, DiscoverTypeOK, NetTyped, ToolTyped
<1>6. CASE Silence \/ Fails
  <2>1. UNCHANGED <<asked, net, resl, retry, printed, named>>
    BY <1>6 DEF Silence, Fails, InfreqFails
  <2>2. errors' \in 0..MaxErrors
    BY <1>1, <1>6 DEF Silence, Fails, ToolTyped
  <2>3. /\ status' \in {"running", "found", "not_found", "error"}
        /\ status' = "running" <=> pc' # "returned"
    BY <1>1, <1>6 DEF Silence, Fails, InfreqFails, ToolTyped
  <2>4. ToolTyped'
    BY <1>1, <2>1, <2>2, <2>3 DEF ToolTyped
  <2>5. NetTyped'
    BY <1>1, <2>1 DEF NetTyped
  <2> QED
    BY <1>1, <1>2, <2>1, <2>4, <2>5 DEF SlotsOK, DiscoverTypeOK, NetTyped, ToolTyped
<1> QED
  BY <1>3, <1>4, <1>5, <1>6 DEF ToolStep

\* DiscoverTypeOK, for any number of nodes and entries: above all, what an entry
\* holds is a whole answer of somebody in the group, also where an answer without
\* data left an older one's bytes, and there is an entry for what comes next.
THEOREM DiscoverTypeCorrect == DiscoverSpec => []DiscoverTypeOK
<1>1. DiscoverInv => SlotsOK
  BY DEF DiscoverInv
<1>2. DiscoverInit => DiscoverTypeOK
  <2> SUFFICES ASSUME DiscoverInit PROVE DiscoverTypeOK
    OBVIOUS
  <2>1. SlotsOK
    BY InitOK DEF DiscoverInv
  <2>2. NetTyped
    BY DEF DiscoverInit, NetTyped, IsABag, EmptyBag, SetToBag, BagToSet
  <2>3. ToolTyped
    <3>1. [from |-> Tool, epc |-> OtherEpc, pdc |-> 0, edt |-> NoList] \in Entries
      BY OthersAreLists DEF Entries, Hosts
    <3> QED
      BY <3>1, DiscoverAssumption DEF DiscoverInit, ToolTyped, RetryMax
  <2>4. asked \in [Nodes -> Nat] /\ chatter \in 0..MaxChatter
    BY DiscoverAssumption DEF DiscoverInit
  <2> QED
    BY <2>1, <2>2, <2>3, <2>4, TypesAreParts
<1>3. /\ SlotsOK /\ SlotsOK' /\ DiscoverTypeOK /\ [DiscoverNext]_vars
      => DiscoverTypeOK'
  <2> SUFFICES ASSUME SlotsOK, SlotsOK', DiscoverTypeOK, [DiscoverNext]_vars
               PROVE  DiscoverTypeOK'
    OBVIOUS
  <2>1. CASE UNCHANGED vars
    BY <2>1 DEF vars, DiscoverTypeOK
  <2> QED
    BY <2>1, NodesTyped, ToolStepsTyped DEF DiscoverNext
<1> QED
  BY InitOK, DiscoverNextOK, <1>1, <1>2, <1>3, PTL DEF DiscoverSpec
-----------------------------------------------------------------------------
(* What a node says of itself, for any properties and devices. *)

\* The map of the properties found, as the getter of a device sends it.
MapOf(found) == Property_map(PutMap(found, Len(found), Blank(Len(found)), 1), Len(found))

\* A byte and a bit of it name the code they were made from.
LEMMA BitsNameCodes ==
  \A epc \in 128..255 :
    LET p == _set_prop_map(epc)
    IN  p.byte \in 0..15 /\ p.bit \in 0..7 /\ 16 * (p.bit + 8) + p.byte = epc
<1>1. \A epc \in 128..255 :
        /\ epc % 16 \in 0..15 /\ (epc \div 16) - 8 \in 0..7
        /\ 16 * (((epc \div 16) - 8) + 8) + (epc % 16) = epc
  OBVIOUS
<1> QED
  BY <1>1 DEF _set_prop_map

\* Two facts in the form the steps below use them.
LEMMA LenInNat == ASSUME NEW S, NEW q \in Seq(S) PROVE Len(q) \in Nat
OBVIOUS

LEMMA SmallNumbersFit == ASSUME NEW k \in Nat, k <= 255 PROVE k % 256 = k
OBVIOUS

\* Fewer properties than the border are listed after their number.
LEMMA ListedAreRead ==
  ASSUME NEW S, \A p \in S : p.epc \in 128..255,
         NEW found \in Seq(S), Len(found) < Border
  PROVE  Decode(MapOf(found)) = {p.epc : p \in Range(found)}
<1> DEFINE num == Len(found)
           map == MapOf(found)
<1>1. num \in 0..15 /\ num % 256 = num
  <2>1. num \in Nat /\ num < Border
    BY Zenon, LenInNat
  <2> HIDE DEF num
  <2>2. num \in 0..15 /\ num <= 255
    BY <2>1 DEF Border
  <2>3. num % 256 = num
    BY <2>1, <2>2, SmallNumbersFit, Zenon
  <2> QED
    BY <2>2, <2>3, Zenon
<1>2. MapSize(num) = 1 + num
  BY DEF MapSize
<1>3. map = [i \in 0..num |-> PutMap(found, num, Blank(num), 1)[i]]
  BY <1>1, <1>2 DEF MapOf, Property_map
<1>4. \A i \in 0..num : map[i] = IF i \in 1..num THEN found[i].epc ELSE Blank(num)[i]
  <2> SUFFICES ASSUME NEW i \in 0..num
               PROVE  map[i] = IF i \in 1..num THEN found[i].epc ELSE Blank(num)[i]
    OBVIOUS
  <2>1. i \in 0..(UCharMax - 1) /\ DOMAIN Blank(num) = 0..(UCharMax - 1)
    <3> HIDE DEF num
    <3> QED
      BY <1>1 DEF UCharMax, Blank
  <2>2. 1..(1 + num - 1) = 1..num /\ i - 1 + 1 = i
    BY <1>1
  <2>3. PutMap(found, num, Blank(num), 1)[i] =
          IF i \in 1..num THEN found[i].epc ELSE Blank(num)[i]
    BY <2>1, <2>2 DEF PutMap
  <2> QED
    BY <1>3, <2>3
<1>5. Blank(num)[0] = num % 256
  BY DEF Blank, UCharMax
<1>6. map[0] = num /\ \A i \in 1..num : map[i] = found[i].epc
  <2> HIDE DEF map, num
  <2>1. 0 \in 0..num /\ 0 \notin 1..num /\ \A i \in 1..num : i \in 0..num
    BY <1>1
  <2> QED
    BY <1>1, <1>4, <1>5, <2>1, Zenon
<1>7. Decode(map) = {map[i] : i \in 1..num}
  BY <1>6 DEF Decode
<1>8. Range(found) = {found[i] : i \in 1..num}
  BY DEF Range
<1> HIDE DEF map, num
<1> QED
  BY <1>6, <1>7, <1>8 DEF map

\* More are a bit each.
LEMMA BitsAreRead ==
  ASSUME NEW S, \A p \in S : p.epc \in 128..255,
         NEW found \in Seq(S), Len(found) >= Border, Len(found) <= UCharMax
  PROVE  Decode(MapOf(found)) = {p.epc : p \in Range(found)}
<1> DEFINE num == Len(found)
           map == MapOf(found)
           codes == {p.epc : p \in Range(found)}
           Bits(i) == {_set_prop_map(p.epc).bit :
                         p \in {q \in Range(found) : _set_prop_map(q.epc).byte = i}}
<1>1. num \in 16..255 /\ num % 256 = num
  <2>1. num \in Nat /\ num >= Border /\ num <= UCharMax
    BY Zenon, LenInNat
  <2> HIDE DEF num
  <2>2. num \in 16..255 /\ num <= 255
    BY <2>1 DEF Border, UCharMax
  <2>3. num % 256 = num
    BY <2>1, <2>2, SmallNumbersFit, Zenon
  <2> QED
    BY <2>2, <2>3, Zenon
<1>2. MapSize(num) = 17
  BY <1>1 DEF MapSize, Border
<1>3. map = [i \in 0..16 |-> PutMap(found, num, Blank(num), 1)[i]]
  BY <1>2 DEF MapOf, Property_map
<1>4. \A i \in 0..16 :
        map[i] = IF i \in 1..16 THEN Bits(i - 1) ELSE Blank(num)[i]
  <2> SUFFICES ASSUME NEW i \in 0..16
               PROVE  map[i] = IF i \in 1..16 THEN Bits(i - 1) ELSE Blank(num)[i]
    OBVIOUS
  <2>1. i \in DOMAIN Blank(num)
    BY DEF UCharMax, Blank
  <2>2. ~ num < Border /\ 1 + Border - 1 = 16
    BY <1>1 DEF Border
  <2>3. PutMap(found, num, Blank(num), 1)[i] =
          IF i \in 1..16 THEN Bits(i - 1) ELSE Blank(num)[i]
    BY <2>1, <2>2, Zenon DEF PutMap
  <2> QED
    BY <1>3, <2>3
<1>5. Blank(num)[0] = num % 256
  BY DEF Blank, UCharMax
<1>6. map[0] = num /\ \A i \in 1..16 : map[i] = Bits(i - 1)
  <2>1. 0 \in 0..16 /\ 0 \notin 1..16 /\ \A i \in 1..16 : i \in 0..16
    OBVIOUS
  <2> HIDE DEF map, num, Bits
  <2>2. map[0] = Blank(num)[0]
    <3>1. 0 \in 0..16 => map[0] = IF 0 \in 1..16 THEN Bits(0 - 1) ELSE Blank(num)[0]
      BY <1>4, Zenon
    <3> QED
      BY <2>1, <3>1, Zenon
  <2>3. map[0] = num
    BY <1>1, <1>5, <2>2, Zenon
  <2>4. \A i \in 1..16 : map[i] = Bits(i - 1)
    BY <1>4, <2>1, Zenon
  <2> QED
    BY <2>3, <2>4, Zenon
<1>7. Decode(map) = UNION {{16 * (bit + 8) + (i - 1) : bit \in map[i]} : i \in 1..16}
  <2>1. ~ map[0] < Border
    <3> HIDE DEF map, num
    <3> QED
      BY <1>1, <1>6 DEF Border
  <2> HIDE DEF map
  <2> QED
    BY <2>1, Zenon DEF Decode, Border
<1>8. \A p \in Range(found) : p \in S
  BY DEF Range
<1>9. \A i \in 1..16 : {16 * (bit + 8) + (i - 1) : bit \in map[i]} =
                         {p.epc : p \in {q \in Range(found) : _set_prop_map(q.epc).byte = i - 1}}
  <2> SUFFICES ASSUME NEW i \in 1..16
               PROVE  {16 * (bit + 8) + (i - 1) : bit \in map[i]} =
                        {p.epc : p \in {q \in Range(found) : _set_prop_map(q.epc).byte = i - 1}}
    OBVIOUS
  <2> DEFINE here == {q \in Range(found) : _set_prop_map(q.epc).byte = i - 1}
  <2>1. map[i] = {_set_prop_map(p.epc).bit : p \in here}
    BY <1>6
  <2>2. \A p \in here : 16 * (_set_prop_map(p.epc).bit + 8) + (i - 1) = p.epc
    BY <1>8, BitsNameCodes
  <2> HIDE DEF map, here
  <2>3. {16 * (bit + 8) + (i - 1) : bit \in map[i]} =
          {16 * (_set_prop_map(p.epc).bit + 8) + (i - 1) : p \in here}
    BY <2>1
  <2>4. {16 * (_set_prop_map(p.epc).bit + 8) + (i - 1) : p \in here} = {p.epc : p \in here}
    BY <2>2
  <2> QED
    BY <2>3, <2>4 DEF here
<1>10. \A p \in Range(found) : \E i \in 1..16 : _set_prop_map(p.epc).byte = i - 1
  <2> SUFFICES ASSUME NEW p \in Range(found)
               PROVE  \E i \in 1..16 : _set_prop_map(p.epc).byte = i - 1
    OBVIOUS
  <2>1. PICK byte \in 0..15 : _set_prop_map(p.epc).byte = byte
    BY <1>8, BitsNameCodes
  <2>2. byte + 1 \in 1..16 /\ byte + 1 - 1 = byte
    OBVIOUS
  <2> WITNESS byte + 1 \in 1..16
  <2> QED
    BY <2>1, <2>2
<1> DEFINE Read(i) == {16 * (bit + 8) + (i - 1) : bit \in map[i]}
           Here(i) == {p.epc : p \in {q \in Range(found) : _set_prop_map(q.epc).byte = i - 1}}
<1>11. \A i \in 1..16 : Read(i) = Here(i)
  BY <1>9, Zenon
<1>12. Decode(map) = UNION {Read(i) : i \in 1..16}
  BY <1>7, Zenon
<1>13. Decode(map) = UNION {Here(i) : i \in 1..16}
  <2> HIDE DEF map, Read, Here
  <2> QED
    BY <1>11, <1>12
<1>14. UNION {Here(i) : i \in 1..16} = {p.epc : p \in Range(found)}
  BY <1>10
<1> QED
  BY <1>13, <1>14, Zenon

\* The map a device sends of the properties it found, be they none or 255, on both
\* sides of the border between list and bits: its reader learns these and no other.
THEOREM MapsAreRead ==
  ASSUME NEW S, \A p \in S : p.epc \in 128..255,
         NEW found \in Seq(S), Len(found) <= UCharMax
  PROVE  /\ Decode(MapOf(found)) = {p.epc : p \in Range(found)}
         /\ DOMAIN MapOf(found) \subseteq 0..16
<1>1. Decode(MapOf(found)) = {p.epc : p \in Range(found)}
  <2>1. Len(found) < Border \/ Len(found) >= Border
    BY DEF Border
  <2> QED
    BY <2>1, ListedAreRead, BitsAreRead
<1>2. DOMAIN MapOf(found) = 0..(MapSize(Len(found)) - 1)
  BY DEF MapOf, Property_map
<1>3. MapSize(Len(found)) <= 17 /\ MapSize(Len(found)) \in Nat
  BY DEF MapSize, Border
<1>4. DOMAIN MapOf(found) \subseteq 0..16
  <2>1. PICK size \in Nat : MapSize(Len(found)) = size /\ size <= 17
    BY <1>3, Zenon
  <2>2. 0..(size - 1) \subseteq 0..16
    BY <2>1
  <2> QED
    BY <1>2, <2>1, <2>2, Zenon
<1> QED
  BY <1>1, <1>4, Zenon

\* The lists of any node, up to the devices there is room for, name its devices and
\* their classes.
THEOREM ListsAreRead == ASSUME NEW S, NEW node \in Seq(S) PROVE ListsAreRight(node)
<1> SUFFICES ASSUME Len(node) <= MaxDevices PROVE ListsAreRight(node)
  BY DEF ListsAreRight
<1> DEFINE num == Len(node)
           codes == [i \in 1..num |-> node[i].code]
           classes == [i \in 1..num |-> node[i].code.class]
<1>1. num \in 0..84
  <2>1. MaxDevices = 84
    BY SMTT(30) DEF MaxDevices, UCharMax
  <2>2. num \in Nat /\ num <= MaxDevices
    BY Zenon, LenInNat
  <2> HIDE DEF num
  <2> QED
    BY <2>1, <2>2
<1>2. num % 256 = num /\ InstanceListSize(node) <= UCharMax
  <2>1. num \in Nat /\ num <= 255 /\ 1 + 3 * num <= 255
    <3> HIDE DEF num
    <3> QED
      BY <1>1
  <2>2. num % 256 = num
    BY <2>1, SmallNumbersFit, Zenon
  <2> QED
    BY <2>1, <2>2, Zenon DEF InstanceListSize, UCharMax
<1>3. mls_el_node_get_instance_list(node) = [nins |-> num, codes |-> codes]
  BY <1>2 DEF mls_el_node_get_instance_list
<1>4. mls_el_node_get_class_list(node) = [nins |-> num, codes |-> classes]
  BY <1>2 DEF mls_el_node_get_class_list
<1>5. Len(codes) = num /\ Len(classes) = num
  BY <1>1
<1>6. DOMAIN node = 1..num /\ DOMAIN codes = 1..num /\ DOMAIN classes = 1..num
  OBVIOUS
<1>7. /\ Range(codes) = {eoj.code : eoj \in Range(node)}
      /\ Range(classes) = {eoj.code.class : eoj \in Range(node)}
  BY <1>6 DEF Range
<1> HIDE DEF codes, classes, num
<1> QED
  BY <1>2, <1>3, <1>4, <1>5, <1>7 DEF ListsAreRight
-----------------------------------------------------------------------------
\* The properties found are those of the object with the access, no more than
\* it has.
LEMMA SelectedType ==
  ASSUME NEW S, NEW eoj, eoj.props \in Seq(S), NEW access
  PROVE  /\ Selected(eoj, access) \in Seq(S)
         /\ Len(Selected(eoj, access)) <= Len(eoj.props)
         /\ Range(Selected(eoj, access)) = {p \in Range(eoj.props) : Matches(p, access)}
<1> DEFINE props == eoj.props
           N == Len(props)
           M(n) == Matches(props[n], access)
           Loop(f) == [n \in 0..N |->
                         IF n = 0 THEN <<>>
                         ELSE IF M(n) THEN Append(f[n - 1], props[n]) ELSE f[n - 1]]
           found == CHOOSE f : f = Loop(f)
           step == [at \in Seq(S) \X Nat |->
                      IF at[2] \in 1..N /\ M(at[2]) THEN Append(at[1], props[at[2]])
                      ELSE at[1]]
<1>1. Selected(eoj, access) = found[N]
  BY Zenon DEF Selected
<1>2. N \in Nat /\ props \in Seq(S) /\ \A n \in 1..N : props[n] \in S
  OBVIOUS
<1>3. found = Loop(found)
  <2>1. step \in [Seq(S) \X Nat -> Seq(S)]
    <3> HIDE DEF M, N, props
    <3>1. \A q \in Seq(S), n \in 1..N : Append(q, props[n]) \in Seq(S)
      BY <1>2
    <3> QED
      BY <3>1
  <2>2. <<>> \in Seq(S)
    OBVIOUS
  <2> HIDE DEF M, N, props, step
  <2>3. PICK f \in [0..N -> Seq(S)] :
          f[0] = <<>> /\ \A n \in 1..N : f[n] = step[<<f[n - 1], n>>]
    <3>1. PICK T : T = Seq(S)
      OBVIOUS
    <3>2. PICK none \in T : none = <<>>
      BY <2>2, <3>1
    <3>3. N \in Nat /\ step \in [T \X Nat -> T]
      BY <1>2, <2>1, <3>1
    <3>4. PICK f : f \in Loops(T, none, step, N)
      BY <3>3, Recursion
    <3> QED
      BY <3>1, <3>2, <3>4 DEF Loops
  <2>4. \A n \in 1..N : f[n] = IF M(n) THEN Append(f[n - 1], props[n]) ELSE f[n - 1]
    <3> SUFFICES ASSUME NEW n \in 1..N
                 PROVE  f[n] = IF M(n) THEN Append(f[n - 1], props[n]) ELSE f[n - 1]
      OBVIOUS
    <3>1. n - 1 \in 0..N /\ n \in Nat
      BY <1>2
    <3>2. f[n - 1] \in Seq(S) /\ <<f[n - 1], n>> \in Seq(S) \X Nat
      BY <3>1
    <3>3. step[<<f[n - 1], n>>] = IF M(n) THEN Append(f[n - 1], props[n]) ELSE f[n - 1]
      BY <3>2 DEF step
    <3> QED
      BY <2>3, <3>3
  <2>5. f = Loop(f)
    <3>1. \A n \in 0..N : n # 0 => n \in 1..N
      BY <1>2
    <3>2. \A n \in 0..N : f[n] = Loop(f)[n]
      BY <2>3, <2>4, <3>1
    <3> QED
      BY <3>2
  <2> HIDE DEF Loop
  <2> QED
    BY <2>5, Zenon
<1> HIDE DEF found
<1>4. /\ found[0] = <<>>
      /\ \A n \in 1..N : found[n] = IF M(n) THEN Append(found[n - 1], props[n])
                                    ELSE found[n - 1]
  <2> HIDE DEF M, N, props
  <2>1. 0 \in 0..N /\ \A n \in 1..N : n \in 0..N /\ n # 0
    BY <1>2
  <2>2. found[0] = Loop(found)[0] /\ \A n \in 1..N : found[n] = Loop(found)[n]
    BY <1>3, Zenon
  <2> QED
    BY <2>1, <2>2
<1> DEFINE Of(n) == {props[j] : j \in {i \in 1..n : M(i)}}
           Done == {n \in Nat : n <= N => /\ found[n] \in Seq(S)
                                          /\ Len(found[n]) <= n
                                          /\ Range(found[n]) = Of(n)}
<1>5. 0 \in Done
  <2>1. Of(0) = {}
    OBVIOUS
  <2>2. \A q : q = <<>> => q \in Seq(S) /\ Len(q) <= 0 /\ Range(q) = {}
    BY DEF Range
  <2> HIDE DEF Of
  <2> QED
    <3>1. found[0] = <<>>
      BY <1>4
    <3>2. found[0] \in Seq(S) /\ Len(found[0]) <= 0 /\ Range(found[0]) = Of(0)
      BY <2>1, <2>2, <3>1
    <3> QED
      BY <3>2
<1> HIDE DEF M
<1>6. ASSUME NEW n \in Nat, n \in Done PROVE n + 1 \in Done
  <2> SUFFICES ASSUME n + 1 <= N
               PROVE  /\ found[n + 1] \in Seq(S)
                      /\ Len(found[n + 1]) <= n + 1
                      /\ Range(found[n + 1]) = Of(n + 1)
    OBVIOUS
  <2> HIDE DEF N, props
  <2>1. n + 1 \in 1..N /\ (n + 1) - 1 = n /\ n <= N
    BY <1>2
  <2>2. found[n] \in Seq(S) /\ Len(found[n]) <= n /\ Range(found[n]) = Of(n)
    BY <1>6, <2>1
  <2>3. found[n + 1] = IF M(n + 1) THEN Append(found[n], props[n + 1]) ELSE found[n]
    BY <1>4, <2>1
  <2>4. props[n + 1] \in S /\ Len(found[n]) \in Nat
    BY <1>2, <2>1, <2>2
  <2>5. {i \in 1..(n + 1) : M(i)} =
          {i \in 1..n : M(i)} \cup (IF M(n + 1) THEN {n + 1} ELSE {})
    OBVIOUS
  <2>6. Of(n + 1) = Of(n) \cup (IF M(n + 1) THEN {props[n + 1]} ELSE {})
    BY <2>5
  <2> HIDE DEF Of
  <2>7. CASE M(n + 1)
    <3>1. /\ found[n + 1] = Append(found[n], props[n + 1])
          /\ Of(n + 1) = Of(n) \cup {props[n + 1]}
      BY <2>3, <2>6, <2>7
    <3>2. Range(Append(found[n], props[n + 1])) = Range(found[n]) \cup {props[n + 1]}
      BY <2>2, <2>4, AppendRange
    <3> QED
      BY <2>2, <2>4, <3>1, <3>2
  <2>8. CASE ~ M(n + 1)
    <3>1. found[n + 1] = found[n] /\ Of(n + 1) = Of(n)
      BY <2>3, <2>6, <2>8
    <3> QED
      BY <2>2, <2>4, <3>1
  <2> QED
    BY <2>7, <2>8
<1>7. N \in Done
  <2> HIDE DEF Done
  <2> QED
    BY <1>2, <1>5, <1>6, NatSetInduction
<1>8. Of(N) = {p \in Range(props) : Matches(p, access)}
  BY <1>2 DEF Range, M
<1>9. found[N] \in Seq(S) /\ Len(found[N]) <= N /\ Range(found[N]) = Of(N)
  <2> HIDE DEF N, Of
  <2> QED
    BY <1>2, <1>7
<1> QED
  BY <1>1, <1>8, <1>9, Zenon

\* The properties of the objects.
Properties == [epc: 128..255, get: BOOLEAN, set: BOOLEAN, anno: BOOLEAN]

\* What is found in one of the objects.
LEMMA FoundType ==
  ASSUME NEW eoj \in Objects, NEW access
  PROVE  /\ Selected(eoj, access) \in Seq(Properties)
         /\ Len(Selected(eoj, access)) \in Nat
         /\ Len(Selected(eoj, access)) <= UCharMax
         /\ Range(Selected(eoj, access)) = {p \in Range(eoj.props) : Matches(p, access)}
<1>1. eoj.props \in Seq(Properties) /\ Len(eoj.props) <= UCharMax
  BY BuildsAssumption DEF Properties
<1> DEFINE found == Selected(eoj, access)
<1>2. /\ found \in Seq(Properties) /\ Len(found) <= Len(eoj.props)
      /\ Range(found) = {p \in Range(eoj.props) : Matches(p, access)}
  BY <1>1, SelectedType
<1> HIDE DEF found
<1>3. Len(found) \in Nat /\ Len(found) <= UCharMax
  <2>1. Len(found) \in Nat /\ Len(eoj.props) \in Nat
    BY <1>1, <1>2, LenInNat
  <2> QED
    BY <1>1, <1>2, <2>1 DEF UCharMax
<1> QED
  BY <1>2, <1>3 DEF found

\* The map of a device is that of the properties found.
LEMMA DeviceMapIsRight ==
  ASSUME NEW eoj \in Objects, NEW access
  PROVE  LET found == Selected(eoj, access)
         IN  /\ _get_property_map(eoj, access) = MapOf(found)
             /\ Decode(MapOf(found)) = Accessible(eoj, access)
             /\ Cardinality(DOMAIN MapOf(found)) <= 17
<1> DEFINE found == Selected(eoj, access)
<1>1. found \in Seq(Properties) /\ Len(found) <= UCharMax
  BY FoundType, Zenon
<1>2. \A p \in Properties : p.epc \in 128..255
  BY DEF Properties
<1>3. /\ Decode(MapOf(found)) = {p.epc : p \in Range(found)}
      /\ DOMAIN MapOf(found) \subseteq 0..16
  <2> HIDE DEF found
  <2> QED
    BY <1>1, <1>2, MapsAreRead
<1>4. _get_property_map(eoj, access) = MapOf(found)
  BY Zenon DEF _get_property_map, mls_eoj_get_num_properties, mls_eoj_get_property_map, MapOf
<1>5. Cardinality(DOMAIN MapOf(found)) <= 17
  <2>1. IsFiniteSet(0..16) /\ Cardinality(0..16) = 17
    <3>1. PICK a \in Int, b \in Int : a = 0 /\ b = 16
      OBVIOUS
    <3>2. IsFiniteSet(a..b) /\ Cardinality(a..b) = IF a > b THEN 0 ELSE b - a + 1
      BY FS_Interval
    <3> QED
      BY <3>1, <3>2
  <2> HIDE DEF found
  <2>2. Cardinality(DOMAIN MapOf(found)) <= Cardinality(0..16)
    BY <1>3, <2>1, FS_Subset
  <2> QED
    BY <2>1, <2>2
<1>6. Accessible(eoj, access) = {p.epc : p \in Range(found)}
  BY DEF Accessible
<1> QED
  BY <1>3, <1>4, <1>5, <1>6, Zenon

\* How many properties with the access a node of up to two devices has.
LEMMA NumInNode ==
  ASSUME NEW node \in Seq(Objects), Len(node) \in 0..2, NEW access
  PROVE  mls_eoj_get_num_properties_in_node(node, access) =
           IF Len(node) = 0 THEN 0
           ELSE IF Len(node) = 1 THEN Len(Selected(node[1], access))
                ELSE Len(Selected(node[1], access)) + Len(Selected(node[2], access))
<1> DEFINE N == Len(node)
           L(n) == mls_eoj_get_num_properties(node[n], access)
           Loop(f) == [n \in 0..N |-> IF n = 0 THEN 0 ELSE f[n - 1] + L(n)]
           num == CHOOSE f : f = Loop(f)
           g == [n \in 0..N |-> IF n = 0 THEN 0 ELSE IF n = 1 THEN L(1) ELSE L(1) + L(2)]
<1>1. mls_eoj_get_num_properties_in_node(node, access) = num[N]
  BY Zenon DEF mls_eoj_get_num_properties_in_node
<1>2. \A n \in 1..N : L(n) \in Nat /\ L(n) = Len(Selected(node[n], access))
  <2> SUFFICES ASSUME NEW n \in 1..N PROVE L(n) \in Nat /\ L(n) = Len(Selected(node[n], access))
    OBVIOUS
  <2>1. node[n] \in Objects
    OBVIOUS
  <2>2. L(n) = Len(Selected(node[n], access))
    BY DEF mls_eoj_get_num_properties
  <2>3. Len(Selected(node[n], access)) \in Nat
    BY <2>1, FoundType, Zenon
  <2> QED
    BY <2>2, <2>3, Zenon
<1>3. N \in 0..2
  OBVIOUS
<1> HIDE DEF L, N
<1>4. g = Loop(g)
  <2>1. \A n \in 0..N : n # 0 => n - 1 \in 0..N /\ (n = 1 \/ n = 2)
    BY <1>3
  <2>2. \A n \in 0..N : g[n] = Loop(g)[n]
    <3> SUFFICES ASSUME NEW n \in 0..N PROVE g[n] = Loop(g)[n]
      OBVIOUS
    <3>1. CASE n = 0
      BY <3>1
    <3>2. CASE n = 1
      BY <1>2, <1>3, <3>2
    <3>3. CASE n = 2
      BY <1>2, <1>3, <3>3
    <3> QED
      BY <2>1, <3>1, <3>2, <3>3
  <2> QED
    BY <2>2
<1>5. num = Loop(num)
  <2> HIDE DEF Loop
  <2> QED
    BY <1>4, Zenon
<1> HIDE DEF num
<1>6. num[0] = 0 /\ \A n \in 1..N : num[n] = num[n - 1] + L(n)
  <2>1. 0 \in 0..N /\ \A n \in 1..N : n \in 0..N /\ n # 0
    BY <1>3
  <2>2. \A n \in 0..N : Loop(num)[n] = IF n = 0 THEN 0 ELSE num[n - 1] + L(n)
    BY Zenon
  <2>3. \A n \in 0..N : num[n] = IF n = 0 THEN 0 ELSE num[n - 1] + L(n)
    <3> HIDE DEF Loop
    <3> QED
      BY <1>5, <2>2, Zenon
  <2> QED
    BY <2>1, <2>3, Zenon
<1>7. CASE N = 0
  BY <1>1, <1>6, <1>7 DEF N
<1>8. CASE N = 1
  <2>1. num[1] = L(1) /\ L(1) = Len(Selected(node[1], access))
    BY <1>2, <1>6, <1>8
  <2> QED
    BY <1>1, <1>8, <2>1 DEF N
<1>9. CASE N = 2
  <2>1. /\ num[2] = L(1) + L(2) /\ L(1) = Len(Selected(node[1], access))
        /\ L(2) = Len(Selected(node[2], access))
    BY <1>2, <1>6, <1>9
  <2> QED
    BY <1>1, <1>9, <2>1 DEF N
<1> QED
  BY <1>3, <1>7, <1>8, <1>9

\* The buffer after a node of up to two devices: that of the second is behind that of
\* the first in the list form.
LEMMA MapInNode ==
  ASSUME NEW node \in Seq(Objects), Len(node) \in 0..2, NEW access, NEW pnum, NEW buf
  PROVE  LET first == mls_eoj_get_property_map(node[1], access, pnum, buf, 1)
             num == mls_eoj_get_num_properties(node[1], access)
         IN  mls_eoj_get_property_map_in_node(node, access, pnum, buf, 1) =
               IF Len(node) = 0 THEN buf
               ELSE IF Len(node) = 1 THEN first
                    ELSE mls_eoj_get_property_map(node[2], access, pnum, first,
                           IF pnum < Border THEN 1 + (0 + num) ELSE 1)
<1> DEFINE N == Len(node)
           Add(s, eoj) ==
             [num |-> s.num + mls_eoj_get_num_properties(eoj, access),
              buf |-> mls_eoj_get_property_map(eoj, access, pnum, s.buf, s.at),
              at  |-> IF pnum < Border
                      THEN s.at + (s.num + mls_eoj_get_num_properties(eoj, access))
                      ELSE s.at]
           start == [num |-> 0, buf |-> buf, at |-> 1]
           Loop(f) == [n \in 0..N |-> IF n = 0 THEN start ELSE Add(f[n - 1], node[n])]
           done == CHOOSE f : f = Loop(f)
           one == Add(start, node[1])
           two == Add(one, node[2])
           g == [n \in 0..N |-> IF n = 0 THEN start ELSE IF n = 1 THEN one ELSE two]
<1>1. mls_eoj_get_property_map_in_node(node, access, pnum, buf, 1) = done[N].buf
  BY Zenon DEF mls_eoj_get_property_map_in_node
<1>2. N \in 0..2
  OBVIOUS
<1> HIDE DEF N, Add, start
<1>3. g = Loop(g)
  <2>1. \A n \in 0..N : n # 0 => n - 1 \in 0..N /\ (n = 1 \/ n = 2)
    BY <1>2
  <2>2. \A n \in 0..N : g[n] = Loop(g)[n]
    <3> SUFFICES ASSUME NEW n \in 0..N PROVE g[n] = Loop(g)[n]
      OBVIOUS
    <3>1. CASE n = 0
      BY <3>1
    <3>2. CASE n = 1
      BY <1>2, <3>2
    <3>3. CASE n = 2
      BY <1>2, <3>3
    <3> QED
      BY <2>1, <3>1, <3>2, <3>3
  <2> QED
    BY <2>2
<1>4. done = Loop(done)
  <2> HIDE DEF Loop
  <2> QED
    BY <1>3, Zenon
<1> HIDE DEF done
<1>5. done[0] = start /\ \A n \in 1..N : done[n] = Add(done[n - 1], node[n])
  <2>1. 0 \in 0..N /\ \A n \in 1..N : n \in 0..N /\ n # 0
    BY <1>2
  <2>2. \A n \in 0..N :
          Loop(done)[n] = IF n = 0 THEN start ELSE Add(done[n - 1], node[n])
    BY Zenon
  <2>3. \A n \in 0..N : done[n] = IF n = 0 THEN start ELSE Add(done[n - 1], node[n])
    <3> HIDE DEF Loop
    <3> QED
      BY <1>4, <2>2, Zenon
  <2> QED
    BY <2>1, <2>3, Zenon
<1>6. CASE N = 0
  <2>1. start.buf = buf
    BY DEF start
  <2> QED
    BY <1>1, <1>5, <1>6, <2>1 DEF N
<1>7. CASE N = 1
  <2>1. done[1] = one
    BY <1>5, <1>7
  <2>2. one.buf = mls_eoj_get_property_map(node[1], access, pnum, buf, 1)
    BY DEF Add, start
  <2> QED
    BY <1>1, <1>7, <2>1, <2>2 DEF N
<1>8. CASE N = 2
  <2>1. done[1] = one /\ done[2] = two
    BY <1>5, <1>8
  <2>2. /\ one.buf = mls_eoj_get_property_map(node[1], access, pnum, buf, 1)
        /\ one.at = IF pnum < Border
                    THEN 1 + (0 + mls_eoj_get_num_properties(node[1], access)) ELSE 1
    BY DEF Add, start
  <2> HIDE DEF one
  <2>3. two.buf = mls_eoj_get_property_map(node[2], access, pnum, one.buf, one.at)
    BY DEF Add
  <2> HIDE DEF two
  <2>4. done[N].buf = mls_eoj_get_property_map(node[2], access, pnum,
          mls_eoj_get_property_map(node[1], access, pnum, buf, 1),
          IF pnum < Border THEN 1 + (0 + mls_eoj_get_num_properties(node[1], access)) ELSE 1)
    BY <1>8, <2>1, <2>2, <2>3, Zenon
  <2>5. Len(node) # 0 /\ Len(node) # 1
    BY <1>8 DEF N
  <2> QED
    BY <1>1, <2>4, <2>5, Zenon
<1> QED
  BY <1>2, <1>6, <1>7, <1>8

\* Two lists, one behind the other.
LEMMA TwoListsAreRead ==
  ASSUME NEW S, NEW a \in Seq(S), NEW b \in Seq(S), NEW pnum,
         pnum = Len(a) + Len(b), pnum < Border
  PROVE  Decode(Property_map(PutMap(b, pnum, PutMap(a, pnum, Blank(pnum), 1), 1 + Len(a)), pnum))
           = {p.epc : p \in Range(a)} \cup {p.epc : p \in Range(b)}
<1> DEFINE first == PutMap(a, pnum, Blank(pnum), 1)
           both == PutMap(b, pnum, first, 1 + Len(a))
           map == Property_map(both, pnum)
<1>1. Len(a) \in Nat /\ Len(b) \in Nat
  BY LenInNat
<1>2. PICK m \in Nat, n \in Nat : m = Len(a) /\ n = Len(b)
  BY <1>1
<1>3. pnum = m + n /\ pnum \in 0..15 /\ pnum % 256 = pnum
  <2>1. pnum = m + n /\ pnum \in 0..15 /\ pnum \in Nat /\ pnum <= 255
    BY <1>2 DEF Border
  <2>2. pnum % 256 = pnum
    BY <2>1, SmallNumbersFit, Zenon
  <2> QED
    BY <2>1, <2>2, Zenon
<1>4. DOMAIN Blank(pnum) = 0..254 /\ Blank(pnum)[0] = pnum
  BY <1>3 DEF Blank, UCharMax
<1>5. /\ DOMAIN first = 0..254
      /\ \A i \in 0..254 : first[i] = IF i \in 1..m THEN a[i].epc ELSE Blank(pnum)[i]
  <2>1. 1..(1 + m - 1) = 1..m /\ \A i \in 1..m : i - 1 + 1 = i
    BY <1>2
  <2>2. first = [i \in 0..254 |-> IF i \in 1..(1 + m - 1) THEN a[i - 1 + 1].epc
                                  ELSE Blank(pnum)[i]]
    BY <1>2, <1>4, Zenon DEF PutMap
  <2> HIDE DEF first
  <2> QED
    BY <2>1, <2>2
<1> HIDE DEF first
<1>6. /\ DOMAIN both = 0..254
      /\ \A i \in 0..254 : both[i] = IF i \in (1 + m)..(m + n) THEN b[i - m].epc ELSE first[i]
  <2>1. (1 + m)..(1 + m + n - 1) = (1 + m)..(m + n)
        /\ \A i \in (1 + m)..(m + n) : i - (1 + m) + 1 = i - m
    BY <1>2
  <2>2. both = [i \in 0..254 |-> IF i \in (1 + m)..(1 + m + n - 1) THEN b[i - (1 + m) + 1].epc
                                 ELSE first[i]]
    BY <1>2, <1>5, Zenon DEF PutMap
  <2> HIDE DEF both
  <2> QED
    BY <2>1, <2>2
<1> HIDE DEF both
<1>7. map = [i \in 0..pnum |-> both[i]]
  <2>1. MapSize(pnum) - 1 = pnum
    BY <1>3 DEF MapSize, Border
  <2> QED
    BY <2>1, Zenon DEF Property_map
<1> HIDE DEF map
<1>8. map[0] = pnum
  <2>1. 0 \in 0..pnum /\ 0 \in 0..254 /\ 0 \notin 1..m /\ 0 \notin (1 + m)..(m + n)
    BY <1>3
  <2>2. map[0] = both[0]
    BY <1>7, <2>1
  <2>3. both[0] = first[0]
    BY <1>6, <2>1
  <2>4. first[0] = Blank(pnum)[0]
    BY <1>5, <2>1
  <2> QED
    BY <1>4, <2>2, <2>3, <2>4
<1>9. \A i \in 1..m : map[i] = a[i].epc
  <2> SUFFICES ASSUME NEW i \in 1..m PROVE map[i] = a[i].epc
    OBVIOUS
  <2>1. i \in 0..pnum /\ i \in 0..254 /\ i \notin (1 + m)..(m + n)
    BY <1>3
  <2>2. map[i] = both[i]
    BY <1>7, <2>1
  <2>3. both[i] = first[i]
    BY <1>6, <2>1
  <2>4. first[i] = a[i].epc
    BY <1>5, <2>1
  <2> QED
    BY <2>2, <2>3, <2>4
<1>10. \A i \in 1..n : map[m + i] = b[i].epc
  <2> SUFFICES ASSUME NEW i \in 1..n PROVE map[m + i] = b[i].epc
    OBVIOUS
  <2>1. m + i \in 0..pnum /\ m + i \in 0..254 /\ m + i \in (1 + m)..(m + n)
    BY <1>3
  <2>2. map[m + i] = both[m + i]
    BY <1>7, <2>1
  <2>3. both[m + i] = b[(m + i) - m].epc
    BY <1>6, <2>1
  <2>4. (m + i) - m = i
    OBVIOUS
  <2> QED
    BY <2>2, <2>3, <2>4, Zenon
<1>11. Decode(map) = {map[i] : i \in 1..(m + n)}
  <2>1. map[0] < Border
    BY <1>3, <1>8 DEF Border
  <2> QED
    BY <1>3, <1>8, <2>1 DEF Decode
<1>12. {map[i] : i \in 1..(m + n)} = {map[i] : i \in 1..m} \cup {map[m + i] : i \in 1..n}
  <2>1. \A i \in 1..(m + n) : i \in 1..m \/ (i - m \in 1..n /\ i = m + (i - m))
    BY <1>2
  <2>2. \A i \in 1..m : i \in 1..(m + n)
    BY <1>2
  <2>3. \A i \in 1..n : m + i \in 1..(m + n)
    BY <1>2
  <2> QED
    BY <2>1, <2>2, <2>3
<1>13. Range(a) = {a[i] : i \in 1..m} /\ Range(b) = {b[i] : i \in 1..n}
  BY <1>2 DEF Range
<1>14. /\ {map[i] : i \in 1..m} = {p.epc : p \in Range(a)}
       /\ {map[m + i] : i \in 1..n} = {p.epc : p \in Range(b)}
  <2>1. {map[i] : i \in 1..m} = {a[i].epc : i \in 1..m}
    BY <1>9
  <2>2. {a[i].epc : i \in 1..m} = {p.epc : p \in Range(a)}
    BY <1>13
  <2>3. {map[m + i] : i \in 1..n} = {b[i].epc : i \in 1..n}
    BY <1>10
  <2>4. {b[i].epc : i \in 1..n} = {p.epc : p \in Range(b)}
    BY <1>13
  <2> QED
    BY <2>1, <2>2, <2>3, <2>4
<1> QED
  BY <1>11, <1>12, <1>14, Zenon DEF map, both, first

\* The profile's map, of a node with no device, with one, and with two in the list
\* form.
LEMMA ProfileMapIsRight ==
  ASSUME NEW node \in Seq(Objects)
  PROVE  NodeMapIsRight(node)
<1> SUFFICES ASSUME NEW access \in (SUBSET Access) \ {{}}
             PROVE  \/ Len(node) > 2
                    \/ /\ Len(node) = 2
                       /\ mls_eoj_get_num_properties_in_node(node, access) >= Border
                    \/ Decode(_get_property_map_of_profile(node, access)) =
                         UNION {Accessible(eoj, access) : eoj \in Range(node)}
  BY Zenon DEF NodeMapIsRight
<1> SUFFICES ASSUME ~ Len(node) > 2,
                    ~ (/\ Len(node) = 2
                       /\ mls_eoj_get_num_properties_in_node(node, access) >= Border)
             PROVE  Decode(_get_property_map_of_profile(node, access)) =
                      UNION {Accessible(eoj, access) : eoj \in Range(node)}
  BY Zenon
<1> DEFINE pnum == mls_eoj_get_num_properties_in_node(node, access)
           buf == mls_eoj_get_property_map_in_node(node, access, pnum, Blank(pnum), 1)
           Sel(i) == Selected(node[i], access)
<1>1. Len(node) \in 0..2 /\ \A i \in 1..Len(node) : node[i] \in Objects
  <2>1. PICK num \in Nat : num = Len(node)
    BY LenInNat, Zenon
  <2>2. ~ num > 2 => num \in 0..2
    OBVIOUS
  <2>3. \A i \in 1..Len(node) : node[i] \in Objects
    BY ElementOfSeq
  <2> QED
    BY <2>1, <2>2, <2>3, Zenon
<1>2. _get_property_map_of_profile(node, access) = Property_map(buf, pnum)
  BY Zenon DEF _get_property_map_of_profile
<1>3. \A i \in 1..Len(node) :
        Sel(i) \in Seq(Properties) /\ Len(Sel(i)) \in Nat
  BY <1>1, FoundType, Zenon
<1>4. \A i \in 1..Len(node) : Accessible(node[i], access) = {p.epc : p \in Range(Sel(i))}
  BY DEF Accessible
<1>5. Range(node) = {node[i] : i \in 1..Len(node)}
  BY DEF Range
<1> DEFINE first == mls_eoj_get_property_map(node[1], access, pnum, Blank(pnum), 1)
<1>6. buf = IF Len(node) = 0 THEN Blank(pnum)
            ELSE IF Len(node) = 1 THEN first
                 ELSE mls_eoj_get_property_map(node[2], access, pnum, first,
                        IF pnum < Border
                        THEN 1 + (0 + mls_eoj_get_num_properties(node[1], access)) ELSE 1)
  BY <1>1, MapInNode, Zenon
<1>7. CASE Len(node) = 0
  <2>1. pnum = 0
    BY <1>1, <1>7, NumInNode
  <2> HIDE DEF pnum
  <2>2. buf = Blank(0)
    BY <1>6, <1>7, <2>1, Zenon
  <2>3. Property_map(buf, pnum)[0] = 0
    <3>1. MapSize(0) - 1 = 0 /\ Blank(0)[0] = 0
      BY DEF MapSize, Border, Blank, UCharMax
    <3> QED
      BY <2>1, <2>2, <3>1 DEF Property_map
  <2>4. Decode(Property_map(buf, pnum)) = {}
    BY <2>3 DEF Decode, Border
  <2>5. Range(node) = {}
    BY <1>5, <1>7
  <2> QED
    BY <1>2, <2>4, <2>5
<1>8. CASE Len(node) = 1
  <2>1. pnum = Len(Sel(1))
    BY <1>1, <1>8, NumInNode
  <2>2. 1 \in 1..Len(node)
    BY <1>8
  <2> HIDE DEF pnum
  <2>3. buf = mls_eoj_get_property_map(node[1], access, pnum, Blank(pnum), 1)
    BY <1>6, <1>8
  <2>4. Property_map(buf, pnum) = MapOf(Sel(1))
    BY <2>1, <2>3, Zenon DEF mls_eoj_get_property_map, MapOf
  <2>5. Decode(MapOf(Sel(1))) = Accessible(node[1], access)
    BY <1>1, <2>2, DeviceMapIsRight, Zenon
  <2>6. Range(node) = {node[1]}
    BY <1>5, <1>8
  <2> QED
    BY <1>2, <2>4, <2>5, <2>6
<1>9. CASE Len(node) = 2
  <2>1. 1 \in 1..Len(node) /\ 2 \in 1..Len(node)
    BY <1>9
  <2>2. pnum = Len(Sel(1)) + Len(Sel(2))
    BY <1>1, <1>9, NumInNode
  <2>3. pnum < Border /\ pnum \in Nat
    BY <1>3, <1>9, <2>1, <2>2 DEF Border
  <2> HIDE DEF pnum
  <2>4. buf = mls_eoj_get_property_map(node[2], access, pnum,
                mls_eoj_get_property_map(node[1], access, pnum, Blank(pnum), 1),
                1 + (0 + mls_eoj_get_num_properties(node[1], access)))
    BY <1>6, <1>9, <2>3
  <2>5. 0 + mls_eoj_get_num_properties(node[1], access) = Len(Sel(1))
    BY <1>3, <2>1 DEF mls_eoj_get_num_properties
  <2>6. buf = PutMap(Sel(2), pnum, PutMap(Sel(1), pnum, Blank(pnum), 1), 1 + Len(Sel(1)))
    BY <2>4, <2>5, Zenon DEF mls_eoj_get_property_map
  <2>7. Decode(Property_map(buf, pnum)) =
          {p.epc : p \in Range(Sel(1))} \cup {p.epc : p \in Range(Sel(2))}
    BY <1>3, <2>1, <2>2, <2>3, <2>6, TwoListsAreRead
  <2>8. Range(node) = {node[1], node[2]}
    BY <1>5, <1>9
  <2>9. Decode(Property_map(buf, pnum)) = Accessible(node[1], access) \cup Accessible(node[2], access)
    BY <1>4, <2>1, <2>7
  <2> QED
    BY <1>2, <2>8, <2>9
<1> QED
  BY <1>1, <1>7, <1>8, <1>9

\* SelfReportIsRight, for all objects and all nodes built of them: a reader of the
\* property maps of a device, of those of the profile of a node with one device (or
\* two with fewer than 16 properties between them), and of the lists of instances and
\* classes learns what is there.
THEOREM SelfReportCorrect == DiscoverSpec => []SelfReportIsRight
<1>1. ASSUME NEW eoj \in Objects PROVE MapIsRight(eoj)
  BY DeviceMapIsRight, Zenon DEF MapIsRight
<1>2. ASSUME NEW node \in Builds PROVE NodeMapIsRight(node) /\ ListsAreRight(node)
  <2>1. node \in Seq(Objects)
    BY BuildsAssumption
  <2> QED
    BY <2>1, ProfileMapIsRight, ListsAreRead
<1>3. SelfReportIsRight
  BY <1>1, <1>2 DEF SelfReportIsRight, AllRight
<1> QED
  BY <1>3, PTL
=============================================================================
