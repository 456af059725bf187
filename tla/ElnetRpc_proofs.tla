--------------------------- MODULE ElnetRpc_proofs ---------------------------
(***************************************************************************)
(* Theorems about the request/answer client and the node it calls, for any *)
(* number of clients and calls, any requests, and any loss, duplication    *)
(* and order of the datagrams.                                             *)
(***************************************************************************)
EXTENDS ElnetRegister, Elnet_proofs, SequenceLemmas

Sockets == Clients \cup {Server}
Message == [from: Sockets, frame: AnyFrame]

\* What a client sends to the server: the request of its present call, or one of
\* an earlier call, which has a smaller transaction id.
IsRequest(c, f) ==
  /\ \E t \in 1..MaxCalls, r \in Asks[c] : f = RequestFrame(t, r)
  /\ f.tid <= ctid[c]
  /\ f.tid = ctid[c] => f = call[c]

IsAnnouncement(f) == f \in Arriving /\ f.esv = "INF"

\* What a client asks is one of the requests.
LEMMA RequestMade ==
  ASSUME NEW c \in Clients
  PROVE  /\ Asks[c] \subseteq Requests
         /\ \A f : IsRequest(c, f) => \E t \in 1..MaxCalls, r \in Requests : f = RequestFrame(t, r)
<1>1. Asks[c] \subseteq Requests
  BY RequestAssumption
<1> QED
  BY <1>1 DEF IsRequest

\* What comes to a client: an announcement, an answer to an earlier call, or one
\* that was given to the present call.
IsAnswer(c, f) ==
  /\ f.tid <= ctid[c]
  /\ f.tid = ctid[c] => f \in given[c]

\* What a socket's queue holds.
Held(h, m) ==
  IF h = Server
  THEN \/ m.from \in Clients /\ IsRequest(m.from, m.frame)
       \/ m.from = Server /\ IsAnnouncement(m.frame)
  ELSE m.frame.esv = "INF" \/ IsAnswer(h, m.frame)

NetType(n) ==
  /\ n \in [Sockets -> Seq(Message)]
  /\ \A h \in Sockets : Len(n[h]) <= Capacity

ClientType ==
  /\ cpc \in [Clients -> {"idle", "wait", "ok", "over", "error"}]
  /\ call \in [Clients -> AnyFrame]
  /\ try \in [Clients -> 0..Retry]
  /\ ctid \in [Clients -> 0..MaxCalls]
  /\ result \in [Clients -> AnyFrame]
  /\ given \in [Clients -> SUBSET AnyFrame]
  /\ runs \in [Clients -> Nat]
  /\ kills \in 0..MaxKills
  /\ born \in [Clients -> 0..MaxKills]

NetOK == \A h \in Sockets : \A i \in 1..Len(net[h]) : Held(h, net[h][i])

\* The server is busy with a client's request only: it drops what it hears of
\* itself.
BusyOK == pc = "items" => from \in Clients /\ IsRequest(from, req)

\* A client that has called, has made a request.
CalledOK ==
  \A c \in Clients : cpc[c] # "idle" =>
    /\ call[c].tid = ctid[c]
    /\ \E t \in 1..MaxCalls, r \in Asks[c] : call[c] = RequestFrame(t, r)

RpcInv ==
  /\ TInv /\ NetType(net) /\ ClientType
  /\ NetOK /\ BusyOK /\ CalledOK /\ OkIsAnAnswer
-----------------------------------------------------------------------------
(***************************************************************************)
(* The network.                                                            *)
(***************************************************************************)

\* What is transmitted is appended, at the sockets it is addressed to.
LEMMA TransmitElements ==
  ASSUME NEW a \in Sockets, NEW to \in Clients \cup {Server, Group},
         NEW f \in AnyFrame, NEW q, NetType(q), Transmit(a, to, f, q)
  PROVE  /\ NetType(net')
         /\ \A h \in Sockets : \A i \in 1..Len(net'[h]) :
              \/ \E j \in 1..Len(q[h]) : net'[h][i] = q[h][j]
              \/ h \in Receivers(to) /\ net'[h][i] = Msg(a, f)
<1>1. Receivers(to) \subseteq Sockets
  BY ClientAssumption, ConstantsAssumption DEF Receivers, Sockets
<1>2. Msg(a, f) \in Message
  BY DEF Msg, Message
<1>3. PICK n \in [Receivers(to) -> 0..MaxCopies] :
        /\ \A h \in Receivers(to) : n[h] > 0 => Len(q[h]) + n[h] <= Capacity
        /\ net' = [h \in DOMAIN q |->
                     IF h \in Receivers(to)
                     THEN q[h] \o [i \in 1..n[h] |-> Msg(a, f)]
                     ELSE q[h]]
  BY DEF Transmit
<1>4. ASSUME NEW h \in Sockets
      PROVE  /\ net'[h] \in Seq(Message) /\ Len(net'[h]) <= Capacity
             /\ \A i \in 1..Len(net'[h]) :
                  \/ \E j \in 1..Len(q[h]) : net'[h][i] = q[h][j]
                  \/ h \in Receivers(to) /\ net'[h][i] = Msg(a, f)
  <2>1. q[h] \in Seq(Message) /\ Len(q[h]) <= Capacity /\ h \in DOMAIN q
    BY DEF NetType
  <2>2. CASE h \notin Receivers(to)
    BY <1>3, <2>1, <2>2
  <2>3. CASE h \in Receivers(to)
    <3> DEFINE k == n[h]
               new == [i \in 1..k |-> Msg(a, f)]
    <3>1. k \in Nat /\ (k > 0 => Len(q[h]) + k <= Capacity)
      BY <1>3, <2>3, ClientAssumption
    <3>2. net'[h] = q[h] \o new
      BY <1>3, <2>1, <2>3
    <3> HIDE DEF k
    <3>3. new \in Seq(Message) /\ Len(new) = k
          /\ \A i \in 1..k : new[i] = Msg(a, f)
      BY <1>2, <3>1
    <3> HIDE DEF new
    <3>4. net'[h] \in Seq(Message) /\ Len(net'[h]) = Len(q[h]) + k
      BY <2>1, <3>2, <3>3, ConcatElements
    <3>5. Len(net'[h]) <= Capacity
      BY <2>1, <3>1, <3>4
    <3>6. ASSUME NEW i \in 1..Len(net'[h])
          PROVE  \/ \E j \in 1..Len(q[h]) : net'[h][i] = q[h][j]
                 \/ net'[h][i] = Msg(a, f)
      <4>1. \/ \E j \in 1..Len(q[h]) : net'[h][i] = q[h][j]
            \/ \E j \in 1..Len(new) : net'[h][i] = new[j]
        BY <2>1, <3>2, <3>3, ConcatElements
      <4> QED
        BY <3>3, <4>1
    <3> QED
      BY <2>3, <3>4, <3>5, <3>6
  <2> QED
    BY <2>2, <2>3
<1>5. DOMAIN net' = Sockets /\ net' = [h \in Sockets |-> net'[h]]
  BY <1>3 DEF NetType
<1> QED
  BY <1>4, <1>5 DEF NetType

\* What is sent to the server is at the server.
LEMMA TransmitToServer ==
  ASSUME NEW a \in Sockets, NEW f \in AnyFrame, NetType(net), Transmit(a, Server, f, net)
  PROVE  \A i \in 1..Len(net'[Server]) :
           \/ \E j \in 1..Len(net[Server]) : net'[Server][i] = net[Server][j]
           \/ net'[Server][i] = Msg(a, f)
<1>1. PICK to \in Clients \cup {Server, Group} : to = Server
  OBVIOUS
<1>2. PICK q : q = net
  OBVIOUS
<1>3. NetType(q) /\ Transmit(a, to, f, q) /\ Server \in Sockets
  BY <1>1, <1>2 DEF Sockets
<1>4. \A h \in Sockets : \A i \in 1..Len(net'[h]) :
        \/ \E j \in 1..Len(q[h]) : net'[h][i] = q[h][j]
        \/ h \in Receivers(to) /\ net'[h][i] = Msg(a, f)
  BY <1>3, TransmitElements, SMTT(30)
<1> QED
  BY <1>2, <1>3, <1>4

\* What a queue may hold, it may go on to hold while the client makes no new call.
LEMMA HeldStays ==
  ASSUME NEW h \in Sockets, NEW m \in Message, Held(h, m),
         UNCHANGED <<ctid, call>>, \A c \in Clients : given[c] \subseteq given'[c]
  PROVE  Held(h, m)'
<1>1. CASE h = Server
  BY <1>1 DEF Held, IsRequest
<1>2. CASE h # Server
  BY <1>2 DEF Held, IsAnswer, Sockets
<1> QED
  BY <1>1, <1>2

\* A transmission keeps the queues as they should be when what is sent may be held
\* where it arrives.
LEMMA TransmitHeld ==
  ASSUME NEW a \in Sockets, NEW to \in Clients \cup {Server, Group},
         NEW f \in AnyFrame, NEW q, NetType(q), Transmit(a, to, f, q),
         \A h \in Sockets : \A i \in 1..Len(q[h]) : Held(h, q[h][i]),
         \A h \in Sockets, m \in Message : Held(h, m) => Held(h, m)',
         \A h \in Receivers(to) : Held(h, Msg(a, f))'
  PROVE  NetType(net') /\ NetOK'
<1>1. /\ NetType(net')
      /\ \A h \in Sockets : \A i \in 1..Len(net'[h]) :
           \/ \E j \in 1..Len(q[h]) : net'[h][i] = q[h][j]
           \/ h \in Receivers(to) /\ net'[h][i] = Msg(a, f)
  BY TransmitElements
<1>2. ASSUME NEW h \in Sockets, NEW i \in 1..Len(net'[h])
      PROVE  Held(h, net[h][i])'
  <2>1. PICK m \in Message : m = net'[h][i]
    BY <1>1, <1>2 DEF NetType
  <2>2. \/ \E j \in 1..Len(q[h]) : m = q[h][j]
        \/ h \in Receivers(to) /\ m = Msg(a, f)
    BY <1>1, <2>1
  <2>3. CASE \E j \in 1..Len(q[h]) : m = q[h][j]
    <3>1. Held(h, m)
      BY <2>3
    <3>2. Held(h, m)'
      BY <2>1, <3>1
    <3> QED
      BY <2>1, <3>2 DEF Held
  <2>4. CASE h \in Receivers(to) /\ m = Msg(a, f)
    <3>1. Held(h, Msg(a, f))'
      BY <2>4
    <3> QED
      BY <2>1, <2>4, <3>1 DEF Held
  <2> QED
    BY <2>2, <2>3, <2>4
<1> QED
  BY <1>1, <1>2 DEF NetOK

\* A step that only takes the element i out of a queue keeps them so, too.
LEMMA RemoveHeld ==
  ASSUME NetType(net), NetOK, NEW h \in Sockets, NEW i \in 1..Len(net[h]),
         net' = [net EXCEPT ![h] = RemoveAt(@, i)], UNCHANGED <<ctid, call, given>>
  PROVE  NetType(net') /\ NetOK'
<1>1. /\ RemoveAt(net[h], i) \in Seq(Message)
      /\ Len(RemoveAt(net[h], i)) = Len(net[h]) - 1
      /\ \A j \in 1..Len(RemoveAt(net[h], i)) :
           \E k \in 1..Len(net[h]) : RemoveAt(net[h], i)[j] = net[h][k]
  <2>1. net[h] \in Seq(Message)
    BY DEF NetType
  <2> QED
    BY <2>1, RemoveAtElements
<1>2. net' \in [Sockets -> Seq(Message)] /\ net'[h] = RemoveAt(net[h], i)
      /\ \A g \in Sockets : g # h => net'[g] = net[g]
  <2>1. PICK r \in Seq(Message) : r = RemoveAt(net[h], i)
    BY <1>1
  <2>2. net' = [net EXCEPT ![h] = r] /\ net \in [Sockets -> Seq(Message)]
    BY <2>1 DEF NetType
  <2> QED
    BY <2>1, <2>2
<1>3. NetType(net')
  <2>1. Len(net[h]) \in Nat /\ Len(net[h]) <= Capacity /\ Capacity \in Nat
    BY ClientAssumption DEF NetType
  <2> QED
    BY <1>1, <1>2, <2>1 DEF NetType
<1>4. ASSUME NEW g \in Sockets, NEW j \in 1..Len(net'[g])
      PROVE  Held(g, net[g][j])'
  <2>1. \E k \in 1..Len(net[g]) : net'[g][j] = net[g][k]
    BY <1>1, <1>2
  <2>2. PICK m : m = net'[g][j] /\ Held(g, m)
    BY <2>1 DEF NetOK
  <2>3. Held(g, m)'
    BY <2>2 DEF Held, IsRequest, IsAnswer
  <2> QED
    BY <2>2, <2>3 DEF Held
<1> QED
  BY <1>3, <1>4 DEF NetOK
-----------------------------------------------------------------------------
(***************************************************************************)
(* The steps of the server.                                                *)
(***************************************************************************)

\* What may come to the server's socket is a frame of the network.
LEMMA HeldArriving ==
  ASSUME NEW m, Held(Server, m)
  PROVE  m.from \in Address /\ m.frame \in Arriving
BY ClientAssumption, RequestAssumption, RequestMade DEF Held, IsAnnouncement

LEMMA ServerReceiveOK == RpcInv /\ ServerReceive => RpcInv'
<1> SUFFICES ASSUME RpcInv, ServerReceive PROVE RpcInv'
  OBVIOUS
<1>1. PICK i \in Deliverable(Server) :
        LET m == net[Server][i]
        IN  /\ Ignore(m.from, m.frame) \/ Receive(m.from, m.frame)
            /\ net' = [net EXCEPT ![Server] = RemoveAt(@, i)]
            /\ UNCHANGED <<cvars, given, runs, kills, born>>
  BY DEF ServerReceive
<1> DEFINE m == net[Server][i]
<1>2. Server \in Sockets /\ i \in 1..Len(net[Server])
  BY <1>1 DEF Sockets, Deliverable, RpcInv, NetType
<1>3. Held(Server, m)
  BY <1>2 DEF RpcInv, NetOK
<1>4. TInv'
  <2>1. [Next]_vars
    BY <1>1, <1>3, HeldArriving DEF Next
  <2> QED
    BY <2>1, TypeNext DEF RpcInv
<1>5. UNCHANGED <<cpc, call, try, ctid, result, given, runs, kills, born>>
  BY <1>1 DEF cvars
<1>6. NetType(net') /\ NetOK'
  BY <1>1, <1>2, <1>5, RemoveHeld DEF RpcInv
<1>7. BusyOK'
  <2> SUFFICES ASSUME pc' = "items"
               PROVE  (from \in Clients /\ IsRequest(from, req))'
    BY DEF BusyOK
  <2>1. ~Ignored(m.frame) /\ from' = m.from /\ req' = m.frame
    BY <1>1 DEF Ignore, Receive
  <2>2. m.frame.esv # "INF"
    BY <2>1 DEF Ignored, SetEsv, GetEsv
  <2>3. m.from \in Clients /\ IsRequest(m.from, m.frame)
    BY <1>3, <2>2 DEF Held, IsAnnouncement
  <2> QED
    BY <1>5, <2>1, <2>3 DEF IsRequest
<1> QED
  BY <1>4, <1>5, <1>6, <1>7 DEF RpcInv, ClientType, CalledOK, OkIsAnAnswer

\* A step of the handler that gives something to sendto is an announcement of the
\* property it has just set, or the answer to the client that asked.
LEMMA HandlerSends ==
  ASSUME RpcInv, Handle, Sends
  PROVE  /\ pc = "items"
         /\ \/ /\ ~(Silent \/ Reply)
               /\ out'[Len(out')].to = Group
               /\ IsAnnouncement(out'[Len(out')].frame)
            \/ /\ Reply
               /\ out'[Len(out')].to = from
               /\ out'[Len(out')].frame.tid = req.tid
<1>1. out \in Seq(Datagram) /\ idx \in Nat \ {0} /\ req \in AnyFrame
  BY DEF RpcInv, TInv, TypeOK
<1>2. Len(out') > Len(out)
  BY DEF Sends
<1>3. SetTaken \/ Reply
  <2>1. out' # out /\ out' # <<>>
    BY <1>1, <1>2
  <2> QED
    BY <2>1 DEF Handle, CutFrame, GetWithData, Drop, SetNoProperty, SetRefused,
         SetAborts, Gone, GetTaken, GetRefused, InfItem, Silent, Return
<1>4. CASE SetTaken
  <2>1. /\ pc = "items" /\ idx <= req.opc /\ req.esv \in SetEsv
        /\ idx \in 1..Len(req.items)
    BY <1>1, <1>4 DEF SetTaken, AtItem, AnyFrame
  <2>2. out' = Append(out, announce_property(req.deoj, It))
    BY <1>1, <1>2, <1>4 DEF SetTaken
  <2>3. ~(Silent \/ Reply)
    BY <1>1, <2>1 DEF Silent, Reply, Answer, ItemsDone, AnyFrame
  <2>4. PICK t \in 1..MaxCalls, r \in Requests : req = RequestFrame(t, r)
    BY <2>1, RequestMade DEF RpcInv, BusyOK
  <2>5. _get_next_tid \in 0..(TidMod - 1)
    BY ModBound, ConstantsAssumption DEF _get_next_tid, RpcInv, TInv, TypeOK
  <2>6. r.esv \in SetEsv /\ idx \in 1..Len(r.items)
        /\ announce_property(req.deoj, It).frame =
             setup_frame(_get_next_tid, r.deoj, Profile, "INF", 1, <<r.items[idx]>>)
    BY <2>1, <2>4 DEF RequestFrame, setup_frame, announce_property, It
  <2>7. IsAnnouncement(announce_property(req.deoj, It).frame)
    BY <2>5, <2>6, RequestAssumption DEF IsAnnouncement, setup_frame
  <2>8. out'[Len(out')] = announce_property(req.deoj, It)
    BY <1>1, <2>2
  <2> QED
    BY <2>1, <2>3, <2>7, <2>8 DEF announce_property
<1>5. CASE Reply
  <2>1. pc = "items"
    BY <1>5 DEF Reply, Answer, ItemsDone
  <2>2. req.esv # "INF_REQ"
    BY <2>1, RequestAssumption, RequestMade DEF RpcInv, BusyOK, RequestFrame, setup_frame
  <2>3. out'[Len(out')] =
          [to |-> from,
           frame |-> setup_frame(req.tid, req.deoj, req.seoj,
                       select_response_esv(req.esv, ret), req.opc, res)]
    BY <1>1, <1>5, <2>2 DEF Reply, Answer
  <2> QED
    BY <1>5, <2>1, <2>3 DEF setup_frame
<1> QED
  BY <1>3, <1>4, <1>5

\* A step of the handler goes on with the same request, or leaves it.
LEMMA HandlerKeepsRequest ==
  ASSUME Handle, pc' = "items"
  PROVE  pc = "items" /\ UNCHANGED <<from, req>>
<1>1. ~(CutFrame \/ GetWithData \/ SetAborts \/ Silent \/ Reply \/ Return)
  BY DEF CutFrame, GetWithData, Drop, SetAborts, Gone, Silent, Reply, Answer, Return
<1>2. CASE SetNoProperty \/ SetRefused \/ SetTaken
  BY <1>2 DEF SetNoProperty, SetRefused, SetTaken, NextItem, AtItem
<1>3. CASE GetTaken \/ GetRefused \/ InfItem
  BY <1>3 DEF GetTaken, GetRefused, InfItem, NextItem, AtItem
<1> QED
  BY <1>1, <1>2, <1>3 DEF Handle

LEMMA ServerStepOK == RpcInv /\ ServerStep => RpcInv'
<1> SUFFICES ASSUME RpcInv, ServerStep PROVE RpcInv'
  OBVIOUS
<1> DEFINE d == out'[Len(out')]
           finished == (Silent \/ Reply) /\ from \in Clients
<1>1. /\ Handle
      /\ IF Sends THEN Transmit(Server, d.to, d.frame, net) ELSE UNCHANGED net
      /\ runs' = IF finished /\ req = call[from]
                 THEN [runs EXCEPT ![from] = @ + 1] ELSE runs
      /\ given' = IF finished /\ req = call[from] /\ Sends
                  THEN [given EXCEPT ![from] = @ \cup {d.frame}] ELSE given
      /\ UNCHANGED <<cpc, call, try, ctid, result, kills, born>>
  BY DEF ServerStep, cvars
<1>2. TInv'
  BY <1>1, TypeNext DEF RpcInv, Next
<1>3. Sends => d \in Datagram
  <2>1. out \in Seq(Datagram) /\ out' \in Seq(Datagram)
    BY <1>2 DEF RpcInv, TInv, TypeOK
  <2> QED
    BY <2>1 DEF Sends
<1>4. runs' \in [Clients -> Nat]
  BY <1>1 DEF RpcInv, ClientType
<1>5. given' \in [Clients -> SUBSET AnyFrame]
      /\ \A c \in Clients : given[c] \subseteq given'[c]
  <2>1. given \in [Clients -> SUBSET AnyFrame]
    BY DEF RpcInv, ClientType
  <2>2. CASE given' = given
    BY <2>1, <2>2
  <2>3. CASE finished /\ Sends /\ given' = [given EXCEPT ![from] = @ \cup {d.frame}]
    BY <1>3, <2>1, <2>3 DEF Datagram
  <2> QED
    BY <1>1, <2>2, <2>3
<1>6. \A h \in Sockets, m \in Message : Held(h, m) => Held(h, m)'
  BY <1>1, <1>5, HeldStays
<1>7. BusyOK'
  <2> SUFFICES ASSUME pc' = "items"
               PROVE  (from \in Clients /\ IsRequest(from, req))'
    BY DEF BusyOK
  <2>1. pc = "items" /\ UNCHANGED <<from, req>>
    BY <1>1, HandlerKeepsRequest
  <2> QED
    BY <1>1, <2>1 DEF RpcInv, BusyOK, IsRequest
<1>8. NetType(net') /\ NetOK'
  <2>1. CASE ~Sends
    <3>1. net' = net
      BY <1>1, <2>1
    <3>2. ASSUME NEW h \in Sockets, NEW i \in 1..Len(net[h])
          PROVE  Held(h, net[h][i])'
      <4>1. PICK m \in Message : m = net[h][i] /\ Held(h, m)
        BY DEF RpcInv, NetType, NetOK
      <4>2. Held(h, m)'
        BY <1>6, <4>1
      <4> QED
        BY <3>1, <4>1, <4>2 DEF Held
    <3> QED
      BY <3>1, <3>2 DEF RpcInv, NetOK
  <2>2. CASE Sends
    <3>1. /\ pc = "items"
          /\ \/ d.to = Group /\ IsAnnouncement(d.frame)
             \/ Reply /\ d.to = from /\ d.frame.tid = req.tid
      BY <1>1, <2>2, HandlerSends
    <3>2. from \in Clients /\ IsRequest(from, req)
      BY <3>1 DEF RpcInv, BusyOK
    <3>3. PICK to \in Clients \cup {Server, Group}, f \in AnyFrame :
            to = d.to /\ f = d.frame
      BY <1>3, <2>2, <3>1, <3>2 DEF Datagram
    <3>4. ASSUME NEW h \in Receivers(to) PROVE Held(h, Msg(Server, f))'
      <4>1. CASE IsAnnouncement(f)
        BY <4>1, ClientAssumption DEF Held, Msg, IsAnnouncement
      <4>2. CASE Reply /\ to = from /\ f.tid = req.tid
        <5>1. h = from /\ h # Server
          BY <3>2, <4>2, ClientAssumption, ConstantsAssumption DEF Receivers
        <5>2. given \in [Clients -> SUBSET AnyFrame]
          BY DEF RpcInv, ClientType
        <5>3. req = call[from] => f \in given'[from]
          BY <1>1, <2>2, <3>2, <3>3, <4>2, <5>2
        <5>4. f.tid <= ctid[from] /\ (f.tid = ctid[from] => f \in given'[from])
          BY <3>2, <4>2, <5>3 DEF IsRequest
        <5> QED
          BY <1>1, <5>1, <5>4 DEF Held, Msg, IsAnswer
      <4> QED
        BY <3>1, <3>3, <4>1, <4>2
    <3>5. Transmit(Server, to, f, net)
      BY <1>1, <2>2, <3>3
    <3>6. /\ Server \in Sockets
          /\ NetType(net)
          /\ \A h \in Sockets : \A i \in 1..Len(net[h]) : Held(h, net[h][i])
      BY DEF RpcInv, NetOK, Sockets
    <3> QED
      BY <1>6, <3>4, <3>5, <3>6, TransmitHeld
  <2> QED
    BY <2>1, <2>2
<1>9. ClientType' /\ CalledOK'
  BY <1>1, <1>4, <1>5 DEF RpcInv, ClientType, CalledOK
<1>10. OkIsAnAnswer'
  BY <1>1, <1>5 DEF RpcInv, OkIsAnAnswer
<1> QED
  BY <1>2, <1>7, <1>8, <1>9, <1>10 DEF RpcInv

LEMMA ServerDiesOK == RpcInv /\ ServerDies => RpcInv'
<1> SUFFICES ASSUME RpcInv, ServerDies PROVE RpcInv'
  OBVIOUS
<1>1. TInv'
  BY TypeNext DEF ServerDies, Next, RpcInv
<1>2. /\ UNCHANGED <<cpc, call, try, ctid, result, net, given, runs, born>>
      /\ kills' = kills + 1 /\ kills < MaxKills /\ pc' = "dead"
  BY DEF ServerDies, cvars, Kill, Gone
<1>3. kills' \in 0..MaxKills
  BY <1>2, ClientAssumption DEF RpcInv, ClientType
<1> QED
  BY <1>1, <1>2, <1>3 DEF RpcInv, ClientType, NetOK, Held, IsRequest, IsAnswer,
     BusyOK, CalledOK, OkIsAnAnswer

LEMMA ServerRestartsOK == RpcInv /\ ServerRestarts => RpcInv'
<1> SUFFICES ASSUME RpcInv, ServerRestarts PROVE RpcInv'
  OBVIOUS
<1> DEFINE q == [net EXCEPT ![Server] = <<>>]
<1>1. TInv'
  BY TypeNext DEF ServerRestarts, Next, RpcInv
<1>2. /\ UNCHANGED <<cpc, call, try, ctid, result, given, runs, kills, born>>
      /\ pc' = "done"
      /\ Transmit(Server, Group, announce_profile.frame, q)
  BY DEF ServerRestarts, cvars, Restart
<1>3. \A h \in Sockets, m \in Message : Held(h, m) => Held(h, m)'
  BY <1>2, HeldStays
<1>4. NetType(q) /\ \A h \in Sockets : \A i \in 1..Len(q[h]) : Held(h, q[h][i])
  <2>1. <<>> \in Seq(Message) /\ Len(<<>>) = 0 /\ 0 <= Capacity
    BY ClientAssumption
  <2>2. q \in [Sockets -> Seq(Message)]
        /\ \A h \in Sockets : q[h] = IF h = Server THEN <<>> ELSE net[h]
    BY <2>1 DEF RpcInv, NetType
  <2> HIDE DEF q
  <2>3. \A h \in Sockets : Len(q[h]) <= Capacity
    BY <2>1, <2>2 DEF RpcInv, NetType
  <2>4. ASSUME NEW h \in Sockets, NEW i \in 1..Len(q[h]) PROVE Held(h, q[h][i])
    BY <2>1, <2>2 DEF RpcInv, NetOK
  <2> QED
    BY <2>2, <2>3, <2>4 DEF NetType
<1>5. \A h \in Receivers(Group) : Held(h, Msg(Server, announce_profile.frame))'
  <2>1. IsAnnouncement(announce_profile.frame)
    BY RequestAssumption DEF IsAnnouncement, announce_profile, setup_frame
  <2> QED
    BY <2>1, ClientAssumption DEF Held, Msg, IsAnnouncement
<1>6. Server \in Sockets /\ announce_profile.frame \in AnyFrame
  BY ProfileAnnouncementType DEF Sockets, Datagram
<1> HIDE DEF q
<1>7. NetType(net') /\ NetOK'
  BY <1>2, <1>3, <1>4, <1>5, <1>6, TransmitHeld
<1> QED
  BY <1>1, <1>2, <1>7 DEF RpcInv, ClientType, BusyOK, CalledOK, OkIsAnAnswer
-----------------------------------------------------------------------------
(***************************************************************************)
(* The steps of a client c.                                                *)
(***************************************************************************)

\* What a client sends is what it may send.
LEMMA CallOK ==
  ASSUME RpcInv, NEW c \in Clients, NEW r \in Asks[c], Call(c, r)
  PROVE  RpcInv'
<1>1. PICK t : t = next_ctid(c)
  OBVIOUS
<1>2. ctid \in [Clients -> 0..MaxCalls] /\ call \in [Clients -> AnyFrame]
      /\ given \in [Clients -> SUBSET AnyFrame]
  BY DEF RpcInv, ClientType
<1>3. t = ctid[c] + 1 /\ t \in 1..MaxCalls
  <2>1. ctid[c] \in Nat /\ ctid[c] < MaxCalls /\ MaxCalls \in Nat
        /\ MaxCalls < TidMod /\ TidMod \in Nat
    BY <1>2, ClientAssumption, ConstantsAssumption DEF Call
  <2>2. \A a, b \in Nat : a < b => a % b = a
    OBVIOUS
  <2>3. t = (ctid[c] + 1) % TidMod
    BY <1>1 DEF next_ctid
  <2>4. ctid[c] + 1 \in Nat /\ ctid[c] + 1 < TidMod /\ ctid[c] + 1 \in 1..MaxCalls
    BY ONLY <2>1
  <2>5. (ctid[c] + 1) % TidMod = ctid[c] + 1
    BY <2>1, <2>2, <2>4
  <2> QED
    BY <2>3, <2>4, <2>5
<1>4. PICK f : f = RequestFrame(t, r)
  OBVIOUS
<1>5. f \in AnyFrame /\ f.tid = t
  <2>1. r \in Requests
    BY RequestMade
  <2> QED
    BY <1>3, <1>4, <2>1, RequestAssumption, ArrivingAssumption DEF RequestFrame, setup_frame
<1>6. /\ ctid' = [ctid EXCEPT ![c] = t]
      /\ call' = [call EXCEPT ![c] = f]
      /\ Transmit(c, Server, f, net)
      /\ cpc' = [cpc EXCEPT ![c] = "wait"]
      /\ try' = [try EXCEPT ![c] = 1]
      /\ result' = [result EXCEPT ![c] = NoFrame]
      /\ given' = [given EXCEPT ![c] = {}]
      /\ runs' = [runs EXCEPT ![c] = 0]
      /\ born' = [born EXCEPT ![c] = kills]
      /\ UNCHANGED <<vars, kills>>
  BY <1>1, <1>4 DEF Call
<1>7. TInv'
  BY <1>6, TypeNext DEF RpcInv
<1>8. ClientType'
  BY <1>3, <1>5, <1>6, NoFrameType DEF RpcInv, ClientType, Retry
<1>9. ASSUME NEW b \in Clients, NEW g, IsRequest(b, g) PROVE IsRequest(b, g)'
  <2>1. CASE b = c
    <3>1. g.tid \in Nat
      BY <1>9 DEF IsRequest, RequestFrame, setup_frame
    <3>2. ctid'[b] = ctid[b] + 1 /\ ctid[b] \in Nat
      BY <1>2, <1>3, <1>6, <2>1
    <3>3. g.tid < ctid'[b]
      BY <1>9, <3>1, <3>2 DEF IsRequest
    <3> QED
      BY <1>9, <3>1, <3>2, <3>3 DEF IsRequest
  <2>2. CASE b # c
    BY <1>2, <1>6, <1>9, <2>2 DEF IsRequest
  <2> QED
    BY <2>1, <2>2
<1>10. ASSUME NEW b \in Clients, NEW g \in AnyFrame, IsAnswer(b, g)
       PROVE  IsAnswer(b, g)'
  <2>1. CASE b = c
    <3>1. g.tid \in Nat
      BY DEF AnyFrame
    <3>2. ctid'[b] = ctid[b] + 1 /\ ctid[b] \in Nat
      BY <1>2, <1>3, <1>6, <2>1
    <3>3. g.tid < ctid'[b]
      BY <1>10, <3>1, <3>2 DEF IsAnswer
    <3> QED
      BY <3>1, <3>2, <3>3 DEF IsAnswer
  <2>2. CASE b # c
    BY <1>2, <1>6, <1>10, <2>2 DEF IsAnswer
  <2> QED
    BY <2>1, <2>2
<1>11. ASSUME NEW h \in Sockets, NEW m \in Message, Held(h, m) PROVE Held(h, m)'
  <2>1. CASE h = Server
    BY <1>9, <1>11, <2>1 DEF Held
  <2>2. CASE h # Server
    BY <1>10, <1>11, <2>2 DEF Held, Sockets, Message
  <2> QED
    BY <2>1, <2>2
<1>12. \A h \in Receivers(Server) : Held(h, Msg(c, f))'
  <2>1. ctid'[c] = f.tid /\ call'[c] = f
    BY <1>2, <1>5, <1>6
  <2>2. f.tid \in Nat
    BY <1>3, <1>5
  <2>3. IsRequest(c, f)'
    BY <1>3, <1>4, <2>1, <2>2 DEF IsRequest
  <2>4. \A h \in Receivers(Server) : h = Server
    BY ClientAssumption, ConstantsAssumption DEF Receivers
  <2> QED
    BY <2>3, <2>4 DEF Held, Msg
<1>13. NetType(net') /\ NetOK'
  <2>1. c \in Sockets /\ NetType(net)
        /\ \A h \in Sockets : \A i \in 1..Len(net[h]) : Held(h, net[h][i])
    BY DEF Sockets, RpcInv, NetOK
  <2> QED
    BY <1>5, <1>6, <1>11, <1>12, <2>1, TransmitHeld
<1>14. BusyOK'
  BY <1>6, <1>9 DEF RpcInv, BusyOK, vars, IsRequest
<1>15. CalledOK'
  BY <1>2, <1>3, <1>4, <1>5, <1>6 DEF RpcInv, ClientType, CalledOK
<1>16. OkIsAnAnswer'
  BY <1>6 DEF RpcInv, ClientType, OkIsAnAnswer
<1> QED
  BY <1>7, <1>8, <1>13, <1>14, <1>15, <1>16 DEF RpcInv

LEMMA ResendOK ==
  ASSUME RpcInv, NEW c \in Clients, Resend(c)
  PROVE  RpcInv'
<1>1. /\ try' = [try EXCEPT ![c] = try[c] + 1]
      /\ Transmit(c, Server, call[c], net)
      /\ UNCHANGED <<vars, cpc, call, ctid, result, given, runs, kills, born>>
      /\ cpc[c] = "wait" /\ try[c] < Retry
  BY DEF Resend, SendAgain
<1>2. TInv'
  BY <1>1, TypeNext DEF RpcInv
<1>3. PICK f \in AnyFrame : f = call[c]
  BY DEF RpcInv, ClientType
<1>4. ClientType'
  BY <1>1 DEF RpcInv, ClientType, Retry
<1>5. \A h \in Sockets, m \in Message : Held(h, m) => Held(h, m)'
  BY <1>1, HeldStays
<1>6. \A h \in Receivers(Server) : Held(h, Msg(c, f))'
  <2>1. f.tid = ctid[c] /\ f.tid \in Nat
        /\ \E t \in 1..MaxCalls, r \in Asks[c] : f = RequestFrame(t, r)
    BY <1>1, <1>3 DEF RpcInv, CalledOK, AnyFrame
  <2>2. IsRequest(c, f)'
    BY <1>1, <1>3, <2>1 DEF IsRequest
  <2>3. \A h \in Receivers(Server) : h = Server
    BY ClientAssumption, ConstantsAssumption DEF Receivers
  <2> QED
    BY <2>2, <2>3 DEF Held, Msg
<1>7. NetType(net') /\ NetOK'
  <2>1. c \in Sockets /\ NetType(net) /\ Transmit(c, Server, f, net)
        /\ \A h \in Sockets : \A i \in 1..Len(net[h]) : Held(h, net[h][i])
    BY <1>1, <1>3 DEF Sockets, RpcInv, NetOK
  <2> QED
    BY <1>5, <1>6, <2>1, TransmitHeld
<1> QED
  BY <1>1, <1>2, <1>4, <1>7
  DEF RpcInv, BusyOK, vars, IsRequest, CalledOK, OkIsAnAnswer

\* A call that ends without an answer leaves everything but its outcome alone.
LEMMA EndOK ==
  ASSUME RpcInv, NEW c \in Clients, GiveUp(c) \/ Fail(c)
  PROVE  RpcInv'
<1>1. /\ \E e \in {"over", "error"} : cpc' = [cpc EXCEPT ![c] = e]
      /\ UNCHANGED <<vars, net, call, try, ctid, result, given, runs, kills, born>>
  BY DEF GiveUp, Fail
<1>2. TInv'
  BY <1>1, TypeNext DEF RpcInv
<1>3. ClientType'
  BY <1>1 DEF RpcInv, ClientType
<1>4. NetType(net') /\ NetOK'
  BY <1>1 DEF RpcInv, NetOK, Held, IsRequest, IsAnswer
<1>5. \A b \in Clients : b # c => cpc'[b] = cpc[b]
  BY <1>1 DEF RpcInv, ClientType
<1>6. cpc'[c] \in {"over", "error"} /\ cpc[c] # "idle"
  BY DEF GiveUp, Fail, RpcInv, ClientType
<1>7. CalledOK'
  BY <1>1, <1>5, <1>6 DEF RpcInv, CalledOK
<1> QED
  BY <1>1, <1>2, <1>3, <1>4, <1>5, <1>6, <1>7
  DEF RpcInv, BusyOK, vars, IsRequest, OkIsAnAnswer

\* The answer a client takes is one that was given to its present call: an
\* announcement does not match, and the number of an earlier call does not.
LEMMA TakeOK ==
  ASSUME RpcInv, NEW c \in Clients, NEW i \in Deliverable(c), Take(c, i)
  PROVE  RpcInv'
<1> DEFINE f == net[c][i].frame
<1>1. /\ cpc[c] = "wait"
      /\ IF unmarshal_frame_response(call[c], f)
         THEN cpc' = [cpc EXCEPT ![c] = "ok"] /\ result' = [result EXCEPT ![c] = f]
         ELSE UNCHANGED <<cpc, result>>
      /\ net' = [net EXCEPT ![c] = RemoveAt(@, i)]
      /\ UNCHANGED <<vars, call, try, ctid, given, runs, kills, born>>
  BY DEF Take
<1>2. TInv'
  BY <1>1, TypeNext DEF RpcInv
<1>3. c \in Sockets /\ c # Server /\ i \in 1..Len(net[c])
  BY ClientAssumption DEF Sockets, Deliverable, RpcInv, NetType
<1>4. net[c][i] \in Message /\ f \in AnyFrame /\ Held(c, net[c][i])
  <2>1. net[c] \in Seq(Message)
    BY <1>3 DEF RpcInv, NetType
  <2>2. net[c][i] \in Message
    BY <1>3, <2>1
  <2>3. f \in AnyFrame
    BY <2>2 DEF Message
  <2>4. Held(c, net[c][i])
    BY <1>3 DEF RpcInv, NetOK
  <2> QED
    BY <2>2, <2>3, <2>4
<1>5. NetType(net') /\ NetOK'
  BY <1>1, <1>3, RemoveHeld DEF RpcInv
<1>6. ClientType'
  BY <1>1, <1>4 DEF RpcInv, ClientType
<1>7. ASSUME unmarshal_frame_response(call[c], f) PROVE f \in given[c]
  <2>1. f.tid = ctid[c]
    BY <1>1, <1>7 DEF RpcInv, CalledOK, unmarshal_frame_response
  <2>2. call[c].esv \in RequestEsv \ {"INF_REQ"}
    <3>1. PICK t \in 1..MaxCalls, r \in Asks[c] : call[c] = RequestFrame(t, r)
      BY <1>1 DEF RpcInv, CalledOK
    <3>2. call[c].esv = r.esv
      BY <3>1 DEF RequestFrame, setup_frame
    <3> QED
      BY <3>2, RequestAssumption, RequestMade
  <2>3. f.esv # "INF"
    <3>1. LowNibble[call[c].esv] = LowNibble[f.esv]
      BY <1>7 DEF unmarshal_frame_response
    <3>2. LowNibble["INF"] = 3
      BY DEF LowNibble, Esv, ResponseEsv
    <3>3. \A e \in {"SetI", "SetC", "Get", "SetGet"} : LowNibble[e] # 3
      BY DEF LowNibble, Esv, RequestEsv
    <3>4. call[c].esv \in {"SetI", "SetC", "Get", "SetGet"}
      BY <2>2 DEF RequestEsv
    <3> QED
      BY <3>1, <3>2, <3>3, <3>4
  <2> QED
    BY <1>3, <1>4, <2>1, <2>3 DEF Held, IsAnswer
<1>8. OkIsAnAnswer'
  <2> SUFFICES ASSUME NEW b \in Clients, cpc'[b] = "ok"
               PROVE  result'[b] \in given[b]
    BY <1>1 DEF OkIsAnAnswer
  <2>1. CASE b = c /\ unmarshal_frame_response(call[c], f)
    BY <1>1, <1>7, <2>1 DEF RpcInv, ClientType
  <2>2. CASE b # c \/ ~unmarshal_frame_response(call[c], f)
    <3>1. cpc'[b] = cpc[b] /\ result'[b] = result[b]
      BY <1>1, <2>2 DEF RpcInv, ClientType
    <3> QED
      BY <3>1 DEF RpcInv, OkIsAnAnswer
  <2> QED
    BY <2>1, <2>2
<1>9. CalledOK'
  BY <1>1 DEF RpcInv, ClientType, CalledOK
<1>10. BusyOK'
  BY <1>1 DEF RpcInv, BusyOK, vars, IsRequest
<1> QED
  BY <1>2, <1>5, <1>6, <1>8, <1>9, <1>10 DEF RpcInv
-----------------------------------------------------------------------------
LEMMA RpcInvInit == RpcInit => RpcInv
<1> SUFFICES ASSUME RpcInit PROVE RpcInv
  OBVIOUS
<1>1. TInv
  BY TypeInit DEF RpcInit
<1>2. net \in [Sockets -> Seq(Message)] /\ \A h \in Sockets : net[h] = <<>>
  BY DEF RpcInit, Sockets
<1>3. NetType(net) /\ NetOK
  BY <1>2, ClientAssumption DEF NetType, NetOK
<1>4. ClientType
  BY NoFrameType, ClientAssumption DEF RpcInit, ClientType, Retry
<1> QED
  BY <1>1, <1>3, <1>4 DEF RpcInit, Init, RpcInv, BusyOK, CalledOK, OkIsAnAnswer

LEMMA RpcInvNext == RpcInv /\ [RpcNext]_allvars => RpcInv'
<1> SUFFICES ASSUME RpcInv, [RpcNext]_allvars PROVE RpcInv'
  OBVIOUS
<1>1. CASE ServerReceive \/ ServerStep \/ ServerDies \/ ServerRestarts
  BY <1>1, ServerReceiveOK, ServerStepOK, ServerDiesOK, ServerRestartsOK
<1>2. ASSUME NEW c \in Clients, NEW r \in Asks[c], Call(c, r) PROVE RpcInv'
  BY <1>2, CallOK
<1>3. ASSUME NEW c \in Clients, Waiting(c) \/ Fail(c) PROVE RpcInv'
  <2>1. CASE Resend(c)
    BY <2>1, ResendOK
  <2>2. CASE GiveUp(c) \/ Fail(c)
    BY <2>2, EndOK
  <2>3. ASSUME NEW i \in Deliverable(c), Take(c, i) PROVE RpcInv'
    BY <2>3, TakeOK
  <2> QED
    BY <1>3, <2>1, <2>2, <2>3 DEF Waiting
<1>4. CASE UNCHANGED allvars
  <2>1. TInv'
    <3>1. UNCHANGED vars
      BY <1>4 DEF allvars
    <3> QED
      BY <3>1, TypeNext DEF RpcInv
  <2> QED
    BY <1>4, <2>1 DEF allvars, cvars, vars, RpcInv, ClientType, NetOK, Held,
       IsRequest, IsAnswer, BusyOK, CalledOK, OkIsAnAnswer
<1> QED
  BY <1>1, <1>2, <1>3, <1>4 DEF RpcNext

\* The state of the clients, of the node and of the network between them always
\* has its type, whatever is lost, repeated or overtaken.
THEOREM RpcTypeCorrect == RpcSpec => []RpcTypeOK
<1>1. RpcInv => RpcTypeOK
  BY DEF RpcInv, TInv, NetType, ClientType, RpcTypeOK, Sockets, Message
<1> QED
  BY RpcInvInit, RpcInvNext, <1>1, PTL DEF RpcSpec

\* A call of mls_elnet_rpc that returns an answer returns one the node gave to this
\* very call, for any number of clients, calls, losses, copies and restarts.
THEOREM OkCorrect == RpcSpec => []OkIsAnAnswer
<1>1. RpcInv => OkIsAnAnswer
  BY DEF RpcInv
<1> QED
  BY RpcInvInit, RpcInvNext, <1>1, PTL DEF RpcSpec
-----------------------------------------------------------------------------
(***************************************************************************)
(* How often a request is carried out.                                     *)
(***************************************************************************)

\* The copies of a client's request that wait for the server, and the one it is
\* at work on.
Copies(c) == Cardinality(Places(net[Server], Msg(c, call[c])))
AtWork(c) == IF pc = "items" /\ from = c /\ req = call[c] THEN 1 ELSE 0

\* What the server did, does and will find in its queue of a call came of the
\* transmissions so far.
CopiesOK ==
  \A c \in Clients : runs[c] + AtWork(c) + Copies(c) <= MaxCopies * try[c]

RunsInv == RpcInv /\ CopiesOK

\* The queue of the server after some copies of the datagram m came to it.
Grown(q, m) ==
  \E new \in Seq(Message) : /\ net'[Server] = q[Server] \o new
                           /\ Len(new) <= MaxCopies
                           /\ \A i \in 1..Len(new) : new[i] = m

\* The server's queue gets MaxCopies more at the most.
LEMMA QueueGrows ==
  ASSUME NEW a \in Sockets, NEW to \in Clients \cup {Server, Group},
         NEW f \in AnyFrame, NEW q, NetType(q), Transmit(a, to, f, q)
  PROVE  Grown(q, Msg(a, f))
<1>1. PICK n \in [Receivers(to) -> 0..MaxCopies] :
        net' = [h \in DOMAIN q |->
                  IF h \in Receivers(to)
                  THEN q[h] \o [i \in 1..n[h] |-> Msg(a, f)]
                  ELSE q[h]]
  BY DEF Transmit
<1>2. Server \in DOMAIN q /\ q[Server] \in Seq(Message)
  BY DEF NetType, Sockets
<1>3. CASE Server \in Receivers(to)
  <2>1. PICK k \in Nat : k = n[Server] /\ k <= MaxCopies
    BY <1>3, ClientAssumption
  <2> DEFINE new == [i \in 1..k |-> Msg(a, f)]
  <2>2. Msg(a, f) \in Message
    BY DEF Msg, Message
  <2>3. new \in Seq(Message) /\ Len(new) = k /\ \A i \in 1..k : new[i] = Msg(a, f)
    BY <2>1, <2>2
  <2>4. net'[Server] = q[Server] \o new
    BY <1>1, <1>2, <1>3, <2>1
  <2> HIDE DEF new
  <2> QED
    BY <2>1, <2>3, <2>4 DEF Grown
<1>4. CASE Server \notin Receivers(to)
  <2>1. net'[Server] = q[Server]
    BY <1>1, <1>2, <1>4
  <2>2. q[Server] \o <<>> = q[Server]
    BY <1>2
  <2>3. <<>> \in Seq(Message) /\ Len(<<>>) = 0 /\ 0 <= MaxCopies
    BY ClientAssumption
  <2>4. \A i \in 1..0 : <<>>[i] = Msg(a, f)
    OBVIOUS
  <2> QED
    BY <2>1, <2>2, <2>3, <2>4 DEF Grown
<1> QED
  BY <1>3, <1>4

\* The numbers that CopiesOK adds.
LEMMA CopiesType ==
  ASSUME RpcInv, NEW c \in Clients
  PROVE  /\ runs[c] \in Nat /\ AtWork(c) \in {0, 1} /\ Copies(c) \in Nat
         /\ try[c] \in 0..3 /\ MaxCopies \in Nat /\ MaxCopies * try[c] \in Nat
         /\ net[Server] \in Seq(Message) /\ Server \in Sockets /\ c \in Sockets
<1>1. net[Server] \in Seq(Message) /\ Server \in Sockets /\ c \in Sockets
  BY DEF RpcInv, NetType, Sockets
<1>2. Copies(c) \in Nat
  BY <1>1, EmptySeq, PlacesAppended DEF Copies
<1>3. try[c] \in 0..3 /\ MaxCopies \in Nat /\ runs[c] \in Nat
  BY ClientAssumption DEF RpcInv, ClientType, Retry
<1>4. MaxCopies * try[c] \in Nat
  BY <1>3
<1> QED
  BY <1>1, <1>2, <1>3, <1>4 DEF AtWork

\* A step that sends nothing of c's and starts no work of its keeps its count.
LEMMA CountKept ==
  ASSUME RunsInv, NEW c \in Clients,
         runs'[c] \in Nat, runs'[c] + AtWork(c)' <= runs[c] + AtWork(c),
         Copies(c)' \in Nat, Copies(c)' <= Copies(c), try'[c] = try[c]
  PROVE  runs'[c] + AtWork(c)' + Copies(c)' <= MaxCopies * try'[c]
<1>1. runs[c] + AtWork(c) + Copies(c) <= MaxCopies * try[c]
  BY DEF RunsInv, CopiesOK
<1>2. /\ runs[c] \in Nat /\ AtWork(c) \in {0, 1} /\ Copies(c) \in Nat
      /\ MaxCopies * try[c] \in Nat
  BY CopiesType DEF RunsInv
<1>3. AtWork(c)' \in {0, 1}
  BY DEF AtWork
<1> QED
  BY <1>1, <1>2, <1>3

\* What others send is no copy of c's request.
LEMMA OthersSend ==
  ASSUME NEW a \in Sockets, NEW to \in Clients \cup {Server, Group},
         NEW f \in AnyFrame, NEW q, NetType(q), Transmit(a, to, f, q),
         NEW c, c # a, NEW g
  PROVE  Places(net'[Server], Msg(c, g)) = Places(q[Server], Msg(c, g))
<1>1. PICK new \in Seq(Message) :
        /\ net'[Server] = q[Server] \o new
        /\ Len(new) <= MaxCopies
        /\ \A i \in 1..Len(new) : new[i] = Msg(a, f)
  <2>1. Grown(q, Msg(a, f))
    BY QueueGrows
  <2> QED
    BY <2>1, Zenon DEF Grown
<1>2. q[Server] \in Seq(Message)
  BY DEF NetType, Sockets
<1>3. Msg(a, f) # Msg(c, g)
  BY DEF Msg
<1>4. \A i \in 1..Len(new) : new[i] # Msg(c, g)
  BY <1>1, <1>3
<1> QED
  <2>1. PICK s \in Seq(Message) : s = q[Server]
    BY <1>2
  <2>2. Places(s \o new, Msg(c, g)) = Places(s, Msg(c, g))
    BY <1>4, PlacesAppended
  <2> QED
    BY <1>1, <2>1, <2>2

\* What the server's queue holds after a transmission was there, or is what was sent.
Added(q, m) ==
  \A i \in 1..Len(net'[Server]) :
    \/ \E j \in 1..Len(q[Server]) : net'[Server][i] = q[Server][j]
    \/ net'[Server][i] = m

LEMMA SentToServer ==
  ASSUME NEW a \in Sockets, NEW to \in Clients \cup {Server, Group},
         NEW f \in AnyFrame, NEW q, NetType(q), Transmit(a, to, f, q)
  PROVE  Added(q, Msg(a, f))
<1>1. PICK new \in Seq(Message) :
        /\ net'[Server] = q[Server] \o new
        /\ Len(new) <= MaxCopies
        /\ \A i \in 1..Len(new) : new[i] = Msg(a, f)
  <2>1. Grown(q, Msg(a, f))
    BY QueueGrows
  <2> QED
    BY <2>1, Zenon DEF Grown
<1>2. PICK s \in Seq(Message) : s = q[Server]
  BY DEF NetType, Sockets
<1>3. \A i \in 1..Len(s \o new) :
        \/ \E j \in 1..Len(s) : (s \o new)[i] = s[j]
        \/ \E j \in 1..Len(new) : (s \o new)[i] = new[j]
  BY ConcatElements
<1> QED
  BY <1>1, <1>2, <1>3 DEF Added

LEMMA ReceiveCounts == RunsInv /\ ServerReceive => CopiesOK'
<1> SUFFICES ASSUME RunsInv, ServerReceive, NEW c \in Clients
             PROVE  runs'[c] + AtWork(c)' + Copies(c)' <= MaxCopies * try'[c]
  BY DEF CopiesOK
<1>1. PICK i \in Deliverable(Server) :
        LET m == net[Server][i]
        IN  /\ Ignore(m.from, m.frame) \/ Receive(m.from, m.frame)
            /\ net' = [net EXCEPT ![Server] = RemoveAt(@, i)]
            /\ UNCHANGED <<cvars, given, runs, kills, born>>
  BY DEF ServerReceive
<1>2. /\ runs[c] \in Nat /\ Copies(c) \in Nat /\ net[Server] \in Seq(Message)
      /\ i \in 1..Len(net[Server])
  BY <1>1, CopiesType DEF RunsInv, Deliverable
<1>3. PICK q \in Seq(Message), m \in Message :
        q = net[Server] /\ m = net[Server][i] /\ i \in 1..Len(q)
  BY <1>2
<1>4. PICK g : g = Msg(c, call[c])
  OBVIOUS
<1>5. UNCHANGED <<call, try, runs>> /\ net'[Server] = RemoveAt(q, i)
  BY <1>1, <1>3 DEF cvars, RunsInv, RpcInv, NetType, Sockets
<1>6. /\ Cardinality(Places(RemoveAt(q, i), g)) \in Nat
      /\ Cardinality(Places(RemoveAt(q, i), g)) <= Cardinality(Places(q, g))
      /\ q[i] = g => Cardinality(Places(RemoveAt(q, i), g)) + 1 <= Cardinality(Places(q, g))
  BY <1>3, PlacesRemoved
<1>7. Copies(c) = Cardinality(Places(q, g))
      /\ Copies(c)' = Cardinality(Places(RemoveAt(q, i), g))
  BY <1>3, <1>4, <1>5 DEF Copies
<1>8. AtWork(c) = 0
  BY <1>1 DEF AtWork, Ignore, Receive
<1>9. CASE AtWork(c)' = 0
  BY <1>2, <1>5, <1>6, <1>7, <1>8, <1>9, CountKept
<1>10. CASE AtWork(c)' # 0
  <2>1. from' = c /\ req' = call[c] /\ from' = m.from /\ req' = m.frame
    BY <1>1, <1>3, <1>5, <1>10 DEF AtWork, Ignore, Receive
  <2>2. q[i] = g
    BY <1>3, <1>4, <2>1 DEF Msg, Message
  <2>3. Copies(c)' \in Nat /\ Copies(c)' + 1 <= Copies(c) /\ AtWork(c)' = 1
    BY <1>6, <1>7, <1>10, <2>2 DEF AtWork
  <2>4. PICK k \in Nat : /\ k = MaxCopies * try[c] /\ k = MaxCopies * try'[c]
                         /\ runs[c] + AtWork(c) + Copies(c) <= k
    BY <1>5, CopiesType DEF RunsInv, CopiesOK
  <2>5. runs'[c] = runs[c]
    BY <1>5
  <2>6. \A a, b, d \in Nat : a + 0 + b <= k /\ d + 1 <= b => a + 1 + d <= k
    OBVIOUS
  <2>7. runs'[c] + AtWork(c)' + Copies(c)' <= k
    BY <1>2, <1>8, <2>3, <2>4, <2>5, <2>6, Zenon
  <2> QED
    BY <2>4, <2>7
<1> QED
  BY <1>9, <1>10

LEMMA StepCounts == RunsInv /\ ServerStep => CopiesOK'
<1> SUFFICES ASSUME RunsInv, ServerStep, NEW c \in Clients
             PROVE  runs'[c] + AtWork(c)' + Copies(c)' <= MaxCopies * try'[c]
  BY DEF CopiesOK
<1> DEFINE d == out'[Len(out')]
           finished == (Silent \/ Reply) /\ from \in Clients
<1>1. /\ Handle
      /\ IF Sends THEN Transmit(Server, d.to, d.frame, net) ELSE UNCHANGED net
      /\ runs' = IF finished /\ req = call[from]
                 THEN [runs EXCEPT ![from] = @ + 1] ELSE runs
      /\ UNCHANGED <<call, try>>
  BY DEF ServerStep, cvars
<1>2. /\ runs[c] \in Nat /\ Copies(c) \in Nat /\ AtWork(c) \in {0, 1}
      /\ Server \in Sockets /\ runs \in [Clients -> Nat]
  BY CopiesType DEF RunsInv, RpcInv, ClientType
<1>3. Copies(c)' = Copies(c)
  <2>1. CASE ~Sends
    BY <1>1, <2>1 DEF Copies
  <2>2. CASE Sends
    <3>1. /\ pc = "items"
          /\ \/ d.to = Group
             \/ d.to = from
      BY <1>1, <2>2, HandlerSends DEF RunsInv
    <3>2. from \in Clients
      BY <3>1 DEF RunsInv, RpcInv, BusyOK
    <3>3. d \in Datagram
      <4>1. TInv'
        BY <1>1, TypeNext DEF RunsInv, RpcInv, Next
      <4>2. out \in Seq(Datagram) /\ out' \in Seq(Datagram)
        BY <4>1 DEF RunsInv, RpcInv, TInv, TypeOK
      <4> QED
        BY <2>2, <4>2 DEF Sends
    <3>4. PICK to \in Clients \cup {Server, Group}, f \in AnyFrame :
            to = d.to /\ f = d.frame
      BY <3>1, <3>2, <3>3 DEF Datagram
    <3>5. Transmit(Server, to, f, net) /\ c # Server /\ NetType(net)
      BY <1>1, <2>2, <3>4, ClientAssumption DEF RunsInv, RpcInv
    <3>6. ASSUME NEW g
          PROVE  Places(net'[Server], Msg(c, g)) = Places(net[Server], Msg(c, g))
      BY <1>2, <3>5, OthersSend
    <3> QED
      BY <1>1, <3>6 DEF Copies
  <2> QED
    BY <2>1, <2>2
<1>4. runs'[c] \in Nat /\ runs'[c] + AtWork(c)' <= runs[c] + AtWork(c)
  <2>1. AtWork(c)' = 1 => AtWork(c) = 1
    BY <1>1, HandlerKeepsRequest DEF AtWork
  <2>2. AtWork(c)' \in {0, 1}
    BY DEF AtWork
  <2>3. CASE finished /\ req = call[from] /\ from = c
    <3>1. pc = "items" /\ pc' = "done"
      BY <2>3 DEF Silent, Reply, Answer, ItemsDone
    <3>2. AtWork(c) = 1 /\ AtWork(c)' = 0
      BY <2>3, <3>1 DEF AtWork
    <3>3. runs'[c] = runs[c] + 1
      BY <1>1, <1>2, <2>3
    <3> QED
      BY <1>2, <3>2, <3>3
  <2>4. CASE ~(finished /\ req = call[from] /\ from = c)
    <3>1. runs'[c] = runs[c]
      BY <1>1, <1>2, <2>4
    <3> QED
      BY <1>2, <2>1, <2>2, <3>1
  <2> QED
    BY <2>3, <2>4
<1> QED
  BY <1>1, <1>2, <1>3, <1>4, CountKept

LEMMA DiesCounts == RunsInv /\ ServerDies => CopiesOK'
<1> SUFFICES ASSUME RunsInv, ServerDies, NEW c \in Clients
             PROVE  runs'[c] + AtWork(c)' + Copies(c)' <= MaxCopies * try'[c]
  BY DEF CopiesOK
<1>1. UNCHANGED <<call, try, runs, net>> /\ pc' = "dead"
  BY DEF ServerDies, cvars, Kill, Gone
<1>2. Copies(c)' = Copies(c) /\ AtWork(c)' = 0
  BY <1>1 DEF Copies, AtWork
<1>3. runs[c] \in Nat /\ AtWork(c) \in {0, 1} /\ Copies(c) \in Nat
  BY CopiesType DEF RunsInv
<1> QED
  BY <1>1, <1>2, <1>3, CountKept

\* The new process has an empty queue.
LEMMA RestartCounts == RunsInv /\ ServerRestarts => CopiesOK'
<1> SUFFICES ASSUME RunsInv, ServerRestarts, NEW c \in Clients
             PROVE  runs'[c] + AtWork(c)' + Copies(c)' <= MaxCopies * try'[c]
  BY DEF CopiesOK
<1> DEFINE q == [net EXCEPT ![Server] = <<>>]
<1>1. /\ UNCHANGED <<call, try, runs>> /\ pc' = "done"
      /\ Transmit(Server, Group, announce_profile.frame, q)
  BY DEF ServerRestarts, cvars, Restart
<1>2. NetType(q) /\ q[Server] = <<>>
  <2>1. <<>> \in Seq(Message) /\ Len(<<>>) = 0 /\ 0 <= Capacity
    BY ClientAssumption
  <2>2. q \in [Sockets -> Seq(Message)] /\ Server \in Sockets
        /\ \A h \in Sockets : q[h] = IF h = Server THEN <<>> ELSE net[h]
    BY <2>1 DEF RunsInv, RpcInv, NetType, Sockets
  <2> HIDE DEF q
  <2>3. \A h \in Sockets : Len(q[h]) <= Capacity
    BY <2>1, <2>2 DEF RunsInv, RpcInv, NetType
  <2> QED
    BY <2>2, <2>3 DEF NetType
<1>3. Server \in Sockets /\ announce_profile.frame \in AnyFrame /\ c # Server
  BY ProfileAnnouncementType, ClientAssumption DEF Sockets, Datagram
<1> HIDE DEF q
<1>4. Places(net'[Server], Msg(c, call[c])) = Places(<<>>, Msg(c, call[c]))
  BY <1>1, <1>2, <1>3, OthersSend
<1>5. Places(<<>>, Msg(c, call[c])) = {}
  BY DEF Places
<1>6. Copies(c)' = 0
  BY <1>1, <1>4, <1>5, FS_EmptySet DEF Copies
<1>7. AtWork(c)' = 0 /\ runs[c] \in Nat /\ AtWork(c) \in {0, 1} /\ Copies(c) \in Nat
  BY <1>1, CopiesType DEF AtWork, RunsInv
<1> QED
  BY <1>1, <1>6, <1>7, CountKept

\* A client's transmission makes MaxCopies more of its request at the most, and none
\* of another's.
LEMMA SendCounts ==
  ASSUME RunsInv, NEW c \in Clients, NEW f \in AnyFrame, Transmit(c, Server, f, net),
         call'[c] = f, \A b \in Clients : b # c => call'[b] = call[b]
  PROVE  /\ Copies(c)' \in Nat
         /\ Copies(c)' <= Cardinality(Places(net[Server], Msg(c, f))) + MaxCopies
         /\ \A b \in Clients : b # c => Copies(b)' = Copies(b)
<1>1. net[Server] \in Seq(Message) /\ c \in Sockets /\ NetType(net) /\ MaxCopies \in Nat
  BY CopiesType DEF RunsInv, RpcInv
<1>2. Grown(net, Msg(c, f))
  BY <1>1, QueueGrows
<1>3. PICK new \in Seq(Message) :
        /\ net'[Server] = net[Server] \o new
        /\ Len(new) <= MaxCopies
        /\ \A i \in 1..Len(new) : new[i] = Msg(c, f)
  BY <1>2, Zenon DEF Grown
<1>4. PICK q \in Seq(Message) : q = net[Server]
  BY <1>1
<1>5. /\ Cardinality(Places(q, Msg(c, f))) \in Nat
      /\ Cardinality(Places(q \o new, Msg(c, f))) \in Nat
      /\ Cardinality(Places(q \o new, Msg(c, f))) <= Cardinality(Places(q, Msg(c, f))) + Len(new)
  BY PlacesAppended
<1>6. Len(new) \in Nat
  OBVIOUS
<1>7. Copies(c)' = Cardinality(Places(q \o new, Msg(c, f)))
  BY <1>3, <1>4 DEF Copies
<1>8. ASSUME NEW b \in Clients, b # c PROVE Copies(b)' = Copies(b)
  <2>1. \A i \in 1..Len(new) : new[i] # Msg(b, call[b])
    BY <1>3, <1>8 DEF Msg
  <2>2. Places(q \o new, Msg(b, call[b])) = Places(q, Msg(b, call[b]))
    BY <2>1, PlacesAppended
  <2> QED
    BY <1>3, <1>4, <1>8, <2>2 DEF Copies
<1> QED
  BY <1>1, <1>3, <1>4, <1>5, <1>6, <1>7, <1>8

\* A new call's request is nowhere yet.
LEMMA CallCounts ==
  ASSUME RunsInv, NEW c \in Clients, NEW r \in Asks[c], Call(c, r)
  PROVE  CopiesOK'
<1>1. PICK f : f = RequestFrame(next_ctid(c), r)
  OBVIOUS
<1>2. /\ ctid' = [ctid EXCEPT ![c] = next_ctid(c)]
      /\ call' = [call EXCEPT ![c] = f]
      /\ Transmit(c, Server, f, net)
      /\ try' = [try EXCEPT ![c] = 1]
      /\ runs' = [runs EXCEPT ![c] = 0]
      /\ UNCHANGED vars
  BY <1>1 DEF Call
<1>3. RpcInv'
  BY CallOK DEF RunsInv
<1>4. /\ ctid[c] \in Nat /\ ctid'[c] = ctid[c] + 1 /\ f.tid = ctid'[c]
      /\ f \in AnyFrame /\ call'[c] = f
  <2>1. /\ ctid[c] \in Nat /\ ctid[c] < MaxCalls /\ MaxCalls \in Nat
        /\ MaxCalls < TidMod /\ TidMod \in Nat
        /\ ctid'[c] = next_ctid(c) /\ call'[c] = f
    BY <1>2, ClientAssumption, ConstantsAssumption DEF Call, RunsInv, RpcInv, ClientType
  <2>2. \A a, b \in Nat : a < b => a % b = a
    OBVIOUS
  <2>3. next_ctid(c) = ctid[c] + 1
    BY <2>1, <2>2 DEF next_ctid
  <2>4. f \in AnyFrame
    BY <1>3, <2>1 DEF RpcInv, ClientType
  <2> QED
    BY <1>1, <2>1, <2>3, <2>4 DEF RequestFrame, setup_frame
<1>5. ~IsRequest(c, f)
  BY <1>4 DEF IsRequest
<1>6. Places(net[Server], Msg(c, f)) = {}
  <2> SUFFICES ASSUME NEW i \in 1..Len(net[Server]), net[Server][i] = Msg(c, f) PROVE FALSE
    BY DEF Places
  <2>1. Held(Server, net[Server][i])
    BY DEF RunsInv, RpcInv, NetOK, Sockets
  <2> QED
    BY <1>5, <2>1, ClientAssumption DEF Held, Msg
<1>7. /\ Copies(c)' \in Nat /\ Copies(c)' <= MaxCopies
      /\ \A b \in Clients : b # c => Copies(b)' = Copies(b)
  <2>1. \A b \in Clients : b # c => call'[b] = call[b]
    BY <1>2
  <2>2. /\ Copies(c)' \in Nat
        /\ Copies(c)' <= Cardinality(Places(net[Server], Msg(c, f))) + MaxCopies
        /\ \A b \in Clients : b # c => Copies(b)' = Copies(b)
    BY <1>2, <1>4, <2>1, SendCounts
  <2> QED
    BY <1>6, <2>2, FS_EmptySet, ClientAssumption
<1>8. AtWork(c)' = 0
  BY <1>2, <1>4, <1>5 DEF AtWork, vars, RunsInv, RpcInv, BusyOK
<1>9. runs'[c] = 0 /\ try'[c] = 1 /\ MaxCopies \in Nat
  BY <1>2, ClientAssumption DEF RunsInv, RpcInv, ClientType
<1> SUFFICES ASSUME NEW b \in Clients
             PROVE  runs'[b] + AtWork(b)' + Copies(b)' <= MaxCopies * try'[b]
  BY DEF CopiesOK
<1>10. CASE b = c
  BY <1>7, <1>8, <1>9, <1>10
<1>11. CASE b # c
  <2>1. runs'[b] = runs[b] /\ try'[b] = try[b] /\ AtWork(b)' = AtWork(b)
    BY <1>2, <1>11 DEF RunsInv, RpcInv, ClientType, AtWork, vars
  <2>2. runs[b] \in Nat /\ AtWork(b) \in {0, 1} /\ Copies(b) \in Nat
    BY CopiesType DEF RunsInv
  <2> QED
    BY <1>7, <1>11, <2>1, <2>2, CountKept
<1> QED
  BY <1>10, <1>11

LEMMA ResendCounts ==
  ASSUME RunsInv, NEW c \in Clients, Resend(c)
  PROVE  CopiesOK'
<1>1. /\ try' = [try EXCEPT ![c] = try[c] + 1]
      /\ Transmit(c, Server, call[c], net)
      /\ UNCHANGED <<vars, call, runs>>
  BY DEF Resend, SendAgain
<1>2. PICK f \in AnyFrame : f = call[c] /\ call'[c] = f
  BY <1>1 DEF RunsInv, RpcInv, ClientType
<1>3. /\ Copies(c)' \in Nat /\ Copies(c)' <= Copies(c) + MaxCopies
      /\ \A b \in Clients : b # c => Copies(b)' = Copies(b)
  <2>1. /\ Copies(c)' \in Nat
        /\ Copies(c)' <= Cardinality(Places(net[Server], Msg(c, f))) + MaxCopies
        /\ \A b \in Clients : b # c => Copies(b)' = Copies(b)
    BY <1>1, <1>2, SendCounts
  <2> QED
    BY <1>2, <2>1 DEF Copies
<1> SUFFICES ASSUME NEW b \in Clients
             PROVE  runs'[b] + AtWork(b)' + Copies(b)' <= MaxCopies * try'[b]
  BY DEF CopiesOK
<1>4. /\ runs[b] \in Nat /\ AtWork(b) \in {0, 1} /\ Copies(b) \in Nat
      /\ try[b] \in 0..3 /\ MaxCopies \in Nat /\ MaxCopies * try[b] \in Nat
      /\ runs[b] + AtWork(b) + Copies(b) <= MaxCopies * try[b]
  BY CopiesType DEF RunsInv, CopiesOK
<1>5. runs'[b] = runs[b] /\ AtWork(b)' = AtWork(b)
  BY <1>1 DEF AtWork, vars
<1>6. CASE b = c
  <2>1. try'[b] = try[b] + 1
    BY <1>1, <1>6 DEF RunsInv, RpcInv, ClientType
  <2>2. \A m, n \in Nat : m * (n + 1) = m * n + m
    OBVIOUS
  <2>3. MaxCopies * try'[b] = MaxCopies * try[b] + MaxCopies
    BY <1>4, <2>1, <2>2
  <2> QED
    BY <1>3, <1>4, <1>5, <1>6, <2>3
<1>7. CASE b # c
  <2>1. try'[b] = try[b]
    BY <1>1, <1>7 DEF RunsInv, RpcInv, ClientType
  <2> QED
    BY <1>3, <1>4, <1>5, <1>7, <2>1
<1> QED
  BY <1>6, <1>7

\* A client's other steps leave the server and its queue alone.
LEMMA RestCounts ==
  ASSUME RunsInv, NEW c \in Clients,
         GiveUp(c) \/ Fail(c) \/ \E i \in Deliverable(c) : Take(c, i)
  PROVE  CopiesOK'
<1>1. UNCHANGED <<vars, call, try, runs>> /\ net'[Server] = net[Server]
  <2>1. CASE GiveUp(c) \/ Fail(c)
    BY <2>1 DEF GiveUp, Fail
  <2>2. CASE \E i \in Deliverable(c) : Take(c, i)
    BY <2>2, ClientAssumption DEF Take, RunsInv, RpcInv, NetType, Sockets
  <2> QED
    BY <2>1, <2>2
<1> QED
  BY <1>1 DEF RunsInv, CopiesOK, Copies, AtWork, vars

LEMMA RunsInit == RpcInit => RunsInv
<1> SUFFICES ASSUME RpcInit PROVE RunsInv
  OBVIOUS
<1>1. RpcInv
  BY RpcInvInit
<1>2. ASSUME NEW c \in Clients PROVE runs[c] + AtWork(c) + Copies(c) <= MaxCopies * try[c]
  <2>1. runs[c] = 0 /\ try[c] = 0 /\ net[Server] = <<>> /\ pc = "done"
    BY DEF RpcInit, Init
  <2>2. AtWork(c) = 0
    BY <2>1 DEF AtWork
  <2>3. Places(net[Server], Msg(c, call[c])) = {}
    BY <2>1 DEF Places
  <2>4. Copies(c) = 0
    BY <2>3, FS_EmptySet DEF Copies
  <2> QED
    BY <2>1, <2>2, <2>4, ClientAssumption
<1> QED
  BY <1>1, <1>2 DEF RunsInv, CopiesOK

LEMMA RunsNext == RunsInv /\ [RpcNext]_allvars => RunsInv'
<1> SUFFICES ASSUME RunsInv, [RpcNext]_allvars PROVE RunsInv'
  OBVIOUS
<1>1. RpcInv'
  BY RpcInvNext DEF RunsInv
<1>2. CASE ServerReceive \/ ServerStep \/ ServerDies \/ ServerRestarts
  BY <1>1, <1>2, ReceiveCounts, StepCounts, DiesCounts, RestartCounts DEF RunsInv
<1>3. ASSUME NEW c \in Clients, NEW r \in Asks[c], Call(c, r) PROVE RunsInv'
  BY <1>1, <1>3, CallCounts DEF RunsInv
<1>4. ASSUME NEW c \in Clients, Waiting(c) \/ Fail(c) PROVE RunsInv'
  <2>1. CASE Resend(c)
    BY <1>1, <2>1, ResendCounts DEF RunsInv
  <2>2. CASE GiveUp(c) \/ Fail(c) \/ \E i \in Deliverable(c) : Take(c, i)
    BY <1>1, <2>2, RestCounts DEF RunsInv
  <2> QED
    BY <1>4, <2>1, <2>2 DEF Waiting
<1>5. CASE UNCHANGED allvars
  <2>1. UNCHANGED <<pc, from, req, net, call, try, runs>>
    BY <1>5 DEF allvars, vars, cvars
  <2> QED
    BY <1>1, <2>1 DEF RunsInv, CopiesOK, Copies, AtWork
<1> QED
  BY <1>2, <1>3, <1>4, <1>5 DEF RpcNext

\* RunsAreBounded, for any number of clients, calls, copies and restarts: a call's
\* request is carried out as often as its three transmissions arrive, at the most.
THEOREM RunsCorrect == RpcSpec => []RunsAreBounded
<1>1. RunsInv => RunsAreBounded
  <2> SUFFICES ASSUME RunsInv, NEW c \in Clients PROVE runs[c] <= MaxCopies * Retry
    BY DEF RunsAreBounded
  <2>1. /\ runs[c] \in Nat /\ AtWork(c) \in {0, 1} /\ Copies(c) \in Nat
        /\ try[c] \in 0..3 /\ MaxCopies \in Nat
        /\ runs[c] + AtWork(c) + Copies(c) <= MaxCopies * try[c]
    BY CopiesType DEF RunsInv, CopiesOK
  <2>2. MaxCopies * try[c] <= MaxCopies * 3
    BY <2>1
  <2> QED
    BY <2>1, <2>2 DEF Retry
<1> QED
  BY RunsInit, RunsNext, <1>1, PTL DEF RpcSpec
-----------------------------------------------------------------------------
(***************************************************************************)
(* Clients with properties of their own, whose datagrams keep their order: *)
(* what was acknowledged is there to stay.                                 *)
(***************************************************************************)

\* The requests in a queue: each client's in the order of its calls; those of c none
\* older than t, none younger, all of them f.
InOrder(q) ==
  \A i, j \in 1..Len(q) :
    i < j /\ q[i].from \in Clients /\ q[j].from = q[i].from =>
      q[i].frame.tid <= q[j].frame.tid
AtLeast(q, c, t) == \A i \in 1..Len(q) : q[i].from = c => t <= q[i].frame.tid
AtMost(q, c, t) == \A i \in 1..Len(q) : q[i].from = c => q[i].frame.tid <= t
OnlyOf(q, c, f) == \A i \in 1..Len(q) : q[i].from = c => q[i].frame = f

\* The first n items of the set f are stored.
Stored(f, n) ==
  \A i \in 1..n : store[f.deoj][f.items[i].epc] = f.items[i].edt

\* The server starts a handler with nothing done.
FreshOK == pc = "recv" => idx = 1 /\ ret = 0

NumberOK == \A c \in Clients : call[c].tid = ctid[c]

\* Requests come in the order of their calls.
OrderOK == InOrder(net[Server]) /\ (pc = "items" => AtLeast(net[Server], from, req.tid))

\* When the server has answered a call, nothing is left of the calls before it.
SeenOK ==
  \A c \in Clients : given[c] # {} =>
    OnlyOf(net[Server], c, call[c]) /\ (pc = "items" /\ from = c => req = call[c])

\* What the server has found right so far is stored, and so is what it acknowledged
\* to a call that began in its life.
PartOK == pc = "items" /\ req.esv \in SetEsv /\ ret = 0 => Stored(req, idx - 1)
GivenOK ==
  \A c \in Clients : (\E f \in given[c] : f.esv = "Set_Res") =>
    /\ call[c].esv \in SetEsv
    /\ \E t \in 1..MaxCalls, r \in Asks[c] : call[c] = RequestFrame(t, r)
    /\ born[c] = kills => Stored(call[c], call[c].opc)

\* A call is no younger than the process; a dead one has answered none that began
\* after its death.
BornOK ==
  \A c \in Clients : /\ born[c] <= kills
                     /\ pc = "dead" /\ born[c] = kills => given[c] = {}

LoneInv ==
  /\ RpcInv /\ FreshOK /\ NumberOK /\ OrderOK /\ SeenOK
  /\ PartOK /\ GivenOK /\ BornOK

\* Copies of m at the end of a queue keep its order if m is no older than the rest.
LEMMA OrderAppended ==
  ASSUME NEW q \in Seq(Message), NEW new \in Seq(Message), NEW m \in Message,
         \A i \in 1..Len(new) : new[i] = m
  PROVE  /\ InOrder(q) /\ (m.from \in Clients => AtMost(q, m.from, m.frame.tid))
              => InOrder(q \o new)
         /\ \A c, t : AtLeast(q, c, t) /\ (m.from = c => t <= m.frame.tid)
              => AtLeast(q \o new, c, t)
         /\ \A c, f : OnlyOf(q, c, f) /\ (m.from = c => m.frame = f)
              => OnlyOf(q \o new, c, f)
<1>1. Len(q) \in Nat /\ Len(new) \in Nat
  OBVIOUS
<1>2. /\ Len(q \o new) = Len(q) + Len(new)
      /\ \A i \in 1..(Len(q) + Len(new)) :
           (q \o new)[i] = IF i <= Len(q) THEN q[i] ELSE new[i - Len(q)]
  BY ConcatProperties
<1>3. PICK r : r = q \o new
  OBVIOUS
<1>4. \A i \in 1..Len(r) : \/ i \in 1..Len(q) /\ r[i] = q[i]
                           \/ ~(i <= Len(q)) /\ r[i] = m
  <2> SUFFICES ASSUME NEW i \in 1..Len(r)
               PROVE  \/ i \in 1..Len(q) /\ r[i] = q[i]
                      \/ ~(i <= Len(q)) /\ r[i] = m
    OBVIOUS
  <2>1. CASE i <= Len(q)
    BY <1>1, <1>2, <1>3, <2>1
  <2>2. CASE ~(i <= Len(q))
    <3>1. i - Len(q) \in 1..Len(new) /\ i \in 1..(Len(q) + Len(new))
      BY <1>1, <1>2, <1>3, <2>2
    <3> QED
      BY <1>2, <1>3, <2>2, <3>1
  <2> QED
    BY <2>1, <2>2
<1>5. m.frame.tid \in Nat
  BY DEF Message, AnyFrame
<1>6. ASSUME InOrder(q), m.from \in Clients => AtMost(q, m.from, m.frame.tid),
             NEW i \in 1..Len(r), NEW j \in 1..Len(r), i < j,
             r[i].from \in Clients, r[j].from = r[i].from
      PROVE  r[i].frame.tid <= r[j].frame.tid
  <2>1. CASE j \in 1..Len(q) /\ r[j] = q[j]
    <3>1. i \in 1..Len(q) /\ r[i] = q[i]
      BY <1>1, <1>4, <1>6, <2>1
    <3> QED
      BY <1>6, <2>1, <3>1 DEF InOrder
  <2>2. CASE r[j] = m
    BY <1>4, <1>5, <1>6, <2>2 DEF AtMost
  <2> QED
    BY <1>4, <2>1, <2>2
<1>7. \A c, t : AtLeast(q, c, t) /\ (m.from = c => t <= m.frame.tid) => AtLeast(r, c, t)
  BY <1>4 DEF AtLeast
<1>8. \A c, f : OnlyOf(q, c, f) /\ (m.from = c => m.frame = f) => OnlyOf(r, c, f)
  BY <1>4 DEF OnlyOf
<1> QED
  BY <1>3, <1>6, <1>7, <1>8 DEF InOrder

\* What follows the first of a queue is in order, too, and no older than it.
LEMMA OrderRemoved ==
  ASSUME NEW q \in Seq(Message), 1 \in 1..Len(q)
  PROVE  /\ InOrder(q) => InOrder(RemoveAt(q, 1))
         /\ InOrder(q) /\ q[1].from \in Clients =>
              AtLeast(RemoveAt(q, 1), q[1].from, q[1].frame.tid)
         /\ \A c, f : OnlyOf(q, c, f) => OnlyOf(RemoveAt(q, 1), c, f)
<1>1. /\ RemoveAt(q, 1) \in Seq(Message)
      /\ Len(RemoveAt(q, 1)) = Len(q) - 1
      /\ \A j \in 1..(Len(q) - 1) :
           RemoveAt(q, 1)[j] = IF j < 1 THEN q[j] ELSE q[j + 1]
  BY RemoveAtProperties
<1>2. PICK r \in Seq(Message) : r = RemoveAt(q, 1)
  BY <1>1
<1>3. Len(q) \in Nat /\ Len(r) = Len(q) - 1
  BY <1>1, <1>2
<1>4. \A j \in 1..Len(r) : j \in Nat /\ j + 1 \in 1..Len(q) /\ 1 < j + 1 /\ r[j] = q[j + 1]
  BY <1>1, <1>2, <1>3
<1>5. InOrder(q) => InOrder(r)
  <2> SUFFICES ASSUME InOrder(q), NEW i \in 1..Len(r), NEW j \in 1..Len(r), i < j,
                      r[i].from \in Clients, r[j].from = r[i].from
               PROVE  r[i].frame.tid <= r[j].frame.tid
    BY DEF InOrder
  <2>1. i + 1 < j + 1
    BY <1>4
  <2> QED
    BY <1>4, <2>1 DEF InOrder
<1>6. InOrder(q) /\ q[1].from \in Clients => AtLeast(r, q[1].from, q[1].frame.tid)
  BY <1>4 DEF InOrder, AtLeast
<1>7. \A c, f : OnlyOf(q, c, f) => OnlyOf(r, c, f)
  BY <1>4 DEF OnlyOf
<1> QED
  BY <1>2, <1>5, <1>6, <1>7

\* A request is no younger than its client's last call; of that call, it is the
\* request the client has made.
LEMMA QueueOfClient ==
  ASSUME LoneInv, NEW c \in Clients
  PROVE  /\ AtMost(net[Server], c, ctid[c])
         /\ AtLeast(net[Server], c, ctid[c]) => OnlyOf(net[Server], c, call[c])
         /\ net[Server] \in Seq(Message) /\ Server \in Sockets /\ c \in Sockets
         /\ ctid[c] \in Nat /\ call[c] \in AnyFrame /\ call[c].tid = ctid[c]
<1>1. net[Server] \in Seq(Message) /\ Server \in Sockets /\ c \in Sockets
  BY DEF LoneInv, RpcInv, NetType, Sockets
<1>2. ctid[c] \in Nat /\ call[c] \in AnyFrame /\ call[c].tid = ctid[c]
  BY ClientAssumption DEF LoneInv, RpcInv, ClientType, NumberOK
<1>3. ASSUME NEW i \in 1..Len(net[Server]), net[Server][i].from = c
      PROVE  /\ net[Server][i].frame.tid <= ctid[c]
             /\ net[Server][i].frame.tid = ctid[c] => net[Server][i].frame = call[c]
             /\ net[Server][i].frame.tid \in Nat
  <2>1. Held(Server, net[Server][i])
    BY <1>1 DEF LoneInv, RpcInv, NetOK
  <2>2. IsRequest(c, net[Server][i].frame)
    BY <1>3, <2>1, ClientAssumption DEF Held
  <2>3. net[Server][i] \in Message
    BY <1>1
  <2> QED
    BY <2>2, <2>3 DEF IsRequest, Message, AnyFrame
<1>4. AtMost(net[Server], c, ctid[c])
  BY <1>3 DEF AtMost
<1>5. AtLeast(net[Server], c, ctid[c]) => OnlyOf(net[Server], c, call[c])
  BY <1>2, <1>3 DEF AtLeast, OnlyOf
<1> QED
  BY <1>1, <1>2, <1>4, <1>5

\* A set that is taken stores the data of the item, all of it, and nothing else.
LEMMA SetStores ==
  ASSUME TInv, SeparateSetters, SetTaken, NEW t, NEW r \in Requests, req = RequestFrame(t, r)
  PROVE  /\ store' = [store EXCEPT ![req.deoj][It.epc] = It.edt]
         /\ req.deoj \in Objects /\ It.epc \in EPC /\ ret' = ret
<1>1. /\ AtItem /\ req.esv \in SetEsv /\ Settable(req.deoj, It.epc)
      /\ ret' = ret
  BY DEF SetTaken, NextItem
<1>2. It \in Item /\ req.deoj \in Objects /\ req.deoj \in DOMAIN Table
      /\ (It.pdc # 0 => It.edt \in Value)
  BY <1>1, ItType
<1>3. get_property(req.deoj, It.epc) /\ Table[req.deoj][It.epc] \in Property
  BY <1>1, <1>2, SettableType DEF Settable
<1>4. It.pdc >= Table[req.deoj][It.epc].size
  <2>1. r.esv \in SetEsv /\ req.deoj = r.deoj /\ req.items = r.items
    BY <1>1 DEF RequestFrame, setup_frame
  <2>2. idx \in 1..Len(r.items) /\ It = r.items[idx]
    BY <1>1, <2>1 DEF AtItem, It, TInv, TypeOK
  <2> QED
    BY <1>2, <1>3, <2>1, <2>2 DEF SeparateSetters, WholeSet, get_property
<1>5. Read(req.deoj, It) = {It.edt} /\ It.edt \in Value
  <2>1. It.pdc \in Nat /\ Table[req.deoj][It.epc].size \in Nat \ {0}
    BY <1>2, <1>3 DEF Item, Property
  <2> QED
    BY <1>2, <1>4, <2>1 DEF Read
<1>6. Table[req.deoj][It.epc].setret[It.edt] > 0
  <2>1. Table[req.deoj][It.epc].setret[It.edt] >= 0
    BY <1>5 DEF SetTaken
  <2>2. Table[req.deoj][It.epc].setret[It.edt] # 0
    BY <1>2, <1>3, <1>5 DEF SeparateSetters, SettersTellErrors, get_property
  <2>3. Table[req.deoj][It.epc].setret[It.edt] \in Int
    BY <1>3, <1>5 DEF Property
  <2> QED
    BY <2>1, <2>2, <2>3
<1>7. store' = [store EXCEPT ![req.deoj][It.epc] = It.edt]
  BY <1>5, <1>6 DEF SetTaken
<1> QED
  BY <1>1, <1>2, <1>7 DEF Item

\* It leaves what the request's other items have stored.
LEMMA SetKeepsStored ==
  ASSUME TInv, SeparateSetters, SetTaken, NEW t, NEW r \in Requests, req = RequestFrame(t, r)
  PROVE  /\ store'[req.deoj][It.epc] = It.edt
         /\ \A n \in 0..Len(req.items) : Stored(req, n) =>
              \A i \in 1..n : store'[req.deoj][req.items[i].epc] = req.items[i].edt
<1>1. /\ store' = [store EXCEPT ![req.deoj][It.epc] = It.edt]
      /\ req.deoj \in Objects /\ It.epc \in EPC
  BY SetStores
<1>2. store \in [Objects -> [EPC -> Value]]
  BY DEF TInv, TypeOK
<1>3. /\ store'[req.deoj][It.epc] = It.edt
      /\ \A e \in EPC : e # It.epc => store'[req.deoj][e] = store[req.deoj][e]
  BY <1>1, <1>2
<1>4. idx \in 1..Len(req.items) /\ req.items \in Seq(Item) /\ req.esv \in SetEsv
  BY DEF SetTaken, AtItem, TInv, TypeOK, AnyFrame
<1>5. ASSUME NEW n \in 0..Len(req.items), Stored(req, n), NEW i \in 1..n
      PROVE  store'[req.deoj][req.items[i].epc] = req.items[i].edt
  <2>1. i \in 1..Len(req.items)
    BY <1>4
  <2>2. req.items[i].epc \in EPC
    <3>1. req.items[i] \in Item
      BY <1>4, <2>1
    <3> QED
      BY <3>1 DEF Item
  <2>3. req.items[i].epc = It.epc => i = idx
    <3>1. r.esv \in SetEsv /\ req.items = r.items
      BY <1>4 DEF RequestFrame, setup_frame
    <3>2. WholeSet(r)
      BY <3>1 DEF SeparateSetters
    <3> QED
      BY <1>4, <2>1, <3>1, <3>2 DEF WholeSet, It
  <2>4. CASE req.items[i].epc = It.epc
    <3>1. req.items[i] = It
      BY <2>3, <2>4 DEF It
    <3> QED
      BY <1>3, <3>1
  <2>5. CASE req.items[i].epc # It.epc
    BY <1>3, <1>5, <2>2, <2>5 DEF Stored
  <2> QED
    BY <2>4, <2>5
<1> QED
  BY <1>3, <1>5

\* What it sets is what the request asks for.
LEMMA TakenIsSet ==
  ASSUME TInv, SetTaken, NEW t, NEW r, req = RequestFrame(t, r)
  PROVE  SetsProperty(r, req.deoj, It.epc)
<1>1. r.esv = req.esv /\ r.deoj = req.deoj /\ r.items = req.items
  BY DEF RequestFrame, setup_frame
<1>2. req.esv \in SetEsv /\ idx <= Len(req.items) /\ idx \in Nat \ {0}
  BY DEF SetTaken, AtItem, TInv, TypeOK
<1>3. Len(req.items) \in Nat
  BY DEF TInv, TypeOK, AnyFrame
<1>4. idx \in 1..Len(r.items) /\ r.items[idx].epc = It.epc
  BY <1>1, <1>2, <1>3 DEF It
<1> QED
  BY <1>1, <1>2, <1>4 DEF SetsProperty

\* It leaves what a set of another client has stored.
LEMMA SetKeepsOthers ==
  ASSUME TInv, SeparateSetters, SetTaken,
         NEW b \in Clients, NEW t, NEW r \in Asks[b], req = RequestFrame(t, r),
         NEW c \in Clients, b # c, NEW u \in 1..MaxCalls, NEW q \in Asks[c],
         NEW f, f = RequestFrame(u, q), f.esv \in SetEsv, Stored(f, f.opc)
  PROVE  \A i \in 1..f.opc : store'[f.deoj][f.items[i].epc] = f.items[i].edt
<1>1. r \in Requests /\ q \in Requests
  BY RequestMade
<1>2. /\ store' = [store EXCEPT ![req.deoj][It.epc] = It.edt]
      /\ req.deoj \in Objects /\ It.epc \in EPC
  BY <1>1, SetStores
<1>3. store \in [Objects -> [EPC -> Value]]
  BY DEF TInv, TypeOK
<1>4. SetsProperty(r, req.deoj, It.epc)
  BY TakenIsSet
<1>5. /\ q.esv \in SetEsv /\ q.deoj = f.deoj /\ q.items = f.items /\ f.opc = Len(q.items)
  BY DEF RequestFrame, setup_frame
<1>6. f \in AnyFrame
  BY <1>1, RequestAssumption, ArrivingAssumption
<1>7. ASSUME NEW i \in 1..f.opc
      PROVE  store'[f.deoj][f.items[i].epc] = store[f.deoj][f.items[i].epc]
  <2>1. f.items[i].epc \in EPC
    <3>1. f.items[i] \in Item
      BY <1>5, <1>6 DEF AnyFrame
    <3> QED
      BY <3>1 DEF Item
  <2>2. SetsProperty(q, f.deoj, f.items[i].epc)
    BY <1>5 DEF SetsProperty
  <2>3. ~(f.deoj = req.deoj /\ f.items[i].epc = It.epc)
    BY <1>2, <1>4, <2>2 DEF SeparateSetters
  <2>4. CASE f.deoj # req.deoj
    BY <1>2, <1>3, <2>4
  <2>5. CASE f.deoj = req.deoj /\ f.items[i].epc # It.epc
    BY <1>2, <1>3, <2>1, <2>5
  <2> QED
    BY <2>3, <2>4, <2>5
<1> QED
  BY <1>7 DEF Stored

\* The other steps of the handler store nothing.
LEMMA OthersStoreNothing ==
  ASSUME Handle, ~SetTaken
  PROVE  store' = store
BY DEF Handle, CutFrame, GetWithData, Drop, SetNoProperty, SetRefused, SetAborts,
       Gone, GetTaken, GetRefused, InfItem, Silent, Reply, Answer, Return

\* No request of the client makes a setter abort the process.
LEMMA LoneSetsDoNotAbort ==
  ASSUME TInv, SeparateSetters, NEW t, NEW r \in Requests, req = RequestFrame(t, r)
  PROVE  ~SetAborts
<1> SUFFICES ASSUME SetAborts PROVE FALSE
  OBVIOUS
<1>1. /\ AtItem /\ req.esv \in SetEsv /\ Settable(req.deoj, It.epc)
      /\ It.pdc < Table[req.deoj][It.epc].size
  BY DEF SetAborts, Aborts
<1>2. It \in Item /\ req.deoj \in DOMAIN Table
  BY <1>1, ItType
<1>3. get_property(req.deoj, It.epc) /\ Table[req.deoj][It.epc] \in Property
  BY <1>1, <1>2, SettableType DEF Settable
<1>4. r.esv \in SetEsv /\ req.deoj = r.deoj /\ req.items = r.items
  BY <1>1 DEF RequestFrame, setup_frame
<1>5. idx \in 1..Len(r.items) /\ It = r.items[idx]
  BY <1>1, <1>4 DEF AtItem, It, TInv, TypeOK
<1>6. It.pdc >= Table[req.deoj][It.epc].size
  BY <1>2, <1>3, <1>4, <1>5 DEF SeparateSetters, WholeSet, get_property
<1> QED
  BY <1>1, <1>2, <1>3, <1>6 DEF Item, Property

\* What the server sends is no request: the order of those in its queue stays.
LEMMA AnswersKeepOrder ==
  ASSUME RpcInv, ServerStep
  PROVE  /\ InOrder(net[Server]) => InOrder(net'[Server])
         /\ \A c \in Clients : \A t : AtLeast(net[Server], c, t) => AtLeast(net'[Server], c, t)
         /\ \A c \in Clients : \A f : OnlyOf(net[Server], c, f) => OnlyOf(net'[Server], c, f)
<1> DEFINE d == out'[Len(out')]
<1>1. /\ Handle
      /\ IF Sends THEN Transmit(Server, d.to, d.frame, net) ELSE UNCHANGED net
  BY DEF ServerStep
<1>2. CASE ~Sends
  BY <1>1, <1>2
<1>3. CASE Sends
  <2>1. pc = "items" /\ (d.to = Group \/ d.to = from)
    BY <1>1, <1>3, HandlerSends
  <2>2. from \in Clients
    BY <2>1 DEF RpcInv, BusyOK
  <2>3. d \in Datagram
    <3>1. TInv'
      BY <1>1, TypeNext DEF RpcInv, Next
    <3>2. out \in Seq(Datagram) /\ out' \in Seq(Datagram)
      BY <3>1 DEF RpcInv, TInv, TypeOK
    <3> QED
      BY <1>3, <3>2 DEF Sends
  <2>4. PICK to \in Clients \cup {Server, Group}, f \in AnyFrame :
          to = d.to /\ f = d.frame
    BY <2>1, <2>2, <2>3 DEF Datagram
  <2>5. Transmit(Server, to, f, net) /\ NetType(net) /\ Server \in Sockets
    BY <1>1, <1>3, <2>4 DEF RpcInv, Sockets
  <2>6. Grown(net, Msg(Server, f))
    BY <2>5, QueueGrows
  <2>7. PICK new \in Seq(Message) :
          /\ net'[Server] = net[Server] \o new
          /\ Len(new) <= MaxCopies
          /\ \A i \in 1..Len(new) : new[i] = Msg(Server, f)
    BY <2>6, Zenon DEF Grown
  <2>8. PICK q \in Seq(Message), m \in Message : q = net[Server] /\ m = Msg(Server, f)
    BY <2>5 DEF NetType, Msg, Message
  <2>9. m.from \notin Clients
    BY <2>8, ClientAssumption DEF Msg
  <2>10. /\ InOrder(q) => InOrder(q \o new)
         /\ \A c \in Clients : \A t : AtLeast(q, c, t) => AtLeast(q \o new, c, t)
         /\ \A c \in Clients : \A g : OnlyOf(q, c, g) => OnlyOf(q \o new, c, g)
    BY <2>7, <2>8, <2>9, OrderAppended
  <2> QED
    BY <2>7, <2>8, <2>10
<1> QED
  BY <1>2, <1>3

\* A set that is stored so far stays so, and the item that is taken adds to it.
LEMMA StepStores ==
  ASSUME TInv, SeparateSetters, Handle, pc = "items", NEW t, NEW r \in Requests, req = RequestFrame(t, r)
  PROVE  \A n \in 0..Len(req.items) : Stored(req, n) =>
           \A i \in 1..n : store'[req.deoj][req.items[i].epc] = req.items[i].edt
<1>1. CASE SetTaken
  BY <1>1, SetKeepsStored
<1>2. CASE ~SetTaken
  BY <1>2, OthersStoreNothing DEF Stored
<1> QED
  BY <1>1, <1>2

\* The handler ends by returning, or by the assertion of a setter.
LEMMA HandlerWorks ==
  ASSUME Handle
  PROVE  (pc' = "dead" => SetAborts) /\ (pc' = "recv" => Return)
<1>1. CASE CutFrame \/ GetWithData
  BY <1>1 DEF CutFrame, GetWithData, Drop
<1>2. CASE SetNoProperty \/ SetRefused \/ SetTaken \/ GetTaken \/ GetRefused \/ InfItem
  BY <1>2 DEF SetNoProperty, SetRefused, SetTaken, GetTaken, GetRefused, InfItem,
     AtItem, NextItem
<1>3. CASE Silent \/ Reply
  BY <1>3 DEF Silent, Reply, Answer
<1>4. CASE SetAborts
  <2>1. pc' = "dead"
    BY <1>4 DEF SetAborts, Gone
  <2> QED
    BY <1>4, <2>1
<1>5. CASE Return
  <2>1. pc' = "recv"
    BY <1>5 DEF Return
  <2> QED
    BY <1>5, <2>1
<1> QED
  BY <1>1, <1>2, <1>3, <1>4, <1>5 DEF Handle

\* It goes on with the next item.
LEMMA HandlerGoesOn ==
  ASSUME Handle, pc' = "items"
  PROVE  idx' = idx + 1
<1>1. ~(CutFrame \/ GetWithData \/ SetAborts \/ Silent \/ Reply \/ Return)
  BY DEF CutFrame, GetWithData, Drop, SetAborts, Gone, Silent, Reply, Answer, Return
<1>2. CASE SetNoProperty \/ SetRefused \/ SetTaken
  BY <1>2 DEF SetNoProperty, SetRefused, SetTaken, NextItem
<1>3. CASE GetTaken \/ GetRefused \/ InfItem
  BY <1>3 DEF GetTaken, GetRefused, InfItem, NextItem
<1> QED
  BY <1>1, <1>2, <1>3 DEF Handle

LEMMA LoneStep == SeparateSetters /\ LoneInv /\ ServerStep => LoneInv'
<1> SUFFICES ASSUME SeparateSetters, LoneInv, ServerStep PROVE LoneInv'
  OBVIOUS
<1> DEFINE d == out'[Len(out')]
           finished == (Silent \/ Reply) /\ from \in Clients
<1>1. /\ Handle
      /\ given' = IF finished /\ req = call[from] /\ Sends
                  THEN [given EXCEPT ![from] = @ \cup {d.frame}] ELSE given
      /\ UNCHANGED <<cpc, call, try, ctid, result, kills, born>>
  BY DEF ServerStep, cvars
<1>2. RpcInv' /\ TInv /\ RpcInv
  BY ServerStepOK DEF LoneInv, RpcInv
<1>3. /\ InOrder(net[Server]) => InOrder(net'[Server])
      /\ \A c \in Clients : \A t : AtLeast(net[Server], c, t) => AtLeast(net'[Server], c, t)
      /\ \A c \in Clients : \A f : OnlyOf(net[Server], c, f) => OnlyOf(net'[Server], c, f)
  BY <1>2, AnswersKeepOrder
<1>4. pc' = "items" => pc = "items" /\ UNCHANGED <<from, req>>
  BY <1>1, HandlerKeepsRequest
<1>5. pc = "items" =>
        /\ from \in Clients
        /\ \E t \in 1..MaxCalls, r \in Asks[from] : req = RequestFrame(t, r)
        /\ \E t \in 1..MaxCalls, r \in Requests : req = RequestFrame(t, r)
        /\ req \in AnyFrame /\ req.tid <= ctid[from]
        /\ req.opc = Len(req.items)
  <2> SUFFICES ASSUME pc = "items"
               PROVE  /\ from \in Clients
                      /\ \E t \in 1..MaxCalls, r \in Asks[from] : req = RequestFrame(t, r)
                      /\ \E t \in 1..MaxCalls, r \in Requests : req = RequestFrame(t, r)
                      /\ req \in AnyFrame /\ req.tid <= ctid[from]
                      /\ req.opc = Len(req.items)
    OBVIOUS
  <2>1. PICK t \in 1..MaxCalls, r \in Requests : req = RequestFrame(t, r)
    BY RequestMade DEF LoneInv, RpcInv, BusyOK
  <2>2. req.opc = Len(req.items)
    BY <2>1 DEF RequestFrame, setup_frame
  <2> QED
    BY <2>1, <2>2 DEF LoneInv, RpcInv, BusyOK, IsRequest, TInv, TypeOK
<1>6. FreshOK' /\ BornOK'
  <2>1. ~SetAborts
    <3> SUFFICES ASSUME SetAborts PROVE FALSE
      OBVIOUS
    <3>1. pc = "items"
      BY DEF SetAborts, AtItem
    <3> QED
      BY <1>2, <1>5, <3>1, LoneSetsDoNotAbort
  <2>2. pc' # "dead" /\ (pc' = "recv" => Return)
    BY <1>1, <2>1, HandlerWorks
  <2> QED
    BY <1>1, <2>2 DEF LoneInv, FreshOK, BornOK, Return
<1>7. NumberOK' /\ OrderOK'
  BY <1>1, <1>3, <1>4, <1>5 DEF LoneInv, NumberOK, OrderOK
<1>8. SeenOK'
  <2> SUFFICES ASSUME NEW c \in Clients, given'[c] # {}
               PROVE  /\ OnlyOf(net'[Server], c, call[c])
                      /\ pc' = "items" /\ from' = c => req' = call[c]
    BY <1>1 DEF SeenOK
  <2>1. CASE given[c] # {}
    BY <1>3, <1>4, <2>1 DEF LoneInv, SeenOK
  <2>2. CASE given[c] = {}
    <3>1. finished /\ req = call[from] /\ from = c
      <4>1. given \in [Clients -> SUBSET AnyFrame]
        BY <1>2 DEF RpcInv, ClientType
      <4> QED
        BY <1>1, <2>2, <4>1
    <3>2. pc = "items" /\ pc' = "done"
      BY <3>1 DEF Silent, Reply, Answer, ItemsDone
    <3>3. AtLeast(net[Server], c, ctid[c])
      BY <3>1, <3>2 DEF LoneInv, OrderOK, NumberOK
    <3>4. OnlyOf(net[Server], c, call[c])
      BY <3>3, QueueOfClient
    <3> QED
      BY <1>3, <3>2, <3>4
  <2> QED
    BY <2>1, <2>2
<1>9. PartOK'
  <2> SUFFICES ASSUME pc' = "items", req'.esv \in SetEsv, ret' = 0
               PROVE  Stored(req, idx - 1)'
    BY DEF PartOK
  <2>1. pc = "items" /\ req' = req /\ idx \in Nat \ {0} /\ ret \in {0, -2}
    BY <1>2, <1>4 DEF TInv, TypeOK
  <2>2. PICK t \in 1..MaxCalls, r \in Requests : req = RequestFrame(t, r)
    BY <1>5, <2>1
  <2>3. SetTaken
    BY <1>1, <2>1
    DEF Handle, CutFrame, GetWithData, Drop, SetNoProperty, SetRefused, SetAborts, Gone,
        GetTaken, GetRefused, InfItem, NextItem, Silent, Reply, Answer, Return, SetEsv, GetEsv
  <2>4. ret = 0 /\ idx' = idx + 1 /\ idx \in 1..Len(req.items)
    BY <2>1, <2>3 DEF SetTaken, NextItem, AtItem
  <2>5. Stored(req, idx - 1)
    BY <2>1, <2>4 DEF LoneInv, PartOK
  <2>6. /\ store'[req.deoj][It.epc] = It.edt
        /\ \A n \in 0..Len(req.items) : Stored(req, n) =>
             \A i \in 1..n : store'[req.deoj][req.items[i].epc] = req.items[i].edt
    BY <1>2, <2>2, <2>3, SetKeepsStored
  <2>7. idx - 1 \in 0..Len(req.items) /\ idx' - 1 = idx
    BY <1>5, <2>1, <2>4 DEF AnyFrame
  <2>8. ASSUME NEW i \in 1..idx PROVE store'[req.deoj][req.items[i].epc] = req.items[i].edt
    <3>1. CASE i = idx
      BY <2>6, <3>1 DEF It
    <3>2. CASE i # idx
      BY <2>1, <2>5, <2>6, <2>7, <3>2
    <3> QED
      BY <3>1, <3>2
  <2> QED
    BY <2>1, <2>7, <2>8 DEF Stored
<1>10. GivenOK'
  <2> SUFFICES ASSUME NEW c \in Clients, NEW f \in given'[c], f.esv = "Set_Res"
               PROVE  /\ call[c].esv \in SetEsv
                      /\ \E t \in 1..MaxCalls, r \in Asks[c] : call[c] = RequestFrame(t, r)
                      /\ born[c] = kills => \A i \in 1..call[c].opc :
                           store'[call[c].deoj][call[c].items[i].epc] = call[c].items[i].edt
    BY <1>1 DEF GivenOK, Stored
  <2>1. CASE f \in given[c]
    <3>1. /\ call[c].esv \in SetEsv
          /\ born[c] = kills => Stored(call[c], call[c].opc)
      BY <2>1 DEF LoneInv, GivenOK
    <3>2. PICK u \in 1..MaxCalls, q \in Asks[c] : call[c] = RequestFrame(u, q)
      BY <2>1 DEF LoneInv, GivenOK
    <3>3. ASSUME Stored(call[c], call[c].opc)
          PROVE  \A i \in 1..call[c].opc :
                   store'[call[c].deoj][call[c].items[i].epc] = call[c].items[i].edt
      <4>1. CASE ~SetTaken
        BY <1>1, <3>3, <4>1, OthersStoreNothing DEF Stored
      <4>2. CASE SetTaken /\ from = c
        <5>1. pc = "items"
          BY <4>2 DEF SetTaken, AtItem
        <5>2. req = call[c]
          BY <2>1, <4>2, <5>1 DEF LoneInv, SeenOK
        <5>3. \A n \in 0..Len(req.items) : Stored(req, n) =>
                \A i \in 1..n : store'[req.deoj][req.items[i].epc] = req.items[i].edt
          BY <1>1, <1>2, <1>5, <5>1, StepStores
        <5>4. req.opc \in 0..Len(req.items)
          BY <1>5, <5>1 DEF AnyFrame
        <5> QED
          BY <3>3, <5>2, <5>3, <5>4
      <4>3. CASE SetTaken /\ from # c
        <5>1. pc = "items"
          BY <4>3 DEF SetTaken, AtItem
        <5>2. PICK b \in Clients : b = from
          BY <1>5, <5>1
        <5>3. PICK t \in 1..MaxCalls, r \in Asks[b] : req = RequestFrame(t, r)
          BY <1>5, <5>1, <5>2
        <5>4. PICK g : g = call[c]
          OBVIOUS
        <5>5. \A i \in 1..g.opc : store'[g.deoj][g.items[i].epc] = g.items[i].edt
          BY <1>2, <3>1, <3>2, <3>3, <4>3, <5>2, <5>3, <5>4, SetKeepsOthers
        <5> QED
          BY <5>4, <5>5
      <4> QED
        BY <4>1, <4>2, <4>3
    <3> QED
      BY <3>1, <3>2, <3>3
  <2>2. CASE f \notin given[c]
    <3>1. finished /\ req = call[from] /\ from = c /\ Sends /\ f = d.frame
      <4>1. given \in [Clients -> SUBSET AnyFrame]
        BY <1>2 DEF RpcInv, ClientType
      <4> QED
        BY <1>1, <2>2, <4>1
    <3>2. pc = "items" /\ Reply
      BY <1>1, <1>2, <3>1, HandlerSends
    <3>3. ret = 0 /\ req.esv \in SetEsv
      <4>1. out \in Seq(Datagram)
        BY <1>2 DEF TInv, TypeOK
      <4>2. f.esv = select_response_esv(req.esv, ret)
        BY <3>1, <3>2, <4>1 DEF Reply, Answer, setup_frame
      <4>3. req.esv \in SetEsv \cup GetEsv \cup {"INFC"}
        BY <1>2, <3>2 DEF TInv, ReqOK, Ignored
      <4> QED
        BY <4>2, <4>3 DEF select_response_esv, SetEsv, GetEsv
    <3>4. Stored(req, idx - 1) /\ req.opc <= idx - 1
      BY <1>2, <1>5, <3>2, <3>3 DEF LoneInv, PartOK, Reply, Answer, ItemsDone, TInv, TypeOK, AnyFrame
    <3>5. store' = store
      BY <3>2 DEF Reply, Answer
    <3>6. \A i \in 1..req.opc : i \in 1..(idx - 1)
      BY <1>2, <1>5, <3>2, <3>4 DEF TInv, TypeOK
    <3> QED
      BY <1>5, <3>1, <3>2, <3>3, <3>4, <3>5, <3>6 DEF Stored
  <2> QED
    BY <2>1, <2>2
<1> QED
  BY <1>2, <1>6, <1>7, <1>8, <1>9, <1>10 DEF LoneInv

\* The server takes the requests in the order of the calls.
LEMMA LoneReceive == SeparateSetters /\ LoneInv /\ ServerReceive => LoneInv'
<1> SUFFICES ASSUME SeparateSetters, LoneInv, ServerReceive PROVE LoneInv'
  OBVIOUS
<1>1. PICK i \in Deliverable(Server) :
        LET m == net[Server][i]
        IN  /\ Ignore(m.from, m.frame) \/ Receive(m.from, m.frame)
            /\ net' = [net EXCEPT ![Server] = RemoveAt(@, i)]
            /\ UNCHANGED <<cvars, given, runs, kills, born>>
  BY DEF ServerReceive
<1>2. RpcInv'
  BY ServerReceiveOK DEF LoneInv
<1>3. PICK q \in Seq(Message) : q = net[Server] /\ i = 1 /\ 1 \in 1..Len(q)
  <2>1. net[Server] \in Seq(Message) /\ Fifo
    BY DEF LoneInv, RpcInv, NetType, Sockets, SeparateSetters
  <2> QED
    BY <1>1, <2>1 DEF Deliverable
<1>4. PICK m \in Message : m = q[1]
  BY <1>3
<1>5. /\ Ignore(m.from, m.frame) \/ Receive(m.from, m.frame)
      /\ net'[Server] = RemoveAt(q, 1)
      /\ UNCHANGED <<store, call, ctid, given, kills, born>>
  <2>1. Server \in Sockets
    BY DEF Sockets
  <2> QED
    BY <1>1, <1>3, <1>4, <2>1 DEF LoneInv, RpcInv, NetType, cvars, Ignore, Receive
<1>6. /\ InOrder(RemoveAt(q, 1))
      /\ m.from \in Clients => AtLeast(RemoveAt(q, 1), m.from, m.frame.tid)
      /\ \A c, f : OnlyOf(q, c, f) => OnlyOf(RemoveAt(q, 1), c, f)
  <2>1. InOrder(q)
    BY <1>3 DEF LoneInv, OrderOK
  <2> QED
    BY <1>3, <1>4, <2>1, OrderRemoved
<1>7. pc' = "items" => /\ from' = m.from /\ req' = m.frame /\ from' \in Clients
                       /\ idx' = 1 /\ pc = "recv"
  BY <1>2, <1>5 DEF Ignore, Receive, LoneInv, FreshOK, RpcInv, BusyOK
<1>8. FreshOK' /\ NumberOK' /\ OrderOK' /\ BornOK'
  BY <1>5, <1>6, <1>7 DEF LoneInv, FreshOK, NumberOK, OrderOK, BornOK, Ignore, Receive
<1>9. SeenOK'
  <2> SUFFICES ASSUME NEW c \in Clients, given[c] # {}
               PROVE  /\ OnlyOf(net'[Server], c, call[c])
                      /\ pc' = "items" /\ from' = c => req' = call[c]
    BY <1>5 DEF SeenOK
  <2>1. OnlyOf(q, c, call[c])
    BY <1>3 DEF LoneInv, SeenOK
  <2>2. m.from = c => m.frame = call[c]
    BY <1>3, <1>4, <2>1 DEF OnlyOf
  <2> QED
    BY <1>5, <1>6, <1>7, <2>1, <2>2
<1>10. PartOK' /\ GivenOK'
  BY <1>5, <1>7 DEF LoneInv, PartOK, GivenOK, Stored
<1> QED
  BY <1>2, <1>8, <1>9, <1>10 DEF LoneInv

\* What a client sends is no older than what it has sent.
LEMMA ClientKeepsOrder ==
  ASSUME LoneInv, NEW c \in Clients, NEW f \in AnyFrame,
         Transmit(c, Server, f, net), ctid[c] <= f.tid
  PROVE  /\ InOrder(net'[Server])
         /\ \A b \in Clients : \A t :
              AtLeast(net[Server], b, t) /\ (b = c => t <= f.tid) => AtLeast(net'[Server], b, t)
         /\ \A b \in Clients : \A g :
              OnlyOf(net[Server], b, g) /\ (b = c => f = g) => OnlyOf(net'[Server], b, g)
<1>1. /\ AtMost(net[Server], c, ctid[c])
      /\ net[Server] \in Seq(Message) /\ c \in Sockets /\ ctid[c] \in Nat
  BY QueueOfClient
<1>2. Grown(net, Msg(c, f))
  BY <1>1, QueueGrows DEF LoneInv, RpcInv
<1>3. PICK new \in Seq(Message) :
        /\ net'[Server] = net[Server] \o new
        /\ Len(new) <= MaxCopies
        /\ \A i \in 1..Len(new) : new[i] = Msg(c, f)
  BY <1>2, Zenon DEF Grown
<1>4. PICK q \in Seq(Message), m \in Message : q = net[Server] /\ m = Msg(c, f)
  BY <1>1 DEF Msg, Message
<1>5. m.from = c /\ m.frame = f
  BY <1>4 DEF Msg
<1>6. AtMost(q, c, f.tid) /\ InOrder(q)
  <2>1. \A i \in 1..Len(q) : q[i].frame.tid \in Nat
    <3>1. \A i \in 1..Len(q) : q[i] \in Message
      OBVIOUS
    <3> QED
      BY <3>1 DEF Message, AnyFrame
  <2>2. f.tid \in Nat
    BY DEF AnyFrame
  <2> QED
    BY <1>1, <1>4, <2>1, <2>2 DEF AtMost, LoneInv, OrderOK
<1>7. /\ InOrder(q \o new)
      /\ \A b, t : AtLeast(q, b, t) /\ (b = c => t <= f.tid) => AtLeast(q \o new, b, t)
      /\ \A b, g : OnlyOf(q, b, g) /\ (b = c => f = g) => OnlyOf(q \o new, b, g)
  BY <1>3, <1>4, <1>5, <1>6, OrderAppended
<1> QED
  BY <1>3, <1>4, <1>7

LEMMA LoneCall ==
  ASSUME LoneInv, NEW c \in Clients, NEW r \in Asks[c], Call(c, r)
  PROVE  LoneInv'
<1>1. RpcInv'
  BY CallOK DEF LoneInv
<1>2. PICK f : f = RequestFrame(next_ctid(c), r)
  OBVIOUS
<1>3. /\ ctid' = [ctid EXCEPT ![c] = next_ctid(c)]
      /\ call' = [call EXCEPT ![c] = f]
      /\ Transmit(c, Server, f, net)
      /\ given' = [given EXCEPT ![c] = {}]
      /\ born' = [born EXCEPT ![c] = kills]
      /\ UNCHANGED <<pc, store, from, req, idx, ret, kills>>
  BY <1>2 DEF Call, vars
<1>4. /\ call'[c] = f /\ f.tid = ctid'[c] /\ given'[c] = {} /\ born'[c] = kills
      /\ ctid'[c] \in Nat /\ f \in AnyFrame /\ kills \in Nat
  <2>1. ctid'[c] = next_ctid(c) /\ call'[c] = f /\ given'[c] = {} /\ born'[c] = kills
    BY <1>3 DEF LoneInv, RpcInv, ClientType
  <2>2. f.tid = next_ctid(c)
    BY <1>2 DEF RequestFrame, setup_frame
  <2>3. ctid'[c] \in Nat /\ f \in AnyFrame /\ kills \in Nat
    BY <1>1, <1>3, <2>1, ClientAssumption DEF LoneInv, RpcInv, ClientType
  <2> QED
    BY <2>1, <2>2, <2>3
<1>5. \A b \in Clients : b # c =>
        /\ call'[b] = call[b] /\ ctid'[b] = ctid[b]
        /\ given'[b] = given[b] /\ born'[b] = born[b]
  BY <1>3 DEF LoneInv, RpcInv, ClientType
<1>6. ctid[c] \in Nat /\ ctid[c] <= f.tid
  <2>1. ctid[c] \in Nat /\ ctid[c] < MaxCalls /\ MaxCalls \in Nat
        /\ MaxCalls < TidMod /\ TidMod \in Nat
    BY ClientAssumption, ConstantsAssumption DEF Call, LoneInv, RpcInv, ClientType
  <2>2. \A a, b \in Nat : a < b => a % b = a
    OBVIOUS
  <2>3. ctid[c] + 1 \in Nat /\ ctid[c] + 1 < TidMod
    BY ONLY <2>1
  <2>4. next_ctid(c) = ctid[c] + 1
    BY <2>1, <2>2, <2>3 DEF next_ctid
  <2>5. f.tid = next_ctid(c)
    BY <1>2 DEF RequestFrame, setup_frame
  <2> QED
    BY <2>1, <2>4, <2>5
<1>7. /\ InOrder(net'[Server])
      /\ \A b \in Clients : \A t :
           AtLeast(net[Server], b, t) /\ (b = c => t <= f.tid) => AtLeast(net'[Server], b, t)
      /\ \A b \in Clients : \A g :
           OnlyOf(net[Server], b, g) /\ (b = c => f = g) => OnlyOf(net'[Server], b, g)
  BY <1>3, <1>4, <1>6, ClientKeepsOrder
<1>8. FreshOK' /\ NumberOK' /\ PartOK'
  BY <1>3, <1>4, <1>5 DEF LoneInv, FreshOK, NumberOK, PartOK, Stored
<1>9. OrderOK'
  <2> SUFFICES ASSUME pc = "items" PROVE AtLeast(net'[Server], from, req.tid)
    BY <1>3, <1>7 DEF OrderOK
  <2>1. from \in Clients /\ AtLeast(net[Server], from, req.tid)
    BY DEF LoneInv, OrderOK, RpcInv, BusyOK
  <2>2. from = c => req.tid <= f.tid
    <3>1. req.tid <= ctid[from] /\ req.tid \in Nat
      BY DEF LoneInv, RpcInv, BusyOK, IsRequest, TInv, TypeOK, AnyFrame
    <3>2. f.tid \in Nat
      BY <1>4 DEF AnyFrame
    <3> QED
      BY <1>6, <3>1, <3>2
  <2> QED
    BY <1>7, <2>1, <2>2
<1>10. SeenOK'
  <2> SUFFICES ASSUME NEW b \in Clients, given'[b] # {}
               PROVE  /\ OnlyOf(net'[Server], b, call'[b])
                      /\ pc = "items" /\ from = b => req = call'[b]
    BY <1>3 DEF SeenOK
  <2>1. b # c /\ given[b] # {} /\ call'[b] = call[b]
    BY <1>4, <1>5
  <2>2. OnlyOf(net[Server], b, call[b]) /\ (pc = "items" /\ from = b => req = call[b])
    BY <2>1 DEF LoneInv, SeenOK
  <2> QED
    BY <1>7, <2>1, <2>2
<1>11. GivenOK'
  <2> SUFFICES ASSUME NEW b \in Clients, NEW g \in given'[b], g.esv = "Set_Res"
               PROVE  /\ call'[b].esv \in SetEsv
                      /\ \E t \in 1..MaxCalls, q \in Asks[b] : call'[b] = RequestFrame(t, q)
                      /\ born'[b] = kills => Stored(call[b], call[b].opc)'
    BY <1>3 DEF GivenOK, Stored
  <2>1. b # c /\ call'[b] = call[b] /\ born'[b] = born[b] /\ g \in given[b]
    BY <1>4, <1>5
  <2>2. /\ call[b].esv \in SetEsv
        /\ \E t \in 1..MaxCalls, q \in Asks[b] : call[b] = RequestFrame(t, q)
        /\ born[b] = kills => Stored(call[b], call[b].opc)
    BY <2>1 DEF LoneInv, GivenOK
  <2> QED
    BY <1>3, <2>1, <2>2 DEF Stored
<1>12. BornOK'
  BY <1>3, <1>4, <1>5 DEF LoneInv, BornOK
<1> QED
  BY <1>1, <1>8, <1>9, <1>10, <1>11, <1>12 DEF LoneInv

LEMMA LoneResend ==
  ASSUME LoneInv, NEW c \in Clients, Resend(c)
  PROVE  LoneInv'
<1>1. RpcInv'
  BY ResendOK DEF LoneInv
<1>2. /\ Transmit(c, Server, call[c], net)
      /\ UNCHANGED <<pc, store, from, req, idx, ret, call, ctid, given, kills, born>>
  BY DEF Resend, SendAgain, vars
<1>3. ctid[c] \in Nat /\ call[c] \in AnyFrame /\ call[c].tid = ctid[c]
  BY QueueOfClient
<1>4. PICK f \in AnyFrame : f = call[c]
  BY <1>3
<1>5. /\ InOrder(net'[Server])
      /\ \A b \in Clients : \A t :
           AtLeast(net[Server], b, t) /\ (b = c => t <= f.tid) => AtLeast(net'[Server], b, t)
      /\ \A b \in Clients : \A g :
           OnlyOf(net[Server], b, g) /\ (b = c => f = g) => OnlyOf(net'[Server], b, g)
  BY <1>2, <1>3, <1>4, ClientKeepsOrder
<1>6. FreshOK' /\ NumberOK' /\ PartOK' /\ GivenOK' /\ BornOK'
  BY <1>2 DEF LoneInv, FreshOK, NumberOK, PartOK, GivenOK, BornOK, Stored
<1>7. OrderOK'
  <2> SUFFICES ASSUME pc = "items" PROVE AtLeast(net'[Server], from, req.tid)
    BY <1>2, <1>5 DEF OrderOK
  <2>1. from \in Clients /\ AtLeast(net[Server], from, req.tid)
    BY DEF LoneInv, OrderOK, RpcInv, BusyOK
  <2>2. from = c => req.tid <= f.tid
    BY <1>3, <1>4 DEF LoneInv, RpcInv, BusyOK, IsRequest
  <2> QED
    BY <1>5, <2>1, <2>2
<1>8. SeenOK'
  <2> SUFFICES ASSUME NEW b \in Clients, given[b] # {}
               PROVE  /\ OnlyOf(net'[Server], b, call[b])
                      /\ pc = "items" /\ from = b => req = call[b]
    BY <1>2 DEF SeenOK
  <2>1. OnlyOf(net[Server], b, call[b]) /\ (pc = "items" /\ from = b => req = call[b])
    BY DEF LoneInv, SeenOK
  <2> QED
    BY <1>4, <1>5, <2>1
<1> QED
  BY <1>1, <1>6, <1>7, <1>8 DEF LoneInv

\* A client's other steps leave the server and its queue alone.
LEMMA LoneRest ==
  ASSUME LoneInv, NEW c \in Clients,
         GiveUp(c) \/ Fail(c) \/ \E i \in Deliverable(c) : Take(c, i)
  PROVE  LoneInv'
<1>1. /\ UNCHANGED <<pc, store, from, req, idx, ret, call, ctid, given, kills, born>>
      /\ net'[Server] = net[Server]
  <2>1. CASE GiveUp(c) \/ Fail(c)
    BY <2>1 DEF GiveUp, Fail, vars
  <2>2. CASE \E i \in Deliverable(c) : Take(c, i)
    BY <2>2, ClientAssumption DEF Take, LoneInv, RpcInv, NetType, Sockets, vars
  <2> QED
    BY <2>1, <2>2
<1>2. RpcInv'
  BY EndOK, TakeOK DEF LoneInv
<1> QED
  BY <1>1, <1>2
  DEF LoneInv, FreshOK, NumberOK, OrderOK, SeenOK, PartOK, GivenOK, BornOK, Stored

\* A process that dies has given nothing to a call that begins later.
LEMMA LoneDies == LoneInv /\ ServerDies => LoneInv'
<1> SUFFICES ASSUME LoneInv, ServerDies PROVE LoneInv'
  OBVIOUS
<1>1. RpcInv'
  BY ServerDiesOK DEF LoneInv
<1>2. /\ UNCHANGED <<store, from, req, idx, ret, net, call, ctid, given, born>>
      /\ kills' = kills + 1 /\ pc' = "dead"
  BY DEF ServerDies, cvars, Kill, Gone
<1>3. \A c \in Clients : born[c] \in Nat /\ kills \in Nat /\ born[c] <= kills
  BY ClientAssumption DEF LoneInv, RpcInv, ClientType, BornOK
<1>4. \A c \in Clients : born[c] <= kills' /\ born[c] # kills'
  BY <1>2, <1>3
<1> QED
  BY <1>1, <1>2, <1>4
  DEF LoneInv, FreshOK, NumberOK, OrderOK, SeenOK, PartOK, GivenOK, BornOK

\* The socket of a new process has nothing in it but its own announcement.
LEMMA EmptiedSocket ==
  ASSUME LoneInv, ServerRestarts
  PROVE  \A i \in 1..Len(net'[Server]) : net'[Server][i].from = Server
<1>1. PICK q : q = [net EXCEPT ![Server] = <<>>]
  OBVIOUS
<1>2. NetType(q) /\ Len(q[Server]) = 0
  <2>1. <<>> \in Seq(Message) /\ Len(<<>>) = 0 /\ 0 <= Capacity
    BY ClientAssumption
  <2>2. q \in [Sockets -> Seq(Message)] /\ Server \in Sockets
        /\ \A h \in Sockets : q[h] = IF h = Server THEN <<>> ELSE net[h]
    BY <1>1, <2>1 DEF LoneInv, RpcInv, NetType, Sockets
  <2>3. \A h \in Sockets : Len(q[h]) <= Capacity
    BY <2>1, <2>2 DEF LoneInv, RpcInv, NetType
  <2> QED
    BY <2>1, <2>2, <2>3 DEF NetType
<1>3. PICK a, to, f :
        /\ a = Server /\ a \in Sockets
        /\ to = Group /\ to \in Clients \cup {Server, Group}
        /\ f = announce_profile.frame /\ f \in AnyFrame
  BY ProfileAnnouncementType DEF Datagram, Sockets
<1>4. NetType(q) /\ Transmit(a, to, f, q)
  BY <1>1, <1>2, <1>3 DEF ServerRestarts
<1>5. Added(q, Msg(a, f))
  <2>1. a \in Sockets /\ to \in Clients \cup {Server, Group} /\ f \in AnyFrame
    BY <1>3
  <2> QED
    BY <1>4, <2>1, SentToServer
<1>6. \A j \in 1..Len(q[Server]) : FALSE
  BY <1>2
<1> QED
  BY <1>3, <1>5, <1>6 DEF Added, Msg

\* So a new one finds no requests, and has given nothing.
LEMMA LoneRestarts == LoneInv /\ ServerRestarts => LoneInv'
<1> SUFFICES ASSUME LoneInv, ServerRestarts PROVE LoneInv'
  OBVIOUS
<1>1. RpcInv'
  BY ServerRestartsOK DEF LoneInv
<1>2. UNCHANGED <<call, ctid, given, kills, born>> /\ pc = "dead" /\ pc' = "done"
  BY DEF ServerRestarts, cvars, Restart
<1>3. InOrder(net'[Server]) /\ \A c \in Clients : \A f : OnlyOf(net'[Server], c, f)
  BY EmptiedSocket, ClientAssumption DEF InOrder, OnlyOf
<1>4. FreshOK' /\ NumberOK' /\ OrderOK' /\ SeenOK' /\ PartOK' /\ BornOK'
  BY <1>2, <1>3 DEF LoneInv, FreshOK, NumberOK, OrderOK, SeenOK, PartOK, BornOK
<1>5. GivenOK'
  BY <1>2 DEF LoneInv, BornOK, GivenOK
<1> QED
  BY <1>1, <1>4, <1>5 DEF LoneInv

LEMMA LoneInit == RpcInit => LoneInv
<1> SUFFICES ASSUME RpcInit PROVE LoneInv
  OBVIOUS
<1>1. RpcInv
  BY RpcInvInit
<1>2. net[Server] = <<>> /\ pc = "done"
  BY DEF RpcInit, Init
<1>3. InOrder(net[Server])
  BY <1>2 DEF InOrder
<1> QED
  BY <1>1, <1>2, <1>3
  DEF RpcInit, LoneInv, FreshOK, NumberOK, OrderOK, SeenOK, PartOK, GivenOK, BornOK,
      NoFrame, setup_frame

LEMMA LoneNext == SeparateSetters /\ LoneInv /\ [RpcNext]_allvars => LoneInv'
<1> SUFFICES ASSUME SeparateSetters, LoneInv, [RpcNext]_allvars PROVE LoneInv'
  OBVIOUS
<1>1. CASE ServerReceive \/ ServerStep
  BY <1>1, LoneReceive, LoneStep
<1>2. CASE ServerDies \/ ServerRestarts
  BY <1>2, LoneDies, LoneRestarts
<1>3. ASSUME NEW c \in Clients, NEW r \in Asks[c], Call(c, r) PROVE LoneInv'
  BY <1>3, LoneCall
<1>4. ASSUME NEW c \in Clients, Waiting(c) \/ Fail(c) PROVE LoneInv'
  BY <1>4, LoneResend, LoneRest DEF Waiting
<1>5. CASE UNCHANGED allvars
  <2>1. RpcInv'
    BY <1>5, RpcInvNext DEF LoneInv
  <2>2. UNCHANGED <<pc, store, from, req, idx, ret, call, ctid, given, net, kills, born>>
    BY <1>5 DEF allvars, vars, cvars
  <2> QED
    BY <2>1, <2>2
    DEF LoneInv, FreshOK, NumberOK, OrderOK, SeenOK, PartOK, GivenOK, BornOK, Stored
<1> QED
  BY <1>1, <1>2, <1>3, <1>4, <1>5 DEF RpcNext

\* AcknowledgedSetStays, for any number of clients, calls, resends, losses, copies and
\* deaths of the process, when each client has properties of its own and datagrams keep
\* their order: once its set was acknowledged, the property has the value, and neither a
\* copy of an earlier request nor another client undoes that.
THEOREM AcknowledgedCorrect == RpcSpec => [](SeparateSetters => AcknowledgedSetStays)
<1> DEFINE I == SeparateSetters => LoneInv
<1>1. RpcInit => I
  BY LoneInit
<1>2. I /\ [RpcNext]_allvars => I'
  <2>1. SeparateSetters' = SeparateSetters
    BY DEF SeparateSetters, SettersTellErrors, WholeSet, SetsProperty
  <2> QED
    BY <2>1, LoneNext
<1>3. I => (SeparateSetters => AcknowledgedSetStays)
  <2> SUFFICES ASSUME LoneInv, NEW c \in Clients, cpc[c] = "ok", result[c].esv = "Set_Res",
                      born[c] = kills, NEW i \in 1..call[c].opc
               PROVE  store[call[c].deoj][call[c].items[i].epc] = call[c].items[i].edt
    BY DEF AcknowledgedSetStays
  <2>1. result[c] \in given[c]
    BY DEF LoneInv, RpcInv, OkIsAnAnswer
  <2>2. Stored(call[c], call[c].opc)
    BY <2>1 DEF LoneInv, GivenOK
  <2> QED
    BY <2>2 DEF Stored
<1> QED
  BY <1>1, <1>2, <1>3, PTL DEF RpcSpec
-----------------------------------------------------------------------------
(***************************************************************************)
(* The register of module RemoteProperty.                                  *)
(***************************************************************************)

\* A request of the client: it sets the one property, to a value.
IsSet(f) ==
  /\ f.esv \in SetEsv /\ f.deoj = TheObject
  /\ f.opc = 1 /\ Len(f.items) = 1
  /\ f.items[1].epc = TheProperty /\ f.items[1].edt \in Value

LEMMA RequestSets ==
  ASSUME LoneSetter, NEW t \in 1..MaxCalls, NEW r \in Asks[TheClient]
  PROVE  IsSet(RequestFrame(t, r))
<1>1. PICK f : f = RequestFrame(t, r)
  OBVIOUS
<1>2. /\ r.esv \in SetEsv /\ r.deoj = TheObject
      /\ Len(r.items) = 1 /\ r.items[1].epc = TheProperty
      /\ TheObject \in DOMAIN Table /\ TheProperty \in DOMAIN Table[TheObject]
  BY DEF LoneSetter
<1>3. r \in Requests /\ WholeSet(r)
  BY <1>2, RequestMade DEF LoneSetter, SeparateSetters
<1>4. f.esv = r.esv /\ f.deoj = r.deoj /\ f.opc = 1 /\ f.items = r.items
  BY <1>1, <1>2 DEF RequestFrame, setup_frame
<1>5. f \in Arriving /\ f \in AnyFrame
  BY <1>1, <1>3, RequestAssumption, ArrivingAssumption
<1>6. f.items[1] \in Item /\ 1 \in 1..Len(f.items)
  BY <1>2, <1>4, <1>5 DEF AnyFrame
<1>7. f.items[1].pdc # 0
  <2>1. f.items[1].pdc >= Table[TheObject][TheProperty].size
    BY <1>2, <1>3, <1>4, <1>6 DEF WholeSet
  <2>2. Table[TheObject][TheProperty].size \in Nat \ {0}
    BY <1>2, ConstantsAssumption DEF Property
  <2> QED
    BY <1>6, <2>1, <2>2 DEF Item
<1>8. f.items[1].edt \in Value
  BY <1>5, <1>6, <1>7, ArrivingAssumption DEF Item
<1> QED
  BY <1>1, <1>2, <1>4, <1>8 DEF IsSet

LEMMA CallSets ==
  ASSUME LoneSetter, LoneInv, cpc[TheClient] # "idle"
  PROVE  IsSet(call[TheClient]) /\ call[TheClient] # NoFrame
<1>1. PICK f : f = call[TheClient]
  OBVIOUS
<1>2. PICK t \in 1..MaxCalls, r \in Asks[TheClient] : f = RequestFrame(t, r)
  BY <1>1 DEF LoneInv, RpcInv, CalledOK, LoneSetter
<1>3. IsSet(f)
  BY <1>2, RequestSets
<1> QED
  BY <1>1, <1>3 DEF NoFrame, setup_frame, SetEsv, IsSet

\* What may still be stored is in these frames.
LEMMA Coming ==
  ASSUME NetType(net'), NEW S,
         \A i \in 1..Len(net'[Server]) : net'[Server][i].from = TheClient =>
           (net'[Server][i].frame.esv \in SetEsv => net'[Server][i].frame \in S),
         pc' = "items" /\ idx' = 1 /\ from' = TheClient => (req'.esv \in SetEsv => req' \in S),
         cpc'[TheClient] = "wait" => call'[TheClient] \in S
  PROVE  StillToCome' \subseteq {f.items[1].edt : f \in S}
<1>1. PICK q \in Seq(Message) : q = net'[Server]
  BY DEF NetType, Sockets
<1>2. Pending' = {m.frame : m \in {d \in Range(q) : d.from = TheClient}}
        \cup (IF pc' = "items" /\ idx' = 1 /\ from' = TheClient THEN {req'} ELSE {})
        \cup (IF cpc'[TheClient] = "wait" THEN {call'[TheClient]} ELSE {})
  BY <1>1, Zenon DEF Pending
<1>3. \A m \in Range(q) : \E i \in 1..Len(q) : m = q[i]
  BY DEF Range
<1>4. \A g \in Pending' : g.esv \in SetEsv => g \in S
  BY <1>1, <1>2, <1>3
<1> QED
  BY <1>4 DEF StillToCome

\* The value of a set that waits, is being looked at, or would be sent again.
LEMMA ToCome ==
  ASSUME NetType(net), NEW g, g.esv \in SetEsv,
         \/ \E i \in 1..Len(net[Server]) :
              net[Server][i].from = TheClient /\ g = net[Server][i].frame
         \/ pc = "items" /\ idx = 1 /\ from = TheClient /\ g = req
         \/ cpc[TheClient] = "wait" /\ g = call[TheClient]
  PROVE  g \in Pending /\ g.items[1].edt \in StillToCome
<1>1. g \in Pending
  <2>1. CASE \E i \in 1..Len(net[Server]) :
               net[Server][i].from = TheClient /\ g = net[Server][i].frame
    <3>1. PICK q \in Seq(Message) : q = net[Server]
      BY DEF NetType, Sockets
    <3>2. PICK i \in 1..Len(q) : q[i].from = TheClient /\ g = q[i].frame
      BY <2>1, <3>1
    <3>3. q[i] \in Range(q)
      BY <3>2 DEF Range
    <3> QED
      BY <3>1, <3>2, <3>3 DEF Pending
  <2>2. CASE \/ pc = "items" /\ idx = 1 /\ from = TheClient /\ g = req
             \/ cpc[TheClient] = "wait" /\ g = call[TheClient]
    BY <2>2 DEF Pending
  <2> QED
    BY <2>1, <2>2
<1> QED
  BY <1>1 DEF StillToCome

\* Nothing is added to it by a step in which the client makes no new call.
LEMMA NothingComes ==
  ASSUME LoneSetter, LoneInv, LoneInv', call'[TheClient] = call[TheClient],
         \A i \in 1..Len(net'[Server]) : net'[Server][i].from = TheClient =>
           \/ \E j \in 1..Len(net[Server]) : net'[Server][i] = net[Server][j]
           \/ cpc[TheClient] = "wait" /\ net'[Server][i].frame = call[TheClient],
         pc' = "items" /\ idx' = 1 /\ from' = TheClient =>
           \/ pc = "items" /\ idx = 1 /\ from = TheClient /\ req' = req
           \/ \E j \in 1..Len(net[Server]) :
                net[Server][j].from = TheClient /\ req' = net[Server][j].frame,
         cpc'[TheClient] = "wait" => cpc[TheClient] = "wait"
  PROVE  StillToCome' \subseteq StillToCome
<1> DEFINE S == {g \in Pending : g.esv \in SetEsv}
<1>1. NetType(net) /\ NetType(net')
  BY DEF LoneInv, RpcInv
<1>2. ASSUME NEW i \in 1..Len(net'[Server]), net'[Server][i].from = TheClient,
             net'[Server][i].frame.esv \in SetEsv
      PROVE  net'[Server][i].frame \in S
  <2>1. PICK m, g : m = net'[Server][i] /\ g = m.frame
    OBVIOUS
  <2>2. \/ \E j \in 1..Len(net[Server]) : net[Server][j].from = TheClient /\ g = net[Server][j].frame
        \/ cpc[TheClient] = "wait" /\ g = call[TheClient]
    BY <1>2, <2>1
  <2> QED
    BY <1>1, <1>2, <2>1, <2>2, ToCome
<1>3. pc' = "items" /\ idx' = 1 /\ from' = TheClient => (req'.esv \in SetEsv => req' \in S)
  <2>1. PICK g : g = req'
    OBVIOUS
  <2> QED
    BY <1>1, <2>1, ToCome
<1>4. cpc'[TheClient] = "wait" => call'[TheClient] \in S
  <2> SUFFICES ASSUME cpc[TheClient] = "wait" PROVE call[TheClient] \in S
    OBVIOUS
  <2>1. call[TheClient].esv \in SetEsv
    BY CallSets DEF IsSet
  <2> QED
    BY <1>1, <2>1, ToCome
<1>5. StillToCome = {f.items[1].edt : f \in S}
  BY DEF StillToCome
<1> HIDE DEF S
<1> QED
  BY <1>1, <1>2, <1>3, <1>4, <1>5, Coming

\* What a call that waits asks for may still be stored: it would send it again.
AskedOK == CallState = "wait" => AskedFor \in StillToCome

LEMMA AskedComes ==
  ASSUME LoneSetter, LoneInv
  PROVE  AskedOK
<1> SUFFICES ASSUME CallState = "wait" PROVE AskedFor \in StillToCome
  BY DEF AskedOK
<1>1. cpc[TheClient] = "wait"
  BY DEF CallState
<1>2. call[TheClient].esv \in SetEsv /\ call[TheClient] # NoFrame
  BY <1>1, CallSets DEF IsSet
<1>3. NetType(net)
  BY DEF LoneInv, RpcInv
<1> QED
  BY <1>1, <1>2, <1>3, ToCome DEF AskedFor

\* So what a step leaves to come is what the register allows it to.
LEMMA StepFewer ==
  ASSUME NEW S, StillToCome' \subseteq S, AskedOK'
  PROVE  Register!Fewer(S)
BY DEF Register!Fewer, AskedOK

\* The process lives, as the register has it.
Up == pc # "dead"

LEMMA UpStays ==
  ASSUME pc' = "dead" <=> pc = "dead"
  PROVE  Up' = Up
<1>1. CASE pc = "dead"
  BY <1>1 DEF Up
<1>2. CASE pc # "dead"
  BY <1>2 DEF Up
<1> QED
  BY <1>1, <1>2

\* A step that leaves the client's call alone leaves how it stands and what it asked.
LEMMA CallStands ==
  ASSUME cpc'[TheClient] = cpc[TheClient], result'[TheClient] = result[TheClient],
         call'[TheClient] = call[TheClient], born'[TheClient] = born[TheClient],
         kills' = kills
  PROVE  UNCHANGED <<CallState, AskedFor>>
<1>1. Acknowledged' <=> Acknowledged
  BY DEF Acknowledged
<1> QED
  BY <1>1 DEF CallState, AskedFor

\* Nothing of the register changes but what may still be stored, which gets less.
Forgets ==
  /\ StillToCome' \subseteq StillToCome
  /\ Up' = Up /\ UNCHANGED <<PropertyValue, CallState, AskedFor>>

\* The server takes a datagram.
LEMMA ReceiveForgets ==
  ASSUME LoneSetter, LoneInv, LoneInv', ServerReceive
  PROVE  Forgets
<1>1. PICK i \in Deliverable(Server) :
        LET m == net[Server][i]
        IN  /\ Ignore(m.from, m.frame) \/ Receive(m.from, m.frame)
            /\ net' = [net EXCEPT ![Server] = RemoveAt(@, i)]
            /\ UNCHANGED <<cvars, given, runs, kills, born>>
  BY DEF ServerReceive
<1>2. UNCHANGED <<store, cpc, call, result, kills, born>>
  BY <1>1 DEF cvars, Ignore, Receive
<1>3. PICK q \in Seq(Message) : q = net[Server] /\ i \in 1..Len(q)
  <2>1. net[Server] \in Seq(Message)
    BY DEF LoneInv, RpcInv, NetType, Sockets
  <2> QED
    BY <1>1, <2>1 DEF Deliverable
<1>4. net'[Server] = RemoveAt(q, i)
  BY <1>1, <1>3 DEF LoneInv, RpcInv, NetType, Sockets
<1>5. \A j \in 1..Len(RemoveAt(q, i)) : \E k \in 1..Len(q) : RemoveAt(q, i)[j] = q[k]
  <2>1. PICK s \in Seq(Message) : s = q /\ i \in 1..Len(s)
    BY <1>3
  <2>2. PICK k \in 1..Len(s) : k = i
    BY <2>1
  <2>3. \A j \in 1..Len(RemoveAt(s, k)) : \E l \in 1..Len(s) : RemoveAt(s, k)[j] = s[l]
    BY RemoveAtElements
  <2> QED
    BY <2>1, <2>2, <2>3
<1>6. pc' = "items" => from' = q[i].from /\ req' = q[i].frame
  BY <1>1, <1>3 DEF Ignore, Receive
<1>7. StillToCome' \subseteq StillToCome
  BY <1>2, <1>3, <1>4, <1>5, <1>6, NothingComes
<1>8. pc # "dead" /\ pc' # "dead"
  BY <1>1 DEF Ignore, Receive
<1> QED
  BY <1>2, <1>7, <1>8, UpStays, CallStands DEF PropertyValue, Forgets

\* What the server sends is not from the client.
LEMMA ServerSendsNoSet ==
  ASSUME LoneSetter, RpcInv, RpcInv', ServerStep,
         NEW i \in 1..Len(net'[Server]), net'[Server][i].from = TheClient
  PROVE  \E j \in 1..Len(net[Server]) : net'[Server][i] = net[Server][j]
<1> DEFINE d == out'[Len(out')]
<1>1. /\ Handle
      /\ IF Sends THEN Transmit(Server, d.to, d.frame, net) ELSE UNCHANGED net
  BY DEF ServerStep
<1>2. CASE ~Sends
  BY <1>1, <1>2
<1>3. CASE Sends
  <2>1. pc = "items" /\ (d.to = Group \/ d.to = from)
    BY <1>1, <1>3, HandlerSends
  <2>2. from \in Clients
    BY <2>1 DEF RpcInv, BusyOK
  <2>3. d \in Datagram
    <3>1. out \in Seq(Datagram) /\ out' \in Seq(Datagram)
      BY DEF RpcInv, TInv, TypeOK
    <3> QED
      BY <1>3, <3>1 DEF Sends
  <2>4. PICK to \in Clients \cup {Server, Group}, f \in AnyFrame :
          to = d.to /\ f = d.frame
    BY <2>1, <2>2, <2>3 DEF Datagram
  <2>5. Transmit(Server, to, f, net) /\ NetType(net) /\ Server \in Sockets
    BY <1>1, <1>3, <2>4 DEF RpcInv, Sockets
  <2>6. Added(net, Msg(Server, f))
    BY <2>5, SentToServer
  <2>7. net'[Server][i] # Msg(Server, f)
    BY ClientAssumption DEF Msg, LoneSetter
  <2> QED
    BY <2>6, <2>7 DEF Added
<1> QED
  BY <1>2, <1>3

\* A set of another client does not touch the property.
LEMMA OthersStoreElsewhere ==
  ASSUME LoneSetter, TInv, SetTaken,
         NEW b \in Clients, b # TheClient, NEW t, NEW r \in Asks[b], req = RequestFrame(t, r)
  PROVE  PropertyValue' = PropertyValue
<1>1. r \in Requests /\ SeparateSetters
  BY RequestMade DEF LoneSetter
<1>2. /\ store' = [store EXCEPT ![req.deoj][It.epc] = It.edt]
      /\ req.deoj \in Objects /\ It.epc \in EPC
  BY <1>1, SetStores
<1>3. store \in [Objects -> [EPC -> Value]]
  BY DEF TInv, TypeOK
<1>4. TheObject \in Objects /\ TheProperty \in EPC
  BY ConstantsAssumption DEF LoneSetter
<1>5. ~(req.deoj = TheObject /\ It.epc = TheProperty)
  <2>1. SetsProperty(r, req.deoj, It.epc)
    BY TakenIsSet
  <2>2. ~SetsProperty(r, TheObject, TheProperty)
    BY DEF LoneSetter
  <2> QED
    BY <2>1, <2>2
<1>6. CASE req.deoj # TheObject
  BY <1>2, <1>3, <1>4, <1>6 DEF PropertyValue
<1>7. CASE req.deoj = TheObject /\ It.epc # TheProperty
  BY <1>2, <1>3, <1>4, <1>7 DEF PropertyValue
<1> QED
  BY <1>5, <1>6, <1>7

\* The process lives while it handles a request: no setter aborts it.
LEMMA StepLives ==
  ASSUME LoneSetter, LoneInv, ServerStep
  PROVE  pc # "dead" /\ pc' # "dead"
<1>1. Handle /\ TInv /\ SeparateSetters
  BY DEF ServerStep, LoneInv, RpcInv, LoneSetter
<1>2. ~SetAborts
  <2> SUFFICES ASSUME SetAborts PROVE FALSE
    OBVIOUS
  <2>1. pc = "items"
    BY DEF SetAborts, AtItem
  <2>2. PICK t \in 1..MaxCalls, r \in Requests : req = RequestFrame(t, r)
    BY <2>1, RequestMade DEF LoneInv, RpcInv, BusyOK
  <2> QED
    BY <1>1, <2>2, LoneSetsDoNotAbort
<1>3. pc' # "dead"
  BY <1>1, <1>2, HandlerWorks
<1>4. pc \in {"items", "done"}
  <2>1. CASE CutFrame \/ GetWithData \/ Silent \/ Reply \/ Return
    BY <2>1 DEF CutFrame, GetWithData, AtItem, Silent, Reply, Answer, ItemsDone, Return
  <2>2. CASE SetNoProperty \/ SetRefused \/ SetTaken \/ SetAborts
    BY <2>2 DEF SetNoProperty, SetRefused, SetTaken, SetAborts, AtItem
  <2>3. CASE GetTaken \/ GetRefused \/ InfItem
    BY <2>3 DEF GetTaken, GetRefused, InfItem, AtItem
  <2> QED
    BY <1>1, <2>1, <2>2, <2>3 DEF Handle
<1> QED
  BY <1>3, <1>4

\* The server handles a request: a set of the client is stored.
LEMMA StepStoresOrForgets ==
  ASSUME LoneSetter, LoneInv, LoneInv', ServerStep
  PROVE  /\ StillToCome' \subseteq StillToCome /\ UNCHANGED <<CallState, AskedFor>>
         /\ Up' = Up /\ Up
         /\ PropertyValue' = PropertyValue \/ PropertyValue' \in StillToCome
<1>1. /\ Handle
      /\ UNCHANGED <<cpc, call, try, ctid, result, kills, born>>
  BY DEF ServerStep, cvars
<1>2. RpcInv /\ RpcInv' /\ TInv /\ NetType(net)
  BY DEF LoneInv, RpcInv
<1>3. StillToCome' \subseteq StillToCome
  <2>1. ~(pc' = "items" /\ idx' = 1)
    <3>1. idx \in Nat \ {0}
      BY <1>2 DEF TInv, TypeOK
    <3> QED
      BY <1>1, <3>1, HandlerGoesOn
  <2>2. \A i \in 1..Len(net'[Server]) : net'[Server][i].from = TheClient =>
          \E j \in 1..Len(net[Server]) : net'[Server][i] = net[Server][j]
    BY <1>2, ServerSendsNoSet
  <2> QED
    BY <1>1, <2>1, <2>2, NothingComes
<1>4. PropertyValue' = PropertyValue \/ PropertyValue' \in StillToCome
  <2>1. CASE ~SetTaken
    BY <1>1, <2>1, OthersStoreNothing DEF PropertyValue
  <2>2. CASE SetTaken
    <3>1. pc = "items" /\ idx <= req.opc /\ idx \in Nat \ {0}
      BY <1>2, <2>2 DEF SetTaken, AtItem, TInv, TypeOK
    <3>2. PICK b \in Clients, t \in 1..MaxCalls : b = from /\ \E r \in Asks[b] : req = RequestFrame(t, r)
      BY <1>2, <3>1 DEF RpcInv, BusyOK, IsRequest
    <3>3. PICK r \in Asks[b] : req = RequestFrame(t, r)
      BY <3>2
    <3>4. CASE b # TheClient
      BY <1>2, <2>2, <3>3, <3>4, OthersStoreElsewhere
    <3>5. CASE b = TheClient
      <4>1. IsSet(req)
        BY <3>3, <3>5, RequestSets
      <4>2. idx = 1 /\ req.esv \in SetEsv
        BY <3>1, <4>1 DEF IsSet
      <4>3. r \in Requests /\ SeparateSetters
        BY RequestMade DEF LoneSetter
      <4>4. store'[req.deoj][It.epc] = It.edt
        BY <1>2, <2>2, <3>3, <4>3, SetKeepsStored
      <4>5. PropertyValue' = req.items[1].edt
        BY <4>1, <4>2, <4>4 DEF PropertyValue, IsSet, It
      <4> QED
        BY <1>2, <3>1, <3>2, <3>5, <4>2, <4>5, ToCome
    <3> QED
      BY <3>4, <3>5
  <2> QED
    BY <2>1, <2>2
<1>5. pc # "dead" /\ pc' # "dead"
  BY StepLives
<1>6. Up' = Up /\ Up
  BY <1>5, UpStays DEF Up
<1> QED
  BY <1>1, <1>3, <1>4, <1>6, CallStands

LEMMA CallCalls ==
  ASSUME LoneSetter, LoneInv, LoneInv', NEW r \in Asks[TheClient], Call(TheClient, r)
  PROVE  /\ CallState # "wait" /\ CallState' = "wait"
         /\ UNCHANGED PropertyValue /\ Up' = Up
         /\ AskedFor' \in Value /\ StillToCome' \subseteq StillToCome \cup {AskedFor'}
<1> DEFINE c == TheClient
<1>1. c \in Clients
  BY DEF LoneSetter
<1>2. PICK f : f = RequestFrame(next_ctid(c), r)
  OBVIOUS
<1>3. /\ cpc[c] # "wait"
      /\ call' = [call EXCEPT ![c] = f]
      /\ Transmit(c, Server, f, net)
      /\ cpc' = [cpc EXCEPT ![c] = "wait"]
      /\ UNCHANGED <<pc, idx, from, req, store>>
  BY <1>2 DEF Call, Idle, vars
<1>4. call'[c] = f /\ cpc'[c] = "wait"
  BY <1>1, <1>3 DEF LoneInv, RpcInv, ClientType
<1>5. IsSet(f) /\ f \in AnyFrame
  <2>1. PICK t \in 1..MaxCalls, s \in Asks[TheClient] : call'[c] = RequestFrame(t, s)
    BY <1>1, <1>4 DEF LoneInv, RpcInv, CalledOK
  <2> QED
    BY <1>1, <1>4, <2>1, RequestSets DEF LoneInv, RpcInv, ClientType
<1>6. AskedFor' = f.items[1].edt /\ AskedFor' \in Value
  <2>1. f # NoFrame
    BY <1>5 DEF NoFrame, setup_frame, SetEsv, IsSet
  <2> QED
    BY <1>4, <1>5, <2>1 DEF AskedFor, IsSet
<1>7. CallState # "wait" /\ CallState' = "wait"
  BY <1>3, <1>4 DEF CallState, Acknowledged
<1>8. StillToCome' \subseteq StillToCome \cup {AskedFor'}
  <2> DEFINE S == {g \in Pending : g.esv \in SetEsv} \cup {f}
  <2>1. NetType(net) /\ NetType(net')
    BY DEF LoneInv, RpcInv
  <2>2. \A i \in 1..Len(net'[Server]) :
          \/ \E j \in 1..Len(net[Server]) : net'[Server][i] = net[Server][j]
          \/ net'[Server][i] = Msg(c, f)
    BY <1>1, <1>3, <1>5, <2>1, TransmitToServer DEF Sockets
  <2>3. ASSUME NEW i \in 1..Len(net'[Server]), net'[Server][i].from = TheClient,
               net'[Server][i].frame.esv \in SetEsv
        PROVE  net'[Server][i].frame \in S
    <3>1. PICK m, g : m = net'[Server][i] /\ g = m.frame
      OBVIOUS
    <3>2. CASE \E j \in 1..Len(net[Server]) : m = net[Server][j]
      <4>1. \E j \in 1..Len(net[Server]) :
              net[Server][j].from = TheClient /\ g = net[Server][j].frame
        BY <2>3, <3>1, <3>2
      <4> QED
        BY <2>1, <2>3, <3>1, <4>1, ToCome
    <3>3. CASE m = Msg(c, f)
      BY <3>1, <3>3 DEF Msg
    <3> QED
      BY <2>2, <3>1, <3>2, <3>3
  <2>4. pc' = "items" /\ idx' = 1 /\ from' = TheClient => (req'.esv \in SetEsv => req' \in S)
    <3>1. PICK g : g = req
      OBVIOUS
    <3> QED
      BY <1>3, <2>1, <3>1, ToCome
  <2>5. cpc'[TheClient] = "wait" => call'[TheClient] \in S
    BY <1>4
  <2>6. {g.items[1].edt : g \in S} \subseteq StillToCome \cup {AskedFor'}
    BY <1>6 DEF StillToCome
  <2> HIDE DEF S
  <2>7. StillToCome' \subseteq {g.items[1].edt : g \in S}
    BY <2>1, <2>3, <2>4, <2>5, Coming
  <2> QED
    BY <2>6, <2>7
<1> QED
  BY <1>3, <1>6, <1>7, <1>8, UpStays DEF PropertyValue

LEMMA ResendForgets ==
  ASSUME LoneSetter, LoneInv, LoneInv', Resend(TheClient)
  PROVE  Forgets
<1>1. /\ Transmit(TheClient, Server, call[TheClient], net)
      /\ cpc[TheClient] = "wait"
      /\ UNCHANGED <<pc, store, from, req, idx, cpc, call, result, born, kills>>
  BY DEF Resend, SendAgain, vars
<1>2. TheClient \in Sockets /\ call[TheClient] \in AnyFrame /\ NetType(net)
  BY DEF LoneSetter, LoneInv, RpcInv, ClientType, Sockets
<1>3. PICK f \in AnyFrame : f = call[TheClient] /\ Transmit(TheClient, Server, f, net)
  BY <1>1, <1>2
<1>4. \A i \in 1..Len(net'[Server]) :
        \/ \E j \in 1..Len(net[Server]) : net'[Server][i] = net[Server][j]
        \/ net'[Server][i] = Msg(TheClient, f)
  <2>1. TheClient \in Sockets /\ NetType(net) /\ Transmit(TheClient, Server, f, net)
    BY <1>2, <1>3
  <2> QED
    BY <2>1, TransmitToServer
<1>5. \A i \in 1..Len(net'[Server]) :
        \/ \E j \in 1..Len(net[Server]) : net'[Server][i] = net[Server][j]
        \/ cpc[TheClient] = "wait" /\ net'[Server][i].frame = call[TheClient]
  <2>1. Msg(TheClient, f).frame = f
    BY DEF Msg
  <2> QED
    BY <1>1, <1>3, <1>4, <2>1, Zenon
<1>6. StillToCome' \subseteq StillToCome
  BY <1>1, <1>5, NothingComes
<1> QED
  BY <1>1, <1>6, UpStays, CallStands DEF PropertyValue, Forgets

LEMMA EndFails ==
  ASSUME LoneSetter, LoneInv, LoneInv', GiveUp(TheClient) \/ Fail(TheClient)
  PROVE  /\ StillToCome' \subseteq StillToCome
         /\ UNCHANGED <<PropertyValue, AskedFor>> /\ Up' = Up
         /\ CallState = "wait" /\ CallState' = "failed"
<1>1. /\ cpc[TheClient] = "wait"
      /\ \E e \in {"over", "error"} : cpc' = [cpc EXCEPT ![TheClient] = e]
      /\ UNCHANGED <<pc, store, from, req, idx, net, call, result>>
  BY DEF GiveUp, Fail, vars
<1>2. cpc'[TheClient] \in {"over", "error"}
  BY <1>1 DEF LoneSetter, LoneInv, RpcInv, ClientType
<1>3. StillToCome' \subseteq StillToCome
  BY <1>1, <1>2, NothingComes
<1> QED
  BY <1>1, <1>2, <1>3, UpStays DEF PropertyValue, CallState, Acknowledged, AskedFor

\* What the other clients do.
LEMMA OthersForget ==
  ASSUME LoneSetter, LoneInv, LoneInv', NEW c \in Clients, c # TheClient,
         (\E r \in Asks[c] : Call(c, r)) \/ Waiting(c) \/ Fail(c)
  PROVE  Forgets
<1>1. /\ UNCHANGED <<pc, store, from, req, idx, kills>>
      /\ cpc'[TheClient] = cpc[TheClient] /\ call'[TheClient] = call[TheClient]
      /\ result'[TheClient] = result[TheClient] /\ born'[TheClient] = born[TheClient]
  <2>1. /\ cpc \in [Clients -> {"idle", "wait", "ok", "over", "error"}]
        /\ call \in [Clients -> AnyFrame] /\ result \in [Clients -> AnyFrame]
        /\ born \in [Clients -> 0..MaxKills] /\ TheClient \in Clients
    BY DEF LoneSetter, LoneInv, RpcInv, ClientType
  <2>2. ASSUME NEW r \in Asks[c], Call(c, r) PROVE <1>1
    BY <2>1, <2>2 DEF Call, vars
  <2>3. CASE Resend(c)
    BY <2>3 DEF Resend, SendAgain, vars
  <2>4. CASE GiveUp(c) \/ Fail(c)
    BY <2>1, <2>4 DEF GiveUp, Fail, vars
  <2>5. ASSUME NEW i \in Deliverable(c), Take(c, i) PROVE <1>1
    BY <2>1, <2>5 DEF Take, vars
  <2> QED
    BY <2>2, <2>3, <2>4, <2>5 DEF Waiting
<1>2. \A i \in 1..Len(net'[Server]) : net'[Server][i].from = TheClient =>
        \E j \in 1..Len(net[Server]) : net'[Server][i] = net[Server][j]
  <2>1. NetType(net) /\ c \in Sockets /\ Server \in Sockets /\ c # Server
    BY ClientAssumption DEF LoneInv, RpcInv, Sockets
  <2>2. ASSUME NEW f \in AnyFrame, Transmit(c, Server, f, net) PROVE <1>2
    <3>1. \A i \in 1..Len(net'[Server]) :
            \/ \E j \in 1..Len(net[Server]) : net'[Server][i] = net[Server][j]
            \/ net'[Server][i] = Msg(c, f)
      BY <2>1, <2>2, TransmitToServer
    <3>2. Msg(c, f).from # TheClient
      BY DEF Msg
    <3> QED
      BY <3>1, <3>2
  <2>3. ASSUME NEW r \in Asks[c], Call(c, r)
        PROVE  \E f \in AnyFrame : Transmit(c, Server, f, net)
    <3>1. PICK f : f = RequestFrame(next_ctid(c), r)
      OBVIOUS
    <3>2. call' = [call EXCEPT ![c] = f] /\ Transmit(c, Server, f, net)
      BY <2>3, <3>1 DEF Call
    <3>3. f \in AnyFrame
      BY <3>2 DEF LoneInv, RpcInv, ClientType
    <3> QED
      BY <3>2, <3>3
  <2>4. Resend(c) => \E f \in AnyFrame : Transmit(c, Server, f, net)
    BY DEF Resend, SendAgain, LoneInv, RpcInv, ClientType
  <2>5. ASSUME GiveUp(c) \/ Fail(c) \/ \E i \in Deliverable(c) : Take(c, i)
        PROVE  net'[Server] = net[Server]
    BY <2>1, <2>5 DEF GiveUp, Fail, Take, NetType
  <2> QED
    BY <2>2, <2>3, <2>4, <2>5 DEF Waiting
<1>3. StillToCome' \subseteq StillToCome
  BY <1>1, <1>2, NothingComes
<1> QED
  BY <1>1, <1>3, UpStays, CallStands DEF PropertyValue, Forgets

\* When this process has acknowledged the call, it lives, the property has the value, and
\* nothing is to come that could change it: the client's sets under way are of this call.
LEMMA GivenStays ==
  ASSUME LoneSetter, LoneInv, cpc[TheClient] # "idle", born[TheClient] = kills,
         NEW a \in given[TheClient], a.esv = "Set_Res"
  PROVE  Up /\ PropertyValue = AskedFor /\ StillToCome \subseteq {AskedFor}
<1>1. TheClient \in Clients
  BY DEF LoneSetter
<1>2. Stored(call[TheClient], call[TheClient].opc) /\ Up
  BY <1>1 DEF LoneInv, GivenOK, BornOK, Up
<1>3. PICK f : f = call[TheClient]
  OBVIOUS
<1>4. IsSet(f) /\ f # NoFrame
  BY <1>3, CallSets
<1>5. AskedFor = f.items[1].edt /\ PropertyValue = AskedFor
  BY <1>2, <1>3, <1>4 DEF AskedFor, PropertyValue, Stored, IsSet
<1>6. \A g \in Pending : g = f
  <2> SUFFICES ASSUME NEW g \in Pending PROVE g = f
    OBVIOUS
  <2>1. OnlyOf(net[Server], TheClient, f) /\ (pc = "items" /\ from = TheClient => req = f)
    BY <1>1, <1>3 DEF LoneInv, SeenOK
  <2>2. PICK q \in Seq(Message) : q = net[Server]
    BY DEF LoneInv, RpcInv, NetType, Sockets
  <2>3. \/ \E m \in Range(q) : m.from = TheClient /\ g = m.frame
        \/ pc = "items" /\ from = TheClient /\ g = req
        \/ g = f
    BY <1>3, <2>2 DEF Pending
  <2>4. ASSUME NEW m \in Range(q), m.from = TheClient, g = m.frame PROVE g = f
    <3>1. PICK i \in 1..Len(q) : m = q[i]
      BY DEF Range
    <3> QED
      BY <2>1, <2>2, <2>4, <3>1 DEF OnlyOf
  <2> QED
    BY <2>1, <2>3, <2>4
<1> QED
  BY <1>2, <1>5, <1>6 DEF StillToCome

LEMMA OkIsGiven ==
  ASSUME LoneSetter, LoneInv
  PROVE  Register!OkStays
<1> SUFFICES ASSUME CallState = "ok"
             PROVE  Up /\ PropertyValue = AskedFor /\ StillToCome \subseteq {AskedFor}
  BY DEF Register!OkStays, Up
<1>1. /\ cpc[TheClient] = "ok" /\ result[TheClient].esv = "Set_Res"
      /\ born[TheClient] = kills
  <2>1. cpc[TheClient] # "ok" \/ Acknowledged
    BY DEF CallState
  <2> QED
    BY <2>1 DEF CallState, Acknowledged
<1>2. result[TheClient] \in given[TheClient]
  BY <1>1 DEF LoneSetter, LoneInv, RpcInv, OkIsAnAnswer
<1> QED
  BY <1>1, <1>2, GivenStays

\* A datagram is the answer, or nothing.
LEMMA TakeEnds ==
  ASSUME LoneSetter, LoneInv, LoneInv', NEW i \in Deliverable(TheClient), Take(TheClient, i)
  PROVE  /\ StillToCome' \subseteq StillToCome
         /\ UNCHANGED <<PropertyValue, AskedFor>> /\ Up' = Up
         /\ \/ CallState' = CallState
            \/ CallState = "wait" /\ CallState' = "failed"
            \/ /\ CallState = "wait" /\ CallState' = "ok"
               /\ Up /\ PropertyValue = AskedFor /\ StillToCome \subseteq {AskedFor}
<1> DEFINE c == TheClient
           f == net[c][i].frame
<1>1. /\ cpc[c] = "wait"
      /\ IF unmarshal_frame_response(call[c], f)
         THEN cpc' = [cpc EXCEPT ![c] = "ok"] /\ result' = [result EXCEPT ![c] = f]
         ELSE UNCHANGED <<cpc, result>>
      /\ net' = [net EXCEPT ![c] = RemoveAt(@, i)]
      /\ UNCHANGED <<vars, call, try, ctid, given, runs, kills, born>>
  BY DEF Take
<1>2. /\ UNCHANGED <<pc, store, from, req, idx, call, given, kills, born>>
      /\ net'[Server] = net[Server]
  BY <1>1, ClientAssumption
  DEF LoneSetter, LoneInv, RpcInv, NetType, Sockets, vars
<1>3. StillToCome' \subseteq StillToCome
  BY <1>1, <1>2, NothingComes
<1>4. UNCHANGED <<PropertyValue, AskedFor>> /\ CallState = "wait" /\ Up' = Up
  BY <1>1, <1>2, UpStays DEF PropertyValue, AskedFor, CallState, Acknowledged
<1>5. CASE UNCHANGED <<cpc, result>>
  BY <1>2, <1>3, <1>4, <1>5, CallStands
<1>6. CASE cpc' = [cpc EXCEPT ![c] = "ok"] /\ result' = [result EXCEPT ![c] = f]
  <2>1. cpc'[c] = "ok" /\ result'[c] = f
    BY <1>6 DEF LoneSetter, LoneInv, RpcInv, ClientType
  <2>2. CASE ~(f.esv = "Set_Res" /\ born[c] = kills)
    BY <1>2, <1>3, <1>4, <2>1, <2>2 DEF CallState, Acknowledged
  <2>3. CASE f.esv = "Set_Res" /\ born[c] = kills
    <3>1. CallState' = "ok"
      BY <1>2, <2>1, <2>3 DEF CallState, Acknowledged
    <3>2. f \in given[c]
      BY <1>2, <2>1 DEF LoneSetter, LoneInv, RpcInv, OkIsAnAnswer
    <3>3. Up /\ PropertyValue = AskedFor /\ StillToCome \subseteq {AskedFor}
      BY <1>1, <2>3, <3>2, GivenStays
    <3> QED
      BY <1>3, <1>4, <3>1, <3>3
  <2> QED
    BY <2>2, <2>3
<1> QED
  BY <1>1, <1>5, <1>6

\* The process dies: what it has acknowledged is no longer.
LEMMA DeathFails ==
  ASSUME LoneSetter, LoneInv, LoneInv', ServerDies
  PROVE  /\ StillToCome' \subseteq StillToCome
         /\ UNCHANGED <<PropertyValue, AskedFor>> /\ Up /\ ~Up'
         /\ CallState' = IF CallState = "ok" THEN "failed" ELSE CallState
<1>1. /\ UNCHANGED <<store, from, req, idx, net, cpc, call, result, born>>
      /\ kills' = kills + 1 /\ pc # "dead" /\ pc' = "dead"
  BY DEF ServerDies, cvars, Kill, Gone
<1>2. born[TheClient] # kills'
  <2>1. born[TheClient] \in Nat /\ kills \in Nat /\ born[TheClient] <= kills
    BY ClientAssumption DEF LoneSetter, LoneInv, RpcInv, ClientType, BornOK
  <2> QED
    BY <1>1, <2>1
<1>3. StillToCome' \subseteq StillToCome
  BY <1>1, NothingComes
<1>4. ~Acknowledged'
  BY <1>1, <1>2 DEF Acknowledged
<1>5. CallState' = IF CallState = "ok" THEN "failed" ELSE CallState
  <2>1. CASE cpc[TheClient] = "ok"
    <3>1. CallState \in {"ok", "failed"} /\ CallState' = "failed"
      BY <1>1, <1>4, <2>1 DEF CallState
    <3> QED
      BY <3>1
  <2>2. CASE cpc[TheClient] # "ok"
    <3>1. ~Acknowledged
      BY <2>2 DEF Acknowledged
    <3>2. CallState' = CallState
      BY <1>1, <1>4, <3>1 DEF CallState
    <3>3. CallState # "ok"
      BY <2>2, <3>1 DEF CallState
    <3> QED
      BY <3>2, <3>3
  <2> QED
    BY <2>1, <2>2
<1> QED
  BY <1>1, <1>3, <1>5 DEF PropertyValue, AskedFor, Up

\* A new process has the value the property starts with.
LEMMA RestartBegins ==
  ASSUME LoneSetter, LoneInv, LoneInv', ServerRestarts
  PROVE  /\ StillToCome' \subseteq StillToCome /\ UNCHANGED <<CallState, AskedFor>>
         /\ ~Up /\ Up' /\ PropertyValue' = InitValue[TheObject][TheProperty]
<1> DEFINE g == announce_profile.frame
<1>1. /\ UNCHANGED <<cpc, call, result, born, kills>>
      /\ pc = "dead" /\ pc' = "done" /\ store' = InitValue
      /\ Transmit(Server, Group, g, [net EXCEPT ![Server] = <<>>])
  BY DEF ServerRestarts, cvars, Restart
<1>2. \A i \in 1..Len(net'[Server]) : net'[Server][i].from # TheClient
  BY EmptiedSocket, ClientAssumption DEF LoneInv, LoneSetter
<1>3. StillToCome' \subseteq StillToCome
  BY <1>1, <1>2, NothingComes
<1> QED
  BY <1>1, <1>3, CallStands DEF PropertyValue, Up

\* Every step of the program is one of the register, or changes nothing of it.
LEMMA RegisterStep ==
  ASSUME LoneSetter, LoneInv, LoneInv', AskedOK', [RpcNext]_allvars
  PROVE  [Register!Next]_(Register!vars)
<1>1. \A S : StillToCome' \subseteq S => Register!Fewer(S)
  BY StepFewer
<1>2. CASE Forgets
  BY <1>1, <1>2 DEF Forgets, Up, Register!Next, Register!Forget
<1>3. CASE ServerReceive
  BY <1>2, <1>3, ReceiveForgets
<1>4. CASE ServerStep
  <2>1. CASE PropertyValue' = PropertyValue
    BY <1>2, <1>4, <2>1, StepStoresOrForgets DEF Forgets
  <2>2. CASE PropertyValue' \in StillToCome
    BY <1>1, <1>4, <2>2, StepStoresOrForgets DEF Up, Register!Next, Register!Store
  <2> QED
    BY <1>4, <2>1, <2>2, StepStoresOrForgets
<1>5. CASE ServerDies
  BY <1>1, <1>5, DeathFails DEF Up, Register!Next, Register!Die
<1>6. CASE ServerRestarts
  BY <1>1, <1>6, RestartBegins DEF Up, Register!Next, Register!Restart
<1>7. ASSUME NEW r \in Asks[TheClient], Call(TheClient, r) PROVE Register!Next
  BY <1>1, <1>7, CallCalls DEF Up, Register!Next, Register!Call
<1>8. CASE Resend(TheClient)
  BY <1>2, <1>8, ResendForgets
<1>9. CASE GiveUp(TheClient) \/ Fail(TheClient)
  BY <1>1, <1>9, EndFails DEF Up, Register!Next, Register!Fail
<1>10. ASSUME NEW i \in Deliverable(TheClient), Take(TheClient, i)
       PROVE  [Register!Next]_(Register!vars)
  <2>1. CASE CallState' = CallState
    BY <1>2, <1>10, <2>1, TakeEnds DEF Forgets
  <2>2. CASE CallState = "wait" /\ CallState' = "failed"
    BY <1>1, <1>10, <2>2, TakeEnds DEF Up, Register!Next, Register!Fail
  <2>3. CASE CallState' # CallState /\ CallState' # "failed"
    BY <1>1, <1>10, <2>3, TakeEnds DEF Up, Register!Next, Register!Succeed
  <2> QED
    BY <1>10, <2>1, <2>2, <2>3, TakeEnds
<1>11. ASSUME NEW c \in Clients, c # TheClient,
              (\E r \in Asks[c] : Call(c, r)) \/ Waiting(c) \/ Fail(c)
       PROVE  [Register!Next]_(Register!vars)
  BY <1>2, <1>11, OthersForget
<1>12. CASE UNCHANGED allvars
  BY <1>12 DEF allvars, vars, cvars, Register!vars, PropertyValue, CallState, Acknowledged,
     AskedFor, StillToCome, Pending
<1>13. ASSUME NEW c \in Clients, (\E r \in Asks[c] : Call(c, r)) \/ Waiting(c) \/ Fail(c)
       PROVE  [Register!Next]_(Register!vars)
  <2>1. CASE c = TheClient
    BY <1>7, <1>8, <1>9, <1>10, <1>13, <2>1 DEF Waiting
  <2>2. CASE c # TheClient
    BY <1>11, <1>13, <2>2
  <2> QED
    BY <2>1, <2>2
<1> QED
  BY <1>3, <1>4, <1>5, <1>6, <1>12, <1>13 DEF RpcNext

LEMMA RegisterInit ==
  ASSUME LoneSetter, RpcInit
  PROVE  Register!Init
<1>1. /\ store = InitValue /\ cpc[TheClient] = "idle" /\ call[TheClient] = NoFrame
      /\ net[Server] = <<>> /\ pc = "done"
  BY DEF RpcInit, Init, LoneSetter
<1>2. PropertyValue = InitValue[TheObject][TheProperty]
  BY <1>1 DEF PropertyValue
<1>3. CallState = "idle" /\ AskedFor = NoData
  BY <1>1 DEF CallState, Acknowledged, AskedFor
<1>4. Range(<<>>) = {}
  BY DEF Range
<1>5. StillToCome = {}
  BY <1>1, <1>4 DEF StillToCome, Pending
<1>6. (pc # "dead") = TRUE
  BY <1>1
<1> QED
  BY <1>2, <1>3, <1>5, <1>6 DEF Register!Init

LEMMA SetterStays == LoneSetter => LoneSetter'
BY DEF LoneSetter, SeparateSetters, SettersTellErrors, WholeSet, SetsProperty

\* The program, used by a client that sets one property which no other client sets, is
\* the register: for any number of clients, calls, resends, losses, copies and deaths of
\* the process.
THEOREM RegisterImplemented == LoneSetter /\ RpcSpec => Register!Safety
<1>1. LoneSetter => LoneSetter'
  BY SetterStays
<1>2. LoneSetter /\ RpcInit => Register!Init /\ LoneInv
  BY RegisterInit, LoneInit
<1>3. LoneSetter /\ LoneInv /\ [RpcNext]_allvars => LoneInv'
  BY LoneNext DEF LoneSetter
<1>4. LoneSetter /\ LoneInv => AskedOK
  BY AskedComes
<1>5. LoneSetter /\ LoneInv /\ LoneInv' /\ AskedOK' /\ [RpcNext]_allvars
        => [Register!Next]_(Register!vars)
  BY RegisterStep
<1> QED
  BY <1>1, <1>2, <1>3, <1>4, <1>5, PTL DEF RpcSpec, Register!Safety

\* When the client's calls return, too, that is ImplementsRegister.  (CallReturns: that
\* they do is a matter of fairness, and the runs check it.)
THEOREM RegisterCorrect ==
  LoneSetter /\ RpcSpec /\ (cpc[TheClient] = "wait" ~> Idle(TheClient)) => ImplementsRegister
<1>1. CallState = "wait" => cpc[TheClient] = "wait"
  BY DEF CallState
<1>2. Idle(TheClient) => CallState # "wait"
  BY DEF Idle, CallState
<1> QED
  BY <1>1, <1>2, RegisterImplemented, PTL
  DEF ImplementsRegister, Register!Spec, Register!Returns

\* So a set that was acknowledged stays until the client calls again or the process dies,
\* and no copy that is still under way would change it.
THEOREM RegisterOkStays == LoneSetter /\ RpcSpec => []Register!OkStays
<1>1. LoneSetter => LoneSetter'
  BY SetterStays
<1>2. LoneSetter /\ RpcInit => LoneInv
  BY LoneInit
<1>3. LoneSetter /\ LoneInv /\ [RpcNext]_allvars => LoneInv'
  BY LoneNext DEF LoneSetter
<1>4. LoneSetter /\ LoneInv => Register!OkStays
  BY OkIsGiven
<1> QED
  BY <1>1, <1>2, <1>3, <1>4, PTL DEF RpcSpec
=============================================================================
