------------------------------ MODULE ElnetRpc ------------------------------
(***************************************************************************)
(* mls_elnet_rpc (middleware/comm/mls_elnet.c) together with the node it   *)
(* calls (module Elnet) and the UDP sockets between them.                  *)
(*                                                                         *)
(* A client sends a request, waits two seconds for a datagram that answers *)
(* it, and sends it again, three times in all.  A datagram that is not the *)
(* answer is thrown away and the two seconds start anew.  What arrives     *)
(* between two calls waits in the socket for the next one.                 *)
(***************************************************************************)
EXTENDS Elnet, SequencesExt

CONSTANTS
  Clients,   \* the sockets mls_elnet_rpc is called with
  Members,   \* those of them that have joined the multicast group
  Server,    \* the node's socket, which has joined it too
  Requests,  \* what the clients ask: [deoj, esv, items]
  Asks,      \* Asks[c]: those of them that client c asks
  Fifo,      \* do datagrams to one socket keep their order?
  MaxCopies, \* the network delivers a datagram 0..MaxCopies times
  Capacity,  \* bound: the datagrams a socket's queue holds; more are lost
  MaxCalls,  \* bound: calls per client
  MaxKills   \* bound: deaths of the server process

Retry == 3   \* "retry" of mls_elnet_rpc

ASSUME ClientAssumption ==
  /\ Members \subseteq Clients
  /\ Server \notin Clients
  /\ Address = Clients \cup {Server}
  /\ Fifo \in BOOLEAN
  /\ MaxCopies \in Nat /\ Capacity \in Nat /\ MaxCalls \in Nat
  /\ MaxKills \in Nat
  /\ MaxCalls < TidMod   \* no transaction id comes round again

\* What the clients ask is what may arrive, and so is what the node announces for
\* it, for its sockets hear the group.  No tool sends an INF_REQ with mls_elnet_rpc.
RequestFrame(t, r) ==
  setup_frame(t, Profile, r.deoj, r.esv, Len(r.items), r.items)

ASSUME RequestAssumption ==
  /\ Asks \in [Clients -> SUBSET Requests]
  /\ \A r \in Requests : /\ r.esv \in RequestEsv \ {"INF_REQ"}
                         /\ r.items \in Seq(Item)
  /\ \A t \in 1..MaxCalls, r \in Requests : RequestFrame(t, r) \in Arriving
  /\ \A t \in 0..(TidMod - 1), r \in Requests : r.esv \in SetEsv =>
       \A i \in 1..Len(r.items) :
         setup_frame(t, r.deoj, Profile, "INF", 1, <<r.items[i]>>) \in Arriving
  /\ announce_profile.frame \in Arriving

VARIABLES
  net,    \* net[h]: the datagrams on their way to, or queued at, socket h
  cpc,    \* "idle", "wait" (in select), or how the call ended:
          \* "ok", "over" (retry over), "error"
  call,   \* the request frame of the call
  try,    \* how often it was sent
  ctid,   \* _tid of _get_next_tid in the client's process
  result, \* the frame the call returned
  given,  \* history: the answers the server has given to the call
  runs,   \* history: how often the server has handled the call's request
  kills,  \* how often the server has died
  born    \* history: how often it had when the call began

cvars == <<cpc, call, try, ctid, result>>
allvars == <<vars, net, cvars, given, runs, kills, born>>
-----------------------------------------------------------------------------
\* The network.
Msg(a, f) == [from |-> a, frame |-> f]

\* A datagram sent to the group comes to its members, the sender included.
Receivers(to) == IF to = Group THEN Members \cup {Server} ELSE {to}

Transmit(a, to, f, queues) ==
  \E n \in [Receivers(to) -> 0..MaxCopies] :
    /\ \A h \in Receivers(to) : n[h] > 0 => Len(queues[h]) + n[h] <= Capacity
    /\ net' = [h \in DOMAIN queues |->
                 IF h \in Receivers(to)
                 THEN queues[h] \o [i \in 1..n[h] |-> Msg(a, f)]
                 ELSE queues[h]]

Deliverable(h) == IF Fifo THEN 1..(IF net[h] = <<>> THEN 0 ELSE 1)
                  ELSE 1..Len(net[h])
-----------------------------------------------------------------------------
\* The server's socket and process.
ServerReceive ==
  \E i \in Deliverable(Server) :
    LET m == net[Server][i]
    IN  /\ Ignore(m.from, m.frame) \/ Receive(m.from, m.frame)
        /\ net' = [net EXCEPT ![Server] = RemoveAt(@, i)]
        /\ UNCHANGED <<cvars, given, runs, kills, born>>

Sends == Len(out') > Len(out)

\* A step of the handler; what it gives to sendto goes to the network.
ServerStep ==
  /\ Handle
  /\ IF Sends
     THEN Transmit(Server, out'[Len(out')].to, out'[Len(out')].frame, net)
     ELSE UNCHANGED net
  /\ LET finished == (Silent \/ Reply) /\ from \in Clients
     IN  /\ runs' = IF finished /\ req = call[from]
                    THEN [runs EXCEPT ![from] = @ + 1] ELSE runs
         /\ given' = IF finished /\ req = call[from] /\ Sends
                     THEN [given EXCEPT ![from] = @ \cup {out'[Len(out')].frame}]
                     ELSE given
  /\ UNCHANGED <<cvars, kills, born>>

ServerDies ==
  /\ kills < MaxKills
  /\ Kill
  /\ kills' = kills + 1
  /\ UNCHANGED <<cvars, net, given, runs, born>>

\* The new process has a new socket: what was queued at the old one is gone.
ServerRestarts ==
  /\ Restart
  /\ Transmit(Server, Group, announce_profile.frame, [net EXCEPT ![Server] = <<>>])
  /\ UNCHANGED <<cvars, given, runs, kills, born>>
-----------------------------------------------------------------------------
\* The client.
Idle(c) == cpc[c] # "wait"

\* _get_next_tid in the client's process.
\* Mutant: every call has the same number.
next_ctid_never(c) == 1
next_ctid(c) == (ctid[c] + 1) % TidMod

Call(c, r) ==
  /\ Idle(c)
  /\ ctid[c] < MaxCalls
  /\ LET t == next_ctid(c)
         f == RequestFrame(t, r)
     IN  /\ ctid' = [ctid EXCEPT ![c] = t]
         /\ call' = [call EXCEPT ![c] = f]
         /\ Transmit(c, Server, f, net)
  /\ cpc' = [cpc EXCEPT ![c] = "wait"]
  /\ try' = [try EXCEPT ![c] = 1]
  /\ result' = [result EXCEPT ![c] = NoFrame]
  /\ given' = [given EXCEPT ![c] = {}]
  /\ runs' = [runs EXCEPT ![c] = 0]
  /\ born' = [born EXCEPT ![c] = kills]
  /\ UNCHANGED <<vars, kills>>

\* select has waited two seconds: send again, or give up.
SendAgain(c, n) ==
  /\ try' = [try EXCEPT ![c] = n]
  /\ Transmit(c, Server, call[c], net)
  /\ UNCHANGED <<vars, cpc, call, ctid, result, given, runs, kills, born>>

\* Mutant: one transmission too many.
ResendOnceMore(c) == cpc[c] = "wait" /\ try[c] <= Retry /\ SendAgain(c, try[c] + 1)
Resend(c) == cpc[c] = "wait" /\ try[c] < Retry /\ SendAgain(c, try[c] + 1)

\* Mutant: it gives up one transmission later, which does not come.
GiveUpLate(c) ==
  /\ cpc[c] = "wait"
  /\ try[c] > Retry
  /\ cpc' = [cpc EXCEPT ![c] = "over"]
  /\ UNCHANGED <<vars, net, call, try, ctid, result, given, runs, kills, born>>

GiveUp(c) ==
  /\ cpc[c] = "wait"
  /\ try[c] = Retry
  /\ cpc' = [cpc EXCEPT ![c] = "over"]
  /\ UNCHANGED <<vars, net, call, try, ctid, result, given, runs, kills, born>>

\* sendto, select or recvfrom fails (EAGAIN apart).
Fail(c) ==
  /\ cpc[c] = "wait"
  /\ cpc' = [cpc EXCEPT ![c] = "error"]
  /\ UNCHANGED <<vars, net, call, try, ctid, result, given, runs, kills, born>>

Take(c, i) ==
  /\ cpc[c] = "wait"
  /\ LET f == net[c][i].frame
     IN  IF unmarshal_frame_response(call[c], f)
         THEN /\ cpc' = [cpc EXCEPT ![c] = "ok"]
              /\ result' = [result EXCEPT ![c] = f]
         ELSE UNCHANGED <<cpc, result>>   \* goto re_select
  /\ net' = [net EXCEPT ![c] = RemoveAt(@, i)]
  /\ UNCHANGED <<vars, call, try, ctid, given, runs, kills, born>>

Waiting(c) == Resend(c) \/ GiveUp(c) \/ \E i \in Deliverable(c) : Take(c, i)
-----------------------------------------------------------------------------
RpcInit ==
  /\ Init
  /\ net = [h \in Clients \cup {Server} |-> <<>>]
  /\ cpc = [c \in Clients |-> "idle"]
  /\ call = [c \in Clients |-> NoFrame]
  /\ try = [c \in Clients |-> 0]
  /\ ctid = [c \in Clients |-> 0]
  /\ result = [c \in Clients |-> NoFrame]
  /\ given = [c \in Clients |-> {}]
  /\ runs = [c \in Clients |-> 0]
  /\ kills = 0
  /\ born = [c \in Clients |-> 0]

RpcNext ==
  \/ ServerReceive \/ ServerStep \/ ServerDies \/ ServerRestarts
  \/ \E c \in Clients : \/ \E r \in Asks[c] : Call(c, r)
                        \/ Waiting(c)
                        \/ Fail(c)

\* select returns, with a datagram or after its time: the client goes on.  The
\* server handles what has come.  Nothing restarts it, and nobody has to call.
RpcSpec ==
  /\ RpcInit /\ [][RpcNext]_allvars
  /\ \A c \in Clients : WF_allvars(Waiting(c))
  /\ WF_allvars(ServerStep) /\ WF_allvars(ServerReceive)
-----------------------------------------------------------------------------
RpcTypeOK ==
  /\ TypeOK
  /\ net \in [Clients \cup {Server} ->
                Seq([from: Clients \cup {Server}, frame: AnyFrame])]
  /\ \A h \in DOMAIN net : Len(net[h]) <= Capacity
  /\ cpc \in [Clients -> {"idle", "wait", "ok", "over", "error"}]
  /\ call \in [Clients -> AnyFrame]
  /\ try \in [Clients -> 0..Retry]
  /\ ctid \in [Clients -> 0..MaxCalls]
  /\ result \in [Clients -> AnyFrame]
  /\ given \in [Clients -> SUBSET AnyFrame]
  /\ runs \in [Clients -> Nat]
  /\ kills \in 0..MaxKills
  /\ born \in [Clients -> 0..MaxKills]

\* A call that returns an answer returns one the server gave to this very call:
\* neither a late answer to an earlier call that waited in the socket, nor an
\* announcement, nor the answer to another client with the same transaction id.
\* So what was asked was done, or read, between the call and its return.
\* (Of an INF_REQ from a member of the group this is not true: an announcement
\* with the same number looks like its answer.  Requests has none.)
OkIsAnAnswer == \A c \in Clients : cpc[c] = "ok" => result[c] \in given[c]

\* A call's request is carried out three times at the most, or as often as the
\* network delivers the three datagrams: nothing that waits in a queue or comes in
\* answer makes it go out a fourth time, and the server takes no datagram twice.
RunsAreBounded == \A c \in Clients : runs[c] <= MaxCopies * Retry

\* Once a set was acknowledged the property holds the value, until the client
\* asks for another set or the process dies: neither copies of earlier requests nor
\* other clients can undo it.  (Each client has properties of its own, and
\* datagrams come in order.)
AcknowledgedSetStays ==
  \A c \in Clients : cpc[c] = "ok" /\ result[c].esv = "Set_Res" /\ born[c] = kills =>
    \A i \in 1..call[c].opc :
      LET it == call[c].items[i]
      IN  store[call[c].deoj][it.epc] = it.edt

\* Every call returns.
CallReturns == \A c \in Clients : cpc[c] = "wait" ~> Idle(c)

\* The traffic of a node that lives dies down when the clients' does: its answers
\* and announcements, which it hears itself, make no new ones.
NodeQuiets == <>[](pc = "dead" \/ (pc = "recv" /\ net[Server] = <<>>))
=============================================================================
