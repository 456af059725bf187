-------------------------------- MODULE Elope --------------------------------
(***************************************************************************)
(* The second way into a node: mls_elope (middleware/comm/mls_elope.c), the*)
(* command socket in the file system, and its client, the program          *)
(* tool/dev-config.  Both event handlers, this one and that of module      *)
(* Elnet, run in the process's one thread, on the same properties, and     *)
(* both announce.                                                          *)
(*                                                                         *)
(* The sockets are files of fixed names.  A run of dev-config unlinks the  *)
(* client's file and binds its own socket there; the node answers to the   *)
(* name, so to whatever socket has it by then.                             *)
(***************************************************************************)
EXTENDS Elnet

CONSTANTS
  Procs,    \* the runs of dev-config, numbered in the order they start in
  Commands, \* what they may ask: [svc, deoj, item]
  NoOne,    \* no socket has the client's name
  MaxKills  \* bound: deaths of the node's process

SendTimes == 2   \* "retry" of mls_elope_rpc

\* As in a frame, the data of a command is there when its length is not 0.
ASSUME ElopeAssumption ==
  /\ Commands \subseteq [svc: {"set", "get"}, deoj: Objects, item: Item]
  /\ \A c \in Commands : (c.item.pdc = 0) <=> (c.item.edt = NoData)
  /\ Procs \subseteq Nat /\ IsFiniteSet(Procs) /\ NoOne \notin Nat
  /\ MaxKills \in Nat

VARIABLES
  ppc,    \* a run of dev-config: "new", "bind", "send", "wait", "close" or
          \* "ended"
  asked,  \* its command
  sends,  \* how often mls_elope_rpc has sent it
  shown,  \* its result: the response it printed, or NoResponse, Error
  sock,   \* the responses queued at its socket
  path,   \* whose socket the client's name stands for
  queue,  \* the requests at the node's command socket
  estate, \* mls_elope_event_handler: "idle", "handle", "answer"
  ereq,   \* _req, and which run sent it
  eres,   \* _res
  kills,  \* how often the node's process has died
  done,   \* history: the runs whose set the setter has taken
  around, \* history: for a run that goes on, itself, the runs that had not settled
          \* when it started, and those that have started since
  alone   \* history: the run that goes on, if it has overlapped with no other

pvars == <<ppc, asked, sends, shown, sock, path>>
evars == <<estate, ereq, eres>>
history == <<done, around, alone>>
elopevars == <<vars, pvars, evars, queue, kills, history>>
-----------------------------------------------------------------------------
NoCommand == [svc |-> "get", deoj |-> Profile,
              item |-> [epc |-> InstanceList, pdc |-> 0, edt |-> NoData]]

Response(rc, edt) == [svc |-> ereq.cmd.svc, rc |-> rc, deoj |-> ereq.cmd.deoj,
                      epc |-> ereq.cmd.item.epc, edt |-> edt]
NoResponse == [svc |-> "get", rc |-> "none", deoj |-> Profile,
               epc |-> InstanceList, edt |-> NoData]
Error == [NoResponse EXCEPT !.rc = "error"]

Running(p) == ppc[p] \notin {"new", "ended"}

\* A run has gone, and nothing it sent is still to be handled.
Settled(p) ==
  /\ ~Running(p)
  /\ \A i \in 1..Len(queue) : queue[i].by # p
  /\ ereq.by # p
-----------------------------------------------------------------------------
\* dev-config.  mls_net_udgram_cln_open: unlink, then bind.
OpenUnlink(p, cmd) ==
  /\ ppc[p] = "new"
  /\ \A q \in Procs : q < p => ppc[q] # "new"
  /\ around' = [q \in Procs |->
                  IF q = p THEN {p} \cup {o \in Procs : ~Settled(o)}
                  ELSE IF Running(q) THEN around[q] \cup {p} ELSE around[q]]
  /\ alone' = IF \E q \in Procs : Running(q) THEN {} ELSE {p}
  /\ ppc' = [ppc EXCEPT ![p] = "bind"]
  /\ asked' = [asked EXCEPT ![p] = cmd]
  /\ path' = NoOne
  /\ UNCHANGED <<vars, evars, sends, shown, sock, queue, kills, done>>

\* bind fails if another run has bound since; then the name is unlinked again.
OpenBind(p) ==
  /\ ppc[p] = "bind"
  /\ IF path = NoOne
     THEN /\ path' = p
          /\ ppc' = [ppc EXCEPT ![p] = "send"]
          /\ UNCHANGED shown
     ELSE /\ path' = NoOne
          /\ ppc' = [ppc EXCEPT ![p] = "ended"]
          /\ shown' = [shown EXCEPT ![p] = Error]
  /\ UNCHANGED <<vars, evars, asked, sends, sock, queue, kills, history>>

ToClose(p, r) ==
  /\ ppc' = [ppc EXCEPT ![p] = "close"]
  /\ shown' = [shown EXCEPT ![p] = r]

\* sendto fails if no process has the node's socket open.
Send(p) ==
  /\ ppc[p] = "send"
  /\ IF pc = "dead"
     THEN ToClose(p, Error) /\ UNCHANGED <<sends, queue>>
     ELSE /\ queue' = Append(queue, [by |-> p, cmd |-> asked[p]])
          /\ sends' = [sends EXCEPT ![p] = @ + 1]
          /\ ppc' = [ppc EXCEPT ![p] = "wait"]
          /\ UNCHANGED shown
  /\ UNCHANGED <<vars, evars, asked, sock, path, kills, history>>

\* Mutant: one transmission too many.
TimeoutOnceMore(p) ==
  /\ ppc[p] = "wait" /\ sock[p] = <<>>
  /\ IF sends[p] <= SendTimes
     THEN ppc' = [ppc EXCEPT ![p] = "send"] /\ UNCHANGED shown
     ELSE ToClose(p, Error)
  /\ UNCHANGED <<vars, evars, asked, sends, sock, path, queue, kills, history>>

\* Mutant: the last wait has no time limit.
TimeoutNotTheLast(p) ==
  /\ ppc[p] = "wait" /\ sock[p] = <<>>
  /\ sends[p] < SendTimes
  /\ ppc' = [ppc EXCEPT ![p] = "send"]
  /\ UNCHANGED <<vars, evars, asked, sends, shown, sock, path, queue, kills, history>>

\* Two seconds without an answer: the request is sent once more.
Timeout(p) ==
  /\ ppc[p] = "wait" /\ sock[p] = <<>>
  /\ IF sends[p] < SendTimes
     THEN ppc' = [ppc EXCEPT ![p] = "send"] /\ UNCHANGED shown
     ELSE ToClose(p, Error)
  /\ UNCHANGED <<vars, evars, asked, sends, sock, path, queue, kills, history>>

\* select or recvfrom fails.
WaitFails(p) ==
  /\ ppc[p] = "wait"
  /\ ToClose(p, Error)
  /\ UNCHANGED <<vars, evars, asked, sends, sock, path, queue, kills, history>>

\* command: whatever came in is the response, if its service and code are right.
\* Mutant: the result code is not looked at.
AcceptsAnyCode(p, r) == r.svc = asked[p].svc
Accepts(p, r) == r.svc = asked[p].svc /\ r.rc = "success"

TakeResponse(p) ==
  /\ ppc[p] = "wait" /\ sock[p] # <<>>
  /\ sock' = [sock EXCEPT ![p] = Tail(@)]
  /\ ToClose(p, IF Accepts(p, sock[p][1]) THEN sock[p][1] ELSE Error)
  /\ UNCHANGED <<vars, evars, asked, sends, path, queue, kills, history>>

\* The process is gone, and its socket with what is queued there.  What it asked is
\* history from now on, for its requests may still be at the node.
Forget(p) ==
  /\ ppc' = [ppc EXCEPT ![p] = "ended"]
  /\ sends' = [sends EXCEPT ![p] = 0]
  /\ shown' = [shown EXCEPT ![p] = NoResponse]
  /\ sock' = [sock EXCEPT ![p] = <<>>]
  /\ around' = [around EXCEPT ![p] = {}]
  /\ alone' = alone \ {p}
  /\ UNCHANGED <<vars, evars, asked, queue, kills, done>>

\* mls_net_udgram_cln_close unlinks the name, whoever has it.
Close(p) ==
  /\ ppc[p] = "close"
  /\ path' = NoOne
  /\ Forget(p)

\* The user interrupts it: the file stays, without a socket behind it.
Interrupt(p) ==
  /\ ppc[p] = "wait"
  /\ Forget(p)
  /\ UNCHANGED path

ToolStep(p) == OpenBind(p) \/ Send(p) \/ Timeout(p) \/ TakeResponse(p) \/ Close(p)
-----------------------------------------------------------------------------
\* The node: _recv_request.
ElopeReceive ==
  /\ pc = "recv" /\ estate = "idle" /\ queue # <<>>
  /\ estate' = "handle"
  /\ ereq' = queue[1]
  /\ queue' = Tail(queue)
  /\ UNCHANGED <<vars, pvars, eres, kills, history>>

\* epr: the property, once it is found.
PropertyOf(q) == Table[q.deoj][q.item.epc]

\* The object and the property are looked up, and the function, which is there for
\* properties that the network may not access as well.
Method(q) == IF q.svc = "set" THEN PropertyOf(q).setf ELSE PropertyOf(q).getf
Found(q) ==
  CASE ~get_device(q.deoj)                 -> "noent_instance"
    [] ~get_property(q.deoj, q.item.epc)   -> "noent_epc"
    [] ~Method(q)                          -> "noent_method"
    [] OTHER                               -> "success"

Handling(svc) ==
  /\ pc = "recv" /\ estate = "handle"
  /\ ereq.cmd.svc = svc
  /\ Found(ereq.cmd) = "success"

ToAnswer(r) ==
  /\ estate' = "answer"
  /\ eres' = r
  /\ UNCHANGED <<pvars, queue, ereq, kills, around, alone>>

ElopeNotFound ==
  /\ pc = "recv" /\ estate = "handle"
  /\ Found(ereq.cmd) # "success"
  /\ ToAnswer(Response(Found(ereq.cmd), NoData))
  /\ UNCHANGED <<vars, done>>

ElopeSetRefused ==
  /\ Handling("set")
  /\ ~Aborts(ereq.cmd.deoj, ereq.cmd.item)
  /\ \E v \in Read(ereq.cmd.deoj, ereq.cmd.item) :
       PropertyOf(ereq.cmd).setret[v] <= 0
  /\ ToAnswer(Response("invalid_data", NoData))
  /\ UNCHANGED <<vars, done>>

Stores(v) == store' = [store EXCEPT ![ereq.cmd.deoj][ereq.cmd.item.epc] = v]

\* Mutant: the command socket sets without announcing.
ElopeSetTakenSilently ==
  /\ Handling("set")
  /\ ~Aborts(ereq.cmd.deoj, ereq.cmd.item)
  /\ \E v \in Read(ereq.cmd.deoj, ereq.cmd.item) :
       PropertyOf(ereq.cmd).setret[v] > 0 /\ Stores(v)
  /\ done' = done \cup {ereq.by}
  /\ ToAnswer(Response("success", NoData))
  /\ UNCHANGED <<out, tid, heard, pc, from, req, idx, ret, res, before>>

ElopeSetTaken ==
  /\ Handling("set")
  /\ ~Aborts(ereq.cmd.deoj, ereq.cmd.item)
  /\ \E v \in Read(ereq.cmd.deoj, ereq.cmd.item) :
       PropertyOf(ereq.cmd).setret[v] > 0 /\ Stores(v)
  /\ IF PropertyOf(ereq.cmd).anno
     THEN /\ out' = Append(out, announce_property(ereq.cmd.deoj, ereq.cmd.item))
          /\ tid' = _get_next_tid
          /\ heard' = Believe(ereq.cmd.deoj, ereq.cmd.item)
     ELSE UNCHANGED <<out, tid, heard>>
  /\ done' = done \cup {ereq.by}
  /\ ToAnswer(Response("success", NoData))
  /\ UNCHANGED <<pc, from, req, idx, ret, res, before>>

\* With the process its command socket goes, and what is queued there.
ElopeGone ==
  /\ estate' = "idle"
  /\ ereq' = [by |-> NoOne, cmd |-> NoCommand]
  /\ eres' = NoResponse
  /\ queue' = <<>>

ElopeSetAborts ==
  /\ Handling("set")
  /\ Aborts(ereq.cmd.deoj, ereq.cmd.item)
  /\ Gone
  /\ ElopeGone
  /\ UNCHANGED <<pvars, kills, history>>

ElopeGet ==
  /\ Handling("get")
  /\ ToAnswer(IF PropertyOf(ereq.cmd).getret > 0
              THEN Response("success", store[ereq.cmd.deoj][ereq.cmd.item.epc])
              ELSE Response("invalid_data", NoData))
  /\ UNCHANGED <<vars, done>>

\* _send_response: to the name the request came from.  Without a socket behind the
\* name the response is lost.
ElopeAnswer ==
  /\ pc = "recv" /\ estate = "answer"
  /\ estate' = "idle"
  /\ out' = <<>>
  /\ before' = store
  /\ sock' = IF path # NoOne /\ ppc[path] \in {"send", "wait", "close"}
             THEN [sock EXCEPT ![path] = Append(@, eres)] ELSE sock
  /\ ereq' = [by |-> NoOne, cmd |-> NoCommand]
  /\ eres' = NoResponse
  /\ UNCHANGED <<ppc, asked, sends, shown, path, queue, kills, history,
                 pc, store, tid, from, req, idx, ret, res, heard>>

ElopeHandle ==
  \/ ElopeReceive \/ ElopeNotFound \/ ElopeSetRefused \/ ElopeSetTaken
  \/ ElopeSetAborts \/ ElopeGet \/ ElopeAnswer

\* The node's other handler, and the death and restart of the whole process: the
\* new one has a new command socket.
ElnetReceive ==
  /\ estate = "idle"
  /\ \E a \in Address, f \in Arriving : Ignore(a, f) \/ Receive(a, f)
  /\ UNCHANGED <<pvars, evars, queue, kills, history>>

\* A setter called for a request from the network may end the process as well.
ElnetStep ==
  /\ Handle
  /\ IF pc' = "dead" THEN ElopeGone ELSE UNCHANGED <<evars, queue>>
  /\ UNCHANGED <<pvars, kills, history>>

NodeDies ==
  /\ kills < MaxKills
  /\ Kill
  /\ ElopeGone
  /\ kills' = kills + 1
  /\ UNCHANGED <<pvars, history>>

NodeRestarts ==
  /\ Restart
  /\ UNCHANGED <<pvars, evars, queue, kills, history>>
-----------------------------------------------------------------------------
ElopeInit ==
  /\ Init
  /\ ppc = [p \in Procs |-> "new"]
  /\ asked = [p \in Procs |-> NoCommand]
  /\ sends = [p \in Procs |-> 0]
  /\ shown = [p \in Procs |-> NoResponse]
  /\ sock = [p \in Procs |-> <<>>]
  /\ path = NoOne
  /\ queue = <<>>
  /\ estate = "idle"
  /\ ereq = [by |-> NoOne, cmd |-> NoCommand]
  /\ eres = NoResponse
  /\ kills = 0
  /\ done = {}
  /\ around = [p \in Procs |-> {}]
  /\ alone = {}

ElopeNext ==
  \/ \E p \in Procs : \/ \E cmd \in Commands : OpenUnlink(p, cmd)
                      \/ ToolStep(p)
                      \/ WaitFails(p) \/ Interrupt(p)
  \/ ElopeHandle \/ ElnetReceive \/ ElnetStep \/ NodeDies \/ NodeRestarts

\* A run of dev-config goes on: its select ends after two seconds at the latest.
ElopeSpec ==
  /\ ElopeInit /\ [][ElopeNext]_elopevars
  /\ \A p \in Procs : WF_elopevars(ToolStep(p))
-----------------------------------------------------------------------------
ElopeTypeOK ==
  /\ TypeOK
  /\ ppc \in [Procs -> {"new", "bind", "send", "wait", "close", "ended"}]
  /\ asked \in [Procs -> Commands \cup {NoCommand}]
  /\ sends \in [Procs -> 0..SendTimes]
  /\ path \in Procs \cup {NoOne}
  /\ estate \in {"idle", "handle", "answer"}
  /\ ereq \in [by: Procs \cup {NoOne}, cmd: Commands \cup {NoCommand}]
  /\ kills \in 0..MaxKills
  /\ done \subseteq Procs /\ alone \subseteq Procs
  /\ around \in [Procs -> SUBSET Procs]
  /\ Len(queue) <= SendTimes * Cardinality(Procs)

Reports(p) == shown[p].rc \notin {"none", "error"}

\* What p reports is what came of the command of q: it names q's object and
\* property, and if it is a set, the setter has taken q's value.
ReportIsOf(p, q) ==
  /\ shown[p].svc = asked[q].svc
  /\ shown[p].deoj = asked[q].deoj /\ shown[p].epc = asked[q].item.epc
  /\ asked[q].svc = "set" => q \in done

\* A success that dev-config reports is that of its own command or of a run that
\* went on beside it, or had left requests at the node when it started: never of one
\* that had been settled before, whatever was interrupted, sent twice or given up,
\* and however late the node is and how often it dies.  So a run that nothing is
\* around but itself reports what came of its own command.
OkIsOfOneAround ==
  \A p \in Procs : Reports(p) => \E q \in around[p] : ReportIsOf(p, q)

\* Every run of dev-config ends, whether the node answers or not.
ToolReturns ==
  \A p \in Procs : ppc[p] # "new" ~> ppc[p] = "ended"
-----------------------------------------------------------------------------
\* mls_elope.c:372 calls what mls_elope_rpc has received "OK, response packet", and
\* doc/TODO:6 names the condition, that commands are run one after the other
\* ("コマンド実行はシリアライズする必要がある").  So under that condition the success
\* a run reports is that of its own command.
OkSerialIsOwn == \A p \in alone : Reports(p) => ReportIsOf(p, p)
=============================================================================
