----------------------------- MODULE Elope_proofs -----------------------------
(***************************************************************************)
(* Theorems about the command socket and dev-config, for any number of runs*)
(* of it, any commands, and any deaths of the node.                        *)
(***************************************************************************)
EXTENDS Elope, Elnet_proofs, FiniteSetTheorems

Codes == {"none", "error", "success", "invalid_data",
          "noent_instance", "noent_epc", "noent_method"}
AnyCommand == Commands \cup {NoCommand}
AnyResponse == [svc: {"set", "get"}, rc: Codes, deoj: Objects, epc: EPC,
                edt: Value \cup {NoData}]
Request == [by: Procs, cmd: AnyCommand]

ElopeTInv ==
  /\ TInv
  /\ ppc \in [Procs -> {"new", "bind", "send", "wait", "close", "ended"}]
  /\ asked \in [Procs -> AnyCommand]
  /\ sends \in [Procs -> 0..SendTimes]
  /\ shown \in [Procs -> AnyResponse]
  /\ sock \in [Procs -> Seq(AnyResponse)]
  /\ path \in Procs \cup {NoOne}
  /\ queue \in Seq(Request)
  /\ estate \in {"idle", "handle", "answer"}
  /\ ereq \in [by: Procs \cup {NoOne}, cmd: AnyCommand]
  /\ estate # "idle" => ereq.by \in Procs
  /\ eres \in AnyResponse
  /\ done \subseteq Procs /\ alone \subseteq Procs
  /\ around \in [Procs -> SUBSET Procs]
  /\ kills \in 0..MaxKills
  /\ \A p \in Procs : /\ ppc[p] = "send" => sends[p] < SendTimes
                      /\ ppc[p] \in {"new", "bind"} => sends[p] = 0

-----------------------------------------------------------------------------
\* A command names an object, and its data is there when its length is not 0.
LEMMA CommandType ==
  ASSUME NEW c \in AnyCommand
  PROVE  /\ c.svc \in {"set", "get"} /\ c.deoj \in Objects /\ c.item \in Item
         /\ c.item.epc \in EPC
         /\ c.item.pdc # 0 => c.item.edt \in Value
<1>1. CASE c \in Commands
  <2>1. c \in [svc: {"set", "get"}, deoj: Objects, item: Item]
    BY <1>1, ElopeAssumption
  <2> QED
    BY <1>1, <2>1, ElopeAssumption DEF Item
<1>2. CASE c = NoCommand
  BY <1>2, ConstantsAssumption DEF NoCommand, Item
<1> QED
  BY <1>1, <1>2 DEF AnyCommand

\* The responses of the node, and what stands for none, are responses.
LEMMA ResponseType ==
  ASSUME ElopeTInv, NEW rc \in Codes, NEW edt \in Value \cup {NoData}
  PROVE  Response(rc, edt) \in AnyResponse
<1>1. ereq.cmd \in AnyCommand
  BY DEF ElopeTInv
<1> QED
  BY <1>1, CommandType DEF Response, AnyResponse

LEMMA NoResponseType == NoResponse \in AnyResponse /\ Error \in AnyResponse
BY ConstantsAssumption DEF NoResponse, Error, AnyResponse, Codes

\* The node works at a command only when its method is there.
LEMMA FoundType ==
  ASSUME ElopeTInv, NEW svc, Handling(svc)
  PROVE  /\ ereq.by \in Procs /\ ereq.cmd \in AnyCommand /\ ereq.cmd.svc = svc
         /\ ereq.cmd.item \in Item /\ ereq.cmd.item.epc \in EPC
         /\ ereq.cmd.item.pdc # 0 => ereq.cmd.item.edt \in Value
         /\ ereq.cmd.deoj \in DOMAIN Table /\ ereq.cmd.deoj \in Objects
         /\ get_property(ereq.cmd.deoj, ereq.cmd.item.epc)
         /\ PropertyOf(ereq.cmd) \in Property
<1>1. ereq.by \in Procs /\ ereq.cmd \in AnyCommand /\ ereq.cmd.svc = svc
  BY DEF Handling, ElopeTInv
<1>2. /\ get_device(ereq.cmd.deoj)
      /\ get_property(ereq.cmd.deoj, ereq.cmd.item.epc)
  BY DEF Handling, Found
<1> QED
  BY <1>1, <1>2, CommandType, ConstantsAssumption
  DEF get_device, get_property, PropertyOf

LEMMA ElopeTInit == ElopeInit => ElopeTInv
<1> SUFFICES ASSUME ElopeInit PROVE ElopeTInv
  OBVIOUS
<1>1. TInv
  BY TypeInit DEF ElopeInit
<1>2. NoCommand \in AnyCommand /\ <<>> \in Seq(AnyResponse) /\ <<>> \in Seq(Request)
  BY DEF AnyCommand
<1> QED
  BY <1>1, <1>2, NoResponseType, ElopeAssumption DEF ElopeInit, ElopeTInv, SendTimes

\* A step of a run of dev-config.
LEMMA ToolType ==
  ASSUME ElopeTInv, NEW p \in Procs,
         (\E cmd \in Commands : OpenUnlink(p, cmd)) \/ ToolStep(p)
           \/ WaitFails(p) \/ Interrupt(p)
  PROVE  ElopeTInv'
<1>1. UNCHANGED vars
  BY DEF OpenUnlink, ToolStep, OpenBind, Send, Timeout, TakeResponse, WaitFails,
         Close, Interrupt, Forget
<1>2. TInv'
  BY <1>1, TypeNext DEF ElopeTInv
<1>3. ASSUME NEW cmd \in Commands, OpenUnlink(p, cmd) PROVE ElopeTInv'
  BY <1>2, <1>3 DEF OpenUnlink, ElopeTInv, evars, AnyCommand
<1>4. CASE OpenBind(p)
  <2>1. UNCHANGED <<asked, sends, sock, evars, queue, kills, history>>
    BY <1>4 DEF OpenBind
  <2>2. path' \in Procs \cup {NoOne} /\ shown' \in [Procs -> AnyResponse]
    <3>1. path' = p \/ path' = NoOne
      BY <1>4 DEF OpenBind
    <3>2. shown' = shown \/ shown' = [shown EXCEPT ![p] = Error]
      BY <1>4 DEF OpenBind
    <3>3. shown \in [Procs -> AnyResponse]
      BY DEF ElopeTInv
    <3> QED
      BY <3>1, <3>2, <3>3, NoResponseType
  <2>3. \E e \in {"send", "ended"} : ppc' = [ppc EXCEPT ![p] = e]
    BY <1>4 DEF OpenBind
  <2>4. /\ ppc' \in [Procs -> {"new", "bind", "send", "wait", "close", "ended"}]
        /\ ppc'[p] \in {"send", "ended"}
        /\ \A q \in Procs : q # p => ppc'[q] = ppc[q]
    BY <2>3 DEF ElopeTInv
  <2>5. sends[p] = 0
    BY <1>4 DEF OpenBind, ElopeTInv
  <2> QED
    BY <1>2, <2>1, <2>2, <2>4, <2>5 DEF ElopeTInv, evars, history, SendTimes
<1>5. CASE Send(p)
  <2>1. UNCHANGED <<asked, sock, path, evars, kills, history>>
    BY <1>5 DEF Send
  <2>2. shown' \in [Procs -> AnyResponse]
    BY <1>5, NoResponseType DEF Send, ToClose, ElopeTInv
  <2>5. \E e \in {"wait", "close"} : ppc' = [ppc EXCEPT ![p] = e]
    BY <1>5 DEF Send, ToClose
  <2>6. /\ ppc' \in [Procs -> {"new", "bind", "send", "wait", "close", "ended"}]
        /\ ppc'[p] \in {"wait", "close"}
        /\ \A q \in Procs : q # p => ppc'[q] = ppc[q]
    BY <2>5 DEF ElopeTInv
  <2>3. queue' \in Seq(Request)
    <3>1. [by |-> p, cmd |-> asked[p]] \in Request
      BY DEF ElopeTInv, Request
    <3>2. queue' = queue \/ queue' = Append(queue, [by |-> p, cmd |-> asked[p]])
      BY <1>5 DEF Send
    <3>3. queue \in Seq(Request)
      BY DEF ElopeTInv
    <3> QED
      BY <3>1, <3>2, <3>3
  <2>4. /\ sends' \in [Procs -> 0..SendTimes]
        /\ \A q \in Procs : q # p => sends'[q] = sends[q]
    <3>1. sends \in [Procs -> 0..SendTimes] /\ sends[p] < SendTimes
      BY <1>5 DEF Send, ElopeTInv
    <3>2. sends' = sends \/ sends' = [sends EXCEPT ![p] = sends[p] + 1]
      BY <1>5 DEF Send
    <3> QED
      BY <3>1, <3>2 DEF SendTimes
  <2> QED
    BY <1>2, <2>1, <2>2, <2>3, <2>4, <2>6 DEF ElopeTInv, evars, history
<1>6. CASE Timeout(p) \/ WaitFails(p)
  <2>1. UNCHANGED <<asked, sends, sock, path, evars, queue, kills, history>>
    BY <1>6 DEF Timeout, WaitFails
  <2>2. shown' \in [Procs -> AnyResponse]
    BY <1>6, NoResponseType DEF Timeout, WaitFails, ToClose, ElopeTInv
  <2>3. /\ ppc' \in [Procs -> {"new", "bind", "send", "wait", "close", "ended"}]
        /\ \A q \in Procs : \/ ppc'[q] = ppc[q]
                            \/ q = p /\ ppc'[q] = "close"
                            \/ q = p /\ ppc'[q] = "send" /\ sends[q] < SendTimes
    BY <1>6 DEF Timeout, WaitFails, ToClose, ElopeTInv
  <2> QED
    BY <1>2, <2>1, <2>2, <2>3 DEF ElopeTInv, evars, history
<1>7. CASE TakeResponse(p)
  <2>1. UNCHANGED <<asked, sends, path, evars, queue, kills, history>>
    BY <1>7 DEF TakeResponse
  <2>2. sock[p] \in Seq(AnyResponse) /\ sock[p] # <<>>
    BY <1>7 DEF TakeResponse, ElopeTInv
  <2>3. sock[p][1] \in AnyResponse /\ Tail(sock[p]) \in Seq(AnyResponse)
    BY <2>2
  <2>4. /\ sock' \in [Procs -> Seq(AnyResponse)]
        /\ shown' \in [Procs -> AnyResponse]
    BY <1>7, <2>3, NoResponseType DEF TakeResponse, ToClose, ElopeTInv
  <2>5. /\ ppc' \in [Procs -> {"new", "bind", "send", "wait", "close", "ended"}]
        /\ ppc'[p] = "close"
        /\ \A q \in Procs : q # p => ppc'[q] = ppc[q]
    BY <1>7 DEF TakeResponse, ToClose, ElopeTInv
  <2> QED
    BY <1>2, <2>1, <2>4, <2>5 DEF ElopeTInv, evars, history
<1>8. CASE Close(p) \/ Interrupt(p)
  <2>1. path' \in {path, NoOne} /\ Forget(p)
    BY <1>8 DEF Close, Interrupt
  <2>2. <<>> \in Seq(AnyResponse)
    OBVIOUS
  <2> QED
    BY <1>2, <2>1, <2>2, NoResponseType DEF ElopeTInv, Forget, evars, SendTimes
<1> QED
  BY <1>3, <1>4, <1>5, <1>6, <1>7, <1>8 DEF ToolStep

\* What a step of the command handler leaves alone, besides.
LEMMA AnswerType ==
  ASSUME ElopeTInv, TInv', NEW r \in AnyResponse, ToAnswer(r),
         estate = "handle", done' \subseteq Procs
  PROVE  ElopeTInv'
BY DEF ElopeTInv, ToAnswer, pvars

\* A set that is taken: the store, what is announced, and the number of that.
LEMMA ElopeSetTakenType == ElopeTInv /\ ElopeSetTaken => ElopeTInv'
<1> SUFFICES ASSUME ElopeTInv, ElopeSetTaken PROVE ElopeTInv'
  OBVIOUS
<1>1. PICK o, it : o = ereq.cmd.deoj /\ it = ereq.cmd.item
  OBVIOUS
<1>2. /\ o \in DOMAIN Table /\ o \in Objects /\ it \in Item /\ it.epc \in EPC
      /\ (it.pdc # 0 => it.edt \in Value) /\ get_property(o, it.epc)
      /\ ereq.by \in Procs
  BY <1>1, FoundType DEF ElopeSetTaken
<1>3. TInv
  BY DEF ElopeTInv
<1>4. /\ Read(o, it) \subseteq Value
      /\ _get_next_tid \in 0..(TidMod - 1)
      /\ announce_property(o, it) \in Datagram
      /\ Believe(o, it) \in [Objects -> [EPC -> Value \cup {NoData}]]
  BY <1>2, <1>3, SetType
<1>5. PICK v \in Read(o, it) : store' = [store EXCEPT ![o][it.epc] = v]
  BY <1>1 DEF ElopeSetTaken, Stores
<1>6. /\ (out' = Append(out, announce_property(o, it)) \/ out' = out)
      /\ (tid' = _get_next_tid \/ tid' = tid)
      /\ (heard' = Believe(o, it) \/ heard' = heard)
      /\ UNCHANGED <<pc, from, req, idx, ret, res, before>>
  BY <1>1 DEF ElopeSetTaken
<1>7. TInv'
  <2>1. store' \in [Objects -> [EPC -> Value]]
    BY <1>2, <1>3, <1>4, <1>5 DEF TInv, TypeOK
  <2>2. out' \in Seq(Datagram)
    <3>1. out \in Seq(Datagram)
      BY <1>3 DEF TInv, TypeOK
    <3> QED
      BY <1>4, <1>6, <3>1
  <2>3. tid' \in 0..(TidMod - 1) /\ heard' \in [Objects -> [EPC -> Value \cup {NoData}]]
    BY <1>3, <1>4, <1>6 DEF TInv, TypeOK
  <2> QED
    BY <1>3, <1>6, <2>1, <2>2, <2>3 DEF TInv, TypeOK, ReqOK, Ignored, get_device
<1>8. done' \subseteq Procs
  BY <1>2 DEF ElopeSetTaken, ElopeTInv
<1>9. Response("success", NoData) \in AnyResponse
  BY ResponseType DEF Codes
<1> QED
  BY <1>7, <1>8, <1>9, AnswerType DEF ElopeSetTaken, Handling

\* A step of the command handler.
LEMMA ElopeHandleType == ElopeTInv /\ ElopeHandle => ElopeTInv'
<1> SUFFICES ASSUME ElopeTInv, ElopeHandle PROVE ElopeTInv'
  OBVIOUS
<1>1. ASSUME UNCHANGED vars PROVE TInv'
  BY <1>1, TypeNext DEF ElopeTInv
<1>2. CASE ElopeReceive
  <2>1. UNCHANGED vars /\ UNCHANGED <<pvars, eres, kills, history>>
        /\ queue # <<>> /\ ereq' = queue[1] /\ queue' = Tail(queue)
        /\ estate' = "handle"
    BY <1>2 DEF ElopeReceive
  <2>2. queue[1] \in Request /\ Tail(queue) \in Seq(Request)
    BY <2>1 DEF ElopeTInv
  <2> QED
    BY <1>1, <2>1, <2>2 DEF ElopeTInv, pvars, history, Request
<1>3. CASE ElopeNotFound
  <2>1. Found(ereq.cmd) \in Codes
    BY DEF Found, Codes
  <2>2. Response(Found(ereq.cmd), NoData) \in AnyResponse
    BY <2>1, ResponseType
  <2> QED
    BY <1>1, <1>3, <2>2, AnswerType DEF ElopeNotFound, ElopeTInv
<1>4. CASE ElopeSetRefused
  <2>1. Response("invalid_data", NoData) \in AnyResponse
    BY ResponseType DEF Codes
  <2> QED
    BY <1>1, <1>4, <2>1, AnswerType DEF ElopeSetRefused, Handling, ElopeTInv
<1>5. CASE ElopeSetTaken
  BY <1>5, ElopeSetTakenType
<1>6. CASE ElopeSetAborts
  <2>1. TInv'
    BY <1>6 DEF ElopeSetAborts, Gone, ElopeTInv, TInv, TypeOK, ReqOK
  <2>2. NoCommand \in AnyCommand /\ <<>> \in Seq(Request)
    BY DEF AnyCommand
  <2> QED
    BY <1>6, <2>1, <2>2, NoResponseType
    DEF ElopeSetAborts, ElopeGone, ElopeTInv, pvars, history
<1>7. CASE ElopeGet
  <2>1. store[ereq.cmd.deoj][ereq.cmd.item.epc] \in Value
    BY <1>7, FoundType DEF ElopeGet, ElopeTInv, TInv, TypeOK
  <2>2. /\ Response("success", store[ereq.cmd.deoj][ereq.cmd.item.epc]) \in AnyResponse
        /\ Response("invalid_data", NoData) \in AnyResponse
    BY <2>1, ResponseType DEF Codes
  <2> QED
    BY <1>1, <1>7, <2>2, AnswerType DEF ElopeGet, Handling, ElopeTInv
<1>8. CASE ElopeAnswer
  <2>1. TInv'
    BY <1>8 DEF ElopeAnswer, ElopeTInv, TInv, TypeOK, ReqOK, Ignored, get_device
  <2>2. sock' \in [Procs -> Seq(AnyResponse)]
    <3>1. sock \in [Procs -> Seq(AnyResponse)] /\ eres \in AnyResponse
          /\ path \in Procs \cup {NoOne}
      BY DEF ElopeTInv
    <3>2. sock' = sock \/ (path # NoOne /\ sock' = [sock EXCEPT ![path] = Append(@, eres)])
      BY <1>8 DEF ElopeAnswer
    <3>3. path # NoOne => Append(sock[path], eres) \in Seq(AnyResponse)
      BY <3>1
    <3> QED
      BY <3>1, <3>2, <3>3
  <2>3. NoCommand \in AnyCommand
    BY DEF AnyCommand
  <2> QED
    BY <1>8, <2>1, <2>2, <2>3, NoResponseType DEF ElopeAnswer, ElopeTInv, history
<1> QED
  BY <1>2, <1>3, <1>4, <1>5, <1>6, <1>7, <1>8 DEF ElopeHandle

\* A step of the other handler, or of the process as a whole.
LEMMA NodeType ==
  ElopeTInv /\ (ElnetReceive \/ ElnetStep \/ NodeDies \/ NodeRestarts) => ElopeTInv'
<1> SUFFICES ASSUME ElopeTInv, ElnetReceive \/ ElnetStep \/ NodeDies \/ NodeRestarts
             PROVE  ElopeTInv'
  OBVIOUS
<1>1. TInv'
  <2>1. Next
    BY DEF ElnetReceive, ElnetStep, NodeDies, NodeRestarts, Next
  <2> QED
    BY <2>1, TypeNext DEF ElopeTInv
<1>2. UNCHANGED <<pvars, history>> /\ kills' \in 0..MaxKills
  BY ElopeAssumption DEF ElnetReceive, ElnetStep, NodeDies, NodeRestarts, ElopeTInv
<1>3. UNCHANGED <<evars, queue>> \/ ElopeGone
  BY DEF ElnetReceive, ElnetStep, NodeDies, NodeRestarts
<1>4. CASE UNCHANGED <<evars, queue>>
  BY <1>1, <1>2, <1>4 DEF ElopeTInv, pvars, evars, history
<1>5. CASE ElopeGone
  <2>1. NoCommand \in AnyCommand /\ <<>> \in Seq(Request)
    BY DEF AnyCommand
  <2> QED
    BY <1>1, <1>2, <1>5, <2>1, NoResponseType DEF ElopeGone, ElopeTInv, pvars, history
<1> QED
  BY <1>3, <1>4, <1>5

LEMMA ElopeTNext == ElopeTInv /\ [ElopeNext]_elopevars => ElopeTInv'
<1> SUFFICES ASSUME ElopeTInv, [ElopeNext]_elopevars PROVE ElopeTInv'
  OBVIOUS
<1>1. CASE UNCHANGED elopevars
  <2>1. TInv'
    BY <1>1, TypeNext DEF elopevars, ElopeTInv
  <2> QED
    BY <1>1, <2>1 DEF elopevars, ElopeTInv, pvars, evars, history
<1> QED
  BY <1>1, ToolType, ElopeHandleType, NodeType DEF ElopeNext
-----------------------------------------------------------------------------
\* The requests of a run that wait at the node's command socket.
Sent(q, p) == {i \in 1..Len(q) : q[i].by = p}

\* They are as many as it has sent; one that has ended sends no more.
SendsOK ==
  \A p \in Procs :
    /\ Cardinality(Sent(queue, p)) <= SendTimes
    /\ ppc[p] # "ended" => Cardinality(Sent(queue, p)) <= sends[p]

LEMMA UpToCard ==
  ASSUME NEW n \in Nat
  PROVE  IsFiniteSet(1..n) /\ Cardinality(1..n) = n
<1>1. IsFiniteSet(1..n) /\ Cardinality(1..n) = IF 1 > n THEN 0 ELSE n - 1 + 1
  BY FS_Interval
<1> QED
  BY <1>1

\* The n-th request of a run, and no other of it, has n of them up to its place: so
\* with N from each run at the most, the queue is as long as there are pairs of a
\* run and a number up to N.
LEMMA QueueBound ==
  ASSUME NEW q \in Seq(Request), NEW N \in Nat,
         \A p \in Procs : Cardinality(Sent(q, p)) <= N
  PROVE  Len(q) <= N * Cardinality(Procs)
<1> DEFINE UpTo(i) == {j \in 1..i : q[j].by = q[i].by}
           f == [i \in 1..Len(q) |-> <<q[i].by, Cardinality(UpTo(i))>>]
<1>1. Len(q) \in Nat /\ \A i \in 1..Len(q) : q[i].by \in Procs
  <2>1. \A i \in 1..Len(q) : q[i] \in Request
    OBVIOUS
  <2> QED
    BY <2>1 DEF Request
<1>2. ASSUME NEW i \in 1..Len(q)
      PROVE  IsFiniteSet(UpTo(i)) /\ Cardinality(UpTo(i)) \in 1..N
  <2>1. IsFiniteSet(1..Len(q))
    BY <1>1, FS_Interval
  <2>2. IsFiniteSet(Sent(q, q[i].by))
    BY <2>1, FS_Subset DEF Sent
  <2>3. UpTo(i) \subseteq Sent(q, q[i].by)
    BY <1>1 DEF Sent
  <2>4. /\ IsFiniteSet(UpTo(i))
        /\ Cardinality(UpTo(i)) <= Cardinality(Sent(q, q[i].by))
    BY <2>2, <2>3, FS_Subset
  <2>5. Cardinality(UpTo(i)) \in Nat /\ Cardinality(Sent(q, q[i].by)) \in Nat
    BY <2>2, <2>4, FS_CardinalityType
  <2>6. Cardinality(UpTo(i)) # 0
    <3>1. i \in UpTo(i)
      BY <1>1
    <3> QED
      BY <2>4, <3>1, FS_EmptySet
  <2>7. Cardinality(Sent(q, q[i].by)) <= N
    BY <1>1
  <2> QED
    BY ONLY <2>4, <2>5, <2>6, <2>7, N \in Nat
<1>3. ASSUME NEW i \in 1..Len(q), NEW k \in 1..Len(q), i < k, q[i].by = q[k].by
      PROVE  Cardinality(UpTo(i)) # Cardinality(UpTo(k))
  <2>1. UpTo(i) \in SUBSET UpTo(k) /\ k \in UpTo(k) /\ k \notin UpTo(i)
    BY <1>1, <1>3
  <2>2. IsFiniteSet(UpTo(k))
    BY <1>2
  <2> QED
    BY <2>1, <2>2, FS_Subset
<1> HIDE DEF UpTo
<1>4. f \in [1..Len(q) -> Procs \X (1..N)]
  BY <1>1, <1>2
<1>5. \A i, k \in 1..Len(q) : f[i] = f[k] => i = k
  <2> SUFFICES ASSUME NEW i \in 1..Len(q), NEW k \in 1..Len(q), f[i] = f[k], i # k
               PROVE  FALSE
    OBVIOUS
  <2>1. q[i].by = q[k].by /\ Cardinality(UpTo(i)) = Cardinality(UpTo(k))
    OBVIOUS
  <2>2. i < k \/ k < i
    BY <1>1
  <2> QED
    BY <1>3, <2>1, <2>2
<1>6. f \in Injection(1..Len(q), Procs \X (1..N))
  BY <1>4, <1>5 DEF Injection, IsInjective
<1> HIDE DEF f
<1>7. /\ IsFiniteSet(Procs) /\ Cardinality(Procs) \in Nat
      /\ IsFiniteSet(1..N) /\ Cardinality(1..N) = N
  <2>1. IsFiniteSet(Procs) /\ Cardinality(Procs) \in Nat
    BY ElopeAssumption, FS_CardinalityType
  <2> QED
    BY <2>1, UpToCard
<1>8. /\ IsFiniteSet(Procs \X (1..N))
      /\ Cardinality(Procs \X (1..N)) = Cardinality(Procs) * N
  BY <1>7, FS_Product
<1>9. Cardinality(1..Len(q)) <= Cardinality(Procs) * N
  BY <1>6, <1>8, FS_Injection
<1>10. Cardinality(1..Len(q)) = Len(q)
  BY <1>1, UpToCard
<1>11. Cardinality(Procs) * N = N * Cardinality(Procs)
  BY <1>7
<1> QED
  BY <1>9, <1>10, <1>11

\* A request more is one more of the run that sends it.
LEMMA SentAppended ==
  ASSUME NEW q \in Seq(Request), NEW r \in Request, NEW p
  PROVE  /\ Cardinality(Sent(q, p)) \in Nat
         /\ Cardinality(Sent(Append(q, r), p)) =
              IF r.by = p THEN Cardinality(Sent(q, p)) + 1 ELSE Cardinality(Sent(q, p))
<1>1. Len(q) \in Nat /\ Len(Append(q, r)) = Len(q) + 1
      /\ \A i \in 1..Len(q) : Append(q, r)[i] = q[i]
      /\ Append(q, r)[Len(q) + 1] = r
  OBVIOUS
<1>2. IsFiniteSet(Sent(q, p))
  <2>1. IsFiniteSet(1..Len(q))
    BY <1>1, FS_Interval
  <2> QED
    BY <2>1, FS_Subset DEF Sent
<1>3. Sent(Append(q, r), p) = IF r.by = p THEN Sent(q, p) \cup {Len(q) + 1} ELSE Sent(q, p)
  BY <1>1 DEF Sent
<1>4. Len(q) + 1 \notin Sent(q, p)
  BY <1>1 DEF Sent
<1> QED
  BY <1>2, <1>3, <1>4, FS_AddElement, FS_CardinalityType

\* Taking a request out adds none.
LEMMA SentTail ==
  ASSUME NEW q \in Seq(Request), q # <<>>, NEW p
  PROVE  /\ Cardinality(Sent(Tail(q), p)) \in Nat
         /\ Cardinality(Sent(Tail(q), p)) <= Cardinality(Sent(q, p))
<1> DEFINE f == [j \in Sent(Tail(q), p) |-> j + 1]
<1>1. Len(q) \in Nat /\ Len(Tail(q)) = Len(q) - 1
      /\ \A j \in 1..(Len(q) - 1) : Tail(q)[j] = q[j + 1]
  OBVIOUS
<1>2. IsFiniteSet(Sent(q, p))
  <2>1. IsFiniteSet(1..Len(q))
    BY <1>1, FS_Interval
  <2> QED
    BY <2>1, FS_Subset DEF Sent
<1>3. \A j \in Sent(Tail(q), p) : j \in Nat /\ j + 1 \in Sent(q, p)
  BY <1>1 DEF Sent
<1>4. f \in Injection(Sent(Tail(q), p), Sent(q, p))
  BY <1>3 DEF Injection, IsInjective
<1> HIDE DEF f
<1>5. /\ IsFiniteSet(Sent(Tail(q), p))
      /\ Cardinality(Sent(Tail(q), p)) <= Cardinality(Sent(q, p))
  BY <1>2, <1>4, FS_Injection
<1> QED
  BY <1>5, FS_CardinalityType

LEMMA SentNone == \A p : Cardinality(Sent(<<>>, p)) = 0
<1>1. \A p : Sent(<<>>, p) = {}
  BY DEF Sent
<1> QED
  BY <1>1, FS_EmptySet

LEMMA SendsInit == ElopeInit => SendsOK
BY SentNone DEF ElopeInit, SendsOK, SendTimes

LEMMA SendsNext == ElopeTInv /\ SendsOK /\ [ElopeNext]_elopevars => SendsOK'
<1> SUFFICES ASSUME ElopeTInv, SendsOK, [ElopeNext]_elopevars PROVE SendsOK'
  OBVIOUS
<1>1. PICK q \in Seq(Request) : q = queue
  BY DEF ElopeTInv
<1>2. CASE queue' = queue /\ UNCHANGED <<ppc, sends>>
  BY <1>2 DEF SendsOK
<1>3. CASE \/ queue' = <<>> /\ UNCHANGED <<ppc, sends>>
           \/ queue # <<>> /\ queue' = Tail(queue) /\ UNCHANGED <<ppc, sends>>
  <2>1. \A p \in Procs : /\ Cardinality(Sent(queue', p)) \in Nat
                         /\ Cardinality(Sent(queue', p)) <= Cardinality(Sent(queue, p))
                         /\ Cardinality(Sent(queue, p)) \in Nat
    <3> SUFFICES ASSUME NEW p \in Procs
                 PROVE  /\ Cardinality(Sent(queue', p)) \in Nat
                        /\ Cardinality(Sent(queue', p)) <= Cardinality(Sent(queue, p))
                        /\ Cardinality(Sent(queue, p)) \in Nat
      OBVIOUS
    <3>1. Cardinality(Sent(q, p)) \in Nat
      <4>1. PICK r : r = [by |-> p, cmd |-> NoCommand]
        OBVIOUS
      <4>2. r \in Request
        BY <4>1 DEF Request, AnyCommand
      <4> QED
        BY <4>2, SentAppended
    <3>2. CASE queue' = <<>>
      BY <1>1, <3>1, <3>2, SentNone
    <3>3. CASE queue # <<>> /\ queue' = Tail(queue)
      BY <1>1, <3>1, <3>3, SentTail
    <3> QED
      BY <1>3, <3>2, <3>3
  <2>2. sends \in [Procs -> 0..SendTimes]
    BY DEF ElopeTInv
  <2> QED
    BY <1>3, <2>1, <2>2 DEF SendsOK, SendTimes
<1>4. ASSUME NEW p \in Procs, queue' = queue,
             \A r \in Procs : r # p => ppc'[r] = ppc[r] /\ sends'[r] = sends[r],
             ppc'[p] = "ended" \/ (ppc[p] # "ended" /\ sends'[p] = sends[p])
      PROVE  SendsOK'
  BY <1>4 DEF SendsOK
<1>5. ASSUME NEW p \in Procs, Send(p) PROVE SendsOK'
  <2>1. CASE pc = "dead"
    <3>1. /\ UNCHANGED <<queue, sends>> /\ ppc[p] # "ended"
          /\ \A r \in Procs : r # p => ppc'[r] = ppc[r]
      BY <1>5, <2>1 DEF Send, ToClose, ElopeTInv
    <3> QED
      BY <1>4, <3>1
  <2>2. CASE pc # "dead"
    <3>1. PICK r \in Request : r = [by |-> p, cmd |-> asked[p]]
      BY DEF ElopeTInv, Request
    <3>2. /\ queue' = Append(q, r) /\ ppc[p] = "send"
          /\ sends' = [sends EXCEPT ![p] = sends[p] + 1]
          /\ ppc' = [ppc EXCEPT ![p] = "wait"]
      BY <1>1, <1>5, <2>2, <3>1 DEF Send
    <3>3. /\ sends[p] \in Nat /\ sends[p] < SendTimes /\ sends'[p] = sends[p] + 1
          /\ \A g \in Procs : g # p => sends'[g] = sends[g] /\ ppc'[g] = ppc[g]
      <4>1. sends \in [Procs -> 0..SendTimes] /\ sends[p] < SendTimes
            /\ ppc \in [Procs -> {"new", "bind", "send", "wait", "close", "ended"}]
        BY <3>2 DEF ElopeTInv
      <4> QED
        BY <3>2, <4>1 DEF SendTimes
    <3>4. \A g : /\ Cardinality(Sent(q, g)) \in Nat
                 /\ Cardinality(Sent(queue', g)) =
                      IF g = p THEN Cardinality(Sent(q, g)) + 1 ELSE Cardinality(Sent(q, g))
      BY <3>1, <3>2, SentAppended
    <3>5. Cardinality(Sent(q, p)) <= sends[p]
      BY <1>1, <3>2 DEF SendsOK
    <3>6. /\ Cardinality(Sent(queue', p)) <= sends'[p]
          /\ Cardinality(Sent(queue', p)) <= SendTimes
      BY <3>3, <3>4, <3>5 DEF SendTimes
    <3> QED
      BY <1>1, <3>3, <3>4, <3>6 DEF SendsOK
  <2> QED
    BY <2>1, <2>2
<1>6. ASSUME NEW p \in Procs,
             (\E cmd \in Commands : OpenUnlink(p, cmd)) \/ ToolStep(p)
           \/ WaitFails(p) \/ Interrupt(p)
      PROVE  SendsOK'
  <2>1. CASE (\E cmd \in Commands : OpenUnlink(p, cmd)) \/ OpenBind(p) \/ Timeout(p)
             \/ TakeResponse(p) \/ WaitFails(p)
    <3>1. /\ UNCHANGED <<queue, sends>> /\ ppc[p] # "ended"
          /\ \A r \in Procs : r # p => ppc'[r] = ppc[r]
      BY <2>1 DEF OpenUnlink, OpenBind, Timeout, TakeResponse, WaitFails, ToClose, ElopeTInv
    <3> QED
      BY <1>4, <3>1
  <2>2. CASE Close(p) \/ Interrupt(p)
    <3>1. /\ queue' = queue /\ ppc'[p] = "ended"
          /\ \A r \in Procs : r # p => ppc'[r] = ppc[r] /\ sends'[r] = sends[r]
      BY <2>2 DEF Close, Interrupt, Forget, ElopeTInv
    <3> QED
      BY <1>4, <3>1
  <2> QED
    BY <1>5, <1>6, <2>1, <2>2 DEF ToolStep
<1>7. CASE \/ ElopeHandle \/ ElnetReceive \/ ElnetStep \/ NodeDies \/ NodeRestarts
           \/ UNCHANGED elopevars
  <2>1. UNCHANGED <<ppc, sends>>
    BY <1>7 DEF ElopeHandle, ElopeReceive, ElopeNotFound, ElopeSetRefused, ElopeSetTaken,
       ElopeSetAborts, ElopeGet, ElopeAnswer, ToAnswer, ElnetReceive, ElnetStep,
       NodeDies, NodeRestarts, elopevars, pvars
  <2>2. \/ queue' = queue \/ queue' = <<>>
        \/ queue # <<>> /\ queue' = Tail(queue)
    BY <1>7 DEF ElopeHandle, ElopeReceive, ElopeNotFound, ElopeSetRefused, ElopeSetTaken,
       ElopeSetAborts, ElopeGet, ElopeAnswer, ToAnswer, ElnetReceive, ElnetStep,
       NodeDies, NodeRestarts, ElopeGone, elopevars, evars
  <2> QED
    BY <1>2, <1>3, <2>1, <2>2
<1> QED
  BY <1>6, <1>7 DEF ElopeNext

\* The state of the node, of its command socket and of the runs of dev-config always
\* has its type, and no more requests wait than the runs send.
THEOREM ElopeTypeCorrect == ElopeSpec => []ElopeTypeOK
<1>1. ElopeTInv /\ SendsOK => ElopeTypeOK
  <2> SUFFICES ASSUME ElopeTInv, SendsOK PROVE ElopeTypeOK
    OBVIOUS
  <2>1. PICK q \in Seq(Request) : q = queue
    BY DEF ElopeTInv
  <2>2. Len(q) <= SendTimes * Cardinality(Procs)
    BY <2>1, QueueBound DEF SendsOK, SendTimes
  <2> QED
    BY <2>1, <2>2 DEF ElopeTInv, TInv, ElopeTypeOK, AnyCommand
<1> QED
  BY ElopeTInit, ElopeTNext, SendsInit, SendsNext, <1>1, PTL DEF ElopeSpec
-----------------------------------------------------------------------------
\* What the response r reports is what came of the command of the run q.
TrueOf(q, r) ==
  r.rc = "success" =>
    /\ r.svc = asked[q].svc
    /\ r.deoj = asked[q].deoj /\ r.epc = asked[q].item.epc
    /\ asked[q].svc = "set" => q \in done

\* The requests at the node are those of runs that have started, as they asked.
RequestsOK ==
  /\ \A i \in 1..Len(queue) :
       ppc[queue[i].by] # "new" /\ queue[i].cmd = asked[queue[i].by]
  /\ ereq.by # NoOne => ppc[ereq.by] # "new" /\ ereq.cmd = asked[ereq.by]
  /\ estate = "answer" => TrueOf(ereq.by, eres)

\* Whoever may still be answered is around every run that goes on.
AroundOK ==
  /\ \A p \in Procs : \A q \in around[p] : ppc[q] # "new"
  /\ \A p, q \in Procs : Running(p) /\ ~Settled(q) => q \in around[p]

\* What a run has received, and what it reports, is true of one around it.
ReceivedBy(p) ==
  /\ \A i \in 1..Len(sock[p]) : \E q \in around[p] : TrueOf(q, sock[p][i])
  /\ shown[p].rc \in {"none", "error", "success"}
  /\ shown[p].rc = "success" => \E q \in around[p] : TrueOf(q, shown[p])
  /\ ppc[p] \in {"new", "bind", "ended"} => sock[p] = <<>> /\ shown[p].rc # "success"

ReceivedOK == \A p \in Procs : ReceivedBy(p)

ReportsInv == RequestsOK /\ AroundOK /\ ReceivedOK

LEMMA ReportsInit == ElopeInit => ReportsInv
<1> SUFFICES ASSUME ElopeInit PROVE ReportsInv
  OBVIOUS
<1>1. \A q \in Procs : q # NoOne
  BY ElopeAssumption
<1> QED
  BY <1>1 DEF ElopeInit, ReportsInv, RequestsOK, AroundOK, ReceivedOK, ReceivedBy, NoResponse,
              Running, Settled

\* A run that starts is itself around all that go on, and whoever has not settled is
\* around it; it has received nothing.
LEMMA OpenReports ==
  ASSUME ElopeTInv, ReportsInv, NEW p \in Procs, NEW cmd \in Commands,
         OpenUnlink(p, cmd)
  PROVE  ReportsInv'
<1>1. /\ ppc[p] = "new" /\ ppc'[p] = "bind"
      /\ \A q \in Procs : q # p => ppc'[q] = ppc[q] /\ asked'[q] = asked[q]
      /\ asked'[p] = cmd
      /\ UNCHANGED <<estate, ereq, eres, done, shown, sock, queue>>
  BY DEF OpenUnlink, ElopeTInv, evars
<1>2. /\ around'[p] = {p} \cup {o \in Procs : ~Settled(o)}
      /\ \A q \in Procs : q # p => around'[q] = IF Running(q) THEN around[q] \cup {p}
                                                ELSE around[q]
  BY DEF OpenUnlink
<1>3. ereq.by \in Procs \cup {NoOne} /\ \A i \in 1..Len(queue) : queue[i].by \in Procs
  <2>1. PICK s \in Seq(Request) : s = queue
    BY DEF ElopeTInv
  <2>2. \A i \in 1..Len(s) : s[i].by \in Procs
    <3>1. \A i \in 1..Len(s) : s[i] \in Request
      OBVIOUS
    <3> QED
      BY <3>1 DEF Request
  <2> QED
    BY <2>1, <2>2 DEF ElopeTInv
<1>4. RequestsOK'
  <2>1. \A i \in 1..Len(queue) : queue[i].by # p
    BY <1>1 DEF ReportsInv, RequestsOK
  <2>2. ereq.by # p
    BY <1>1, ElopeAssumption DEF ReportsInv, RequestsOK
  <2>3. estate = "answer" => ereq.by \in Procs
    BY DEF ElopeTInv
  <2> QED
    BY <1>1, <1>3, <2>1, <2>2, <2>3 DEF ReportsInv, RequestsOK, TrueOf
<1>5. \A q \in Procs : q # p => (Settled(q) => Settled(q)')
  BY <1>1 DEF Settled, Running
<1>6. AroundOK'
  <2>1. ASSUME NEW q \in Procs, ~Settled(q) PROVE ppc'[q] # "new"
    BY <1>1, <2>1, ElopeAssumption DEF Settled, Running, ReportsInv, RequestsOK
  <2>2. \A r \in Procs : \A q \in around'[r] : ppc'[q] # "new"
    <3> SUFFICES ASSUME NEW r \in Procs, NEW q \in around'[r] PROVE ppc'[q] # "new"
      OBVIOUS
    <3>1. \/ q = p
          \/ q \in Procs /\ ~Settled(q)
          \/ q \in around[r]
      BY <1>2
    <3>2. q \in around[r] => ppc[q] # "new" /\ q \in Procs
      BY DEF ReportsInv, AroundOK, ElopeTInv
    <3> QED
      BY <1>1, <2>1, <3>1, <3>2
  <2>3. ASSUME NEW r \in Procs, NEW q \in Procs, Running(r)', ~Settled(q)'
        PROVE  q \in around'[r]
    <3>1. q = p \/ ~Settled(q)
      BY <1>5, <2>3
    <3>2. r = p \/ Running(r)
      BY <1>1, <2>3 DEF Running
    <3> QED
      BY <1>2, <3>1, <3>2 DEF ReportsInv, AroundOK
  <2> QED
    BY <2>2, <2>3 DEF AroundOK
<1>7. ReceivedOK'
  <2> SUFFICES ASSUME NEW r \in Procs
               PROVE  /\ \A i \in 1..Len(sock'[r]) :
                           \E q \in around'[r] : TrueOf(q, sock[r][i])'
                      /\ shown'[r].rc \in {"none", "error", "success"}
                      /\ shown'[r].rc = "success" =>
                           \E q \in around'[r] : TrueOf(q, shown[r])'
                      /\ ppc'[r] \in {"new", "bind", "ended"} =>
                           sock'[r] = <<>> /\ shown'[r].rc # "success"
    BY DEF ReceivedOK, ReceivedBy
  <2>1. CASE r = p
    BY <1>1, <2>1 DEF ReportsInv, ReceivedOK, ReceivedBy
  <2>2. CASE r # p
    <3>1. around[r] \subseteq around'[r]
      BY <1>2, <2>2
    <3>2. \A q \in around[r] : q \in Procs /\ q # p
      BY <1>1 DEF ReportsInv, AroundOK, ElopeTInv
    <3>3. \A q \in around[r] : \A m : TrueOf(q, m) => TrueOf(q, m)'
      BY <1>1, <3>2 DEF TrueOf
    <3> QED
      BY <1>1, <2>2, <3>1, <3>3 DEF ReportsInv, ReceivedOK, ReceivedBy, TrueOf
  <2> QED
    BY <2>1, <2>2
<1> QED
  BY <1>4, <1>6, <1>7 DEF ReportsInv
\* A step of a run concerns nobody else.
LEMMA ToolReports ==
  ASSUME ElopeTInv, ReportsInv, NEW p \in Procs,
         ToolStep(p) \/ WaitFails(p) \/ Interrupt(p)
  PROVE  ReportsInv'
<1>1. /\ Running(p) /\ ppc'[p] # "new" /\ UNCHANGED <<asked, done, evars>>
      /\ \A q \in Procs : q # p =>
           /\ ppc'[q] = ppc[q] /\ sock'[q] = sock[q]
           /\ shown'[q] = shown[q] /\ around'[q] = around[q]
  <2>1. Running(p) /\ UNCHANGED <<asked, done, evars>>
    BY DEF ToolStep, OpenBind, Send, Timeout, TakeResponse, WaitFails, Close, Interrupt,
           Forget, history, Running
  <2>2. \E e \in {"send", "wait", "close", "ended"} : ppc' = [ppc EXCEPT ![p] = e]
    BY DEF ToolStep, OpenBind, Send, Timeout, TakeResponse, WaitFails, ToClose, Close,
           Interrupt, Forget
  <2>3. \A q \in Procs : q # p =>
          sock'[q] = sock[q] /\ shown'[q] = shown[q] /\ around'[q] = around[q]
    BY DEF ToolStep, OpenBind, Send, Timeout, TakeResponse, WaitFails, ToClose, Close,
           Interrupt, Forget, history, ElopeTInv
  <2> QED
    BY <2>1, <2>2, <2>3 DEF ElopeTInv
<1>2. PICK s \in Seq(Request), r \in Request : s = queue /\ r = [by |-> p, cmd |-> asked[p]]
  BY DEF ElopeTInv, Request
<1>3. \A i \in 1..Len(queue') : (i \in 1..Len(s) /\ queue'[i] = s[i]) \/ queue'[i] = r
  <2>1. queue' = s \/ queue' = Append(s, r)
    BY <1>2 DEF ToolStep, OpenBind, Send, Timeout, TakeResponse, WaitFails, Close,
                Interrupt, Forget
  <2> QED
    BY <1>2, <2>1
<1>4. RequestsOK'
  <2>1. \A i \in 1..Len(s) : s[i] \in Request
    OBVIOUS
  <2>2. \A i \in 1..Len(s) : s[i].by \in Procs
    BY <2>1 DEF Request
  <2>3. \A q \in Procs : ppc[q] # "new" => ppc'[q] # "new"
    BY <1>1
  <2>4. ereq.by \in Procs \cup {NoOne}
    BY DEF ElopeTInv
  <2>5. ppc[p] # "new"
    BY <1>1 DEF Running
  <2>6. \A i \in 1..Len(queue') :
          ppc'[queue'[i].by] # "new" /\ queue'[i].cmd = asked[queue'[i].by]
    BY <1>2, <1>3, <2>2, <2>3, <2>5 DEF ReportsInv, RequestsOK
  <2> QED
    BY <1>1, <2>3, <2>4, <2>6 DEF ReportsInv, RequestsOK, TrueOf, evars
<1>5. \A q \in Procs : Settled(q) => Settled(q)'
  <2> SUFFICES ASSUME NEW q \in Procs, Settled(q) PROVE Settled(q)'
    OBVIOUS
  <2>1. q # p
    BY <1>1 DEF Settled
  <2> QED
    BY <1>1, <1>2, <1>3, <2>1 DEF Settled, Running, evars
<1>6. around'[p] = around[p] \/ (around'[p] = {} /\ ~Running(p)')
  BY DEF ToolStep, OpenBind, Send, Timeout, TakeResponse, WaitFails, Close, Interrupt,
         Forget, history, Running, ElopeTInv
<1>7. AroundOK'
  <2>1. \A q \in Procs : ppc[q] # "new" => ppc'[q] # "new"
    BY <1>1
  <2>2. \A q \in Procs : around'[q] \subseteq around[q] /\ around[q] \subseteq Procs
    BY <1>1, <1>6 DEF ElopeTInv
  <2>3. \A q \in Procs : Running(q)' => Running(q) /\ around'[q] = around[q]
    BY <1>1, <1>6 DEF Running
  <2> QED
    BY <1>5, <2>1, <2>2, <2>3 DEF ReportsInv, AroundOK
<1>8. PICK m \in Seq(AnyResponse) : m = sock[p]
  BY DEF ElopeTInv
<1>9. /\ \A i \in 1..Len(m) : \E q \in around[p] : TrueOf(q, m[i])
      /\ shown[p].rc \in {"none", "error", "success"}
      /\ shown[p].rc = "success" => \E q \in around[p] : TrueOf(q, shown[p])
      /\ ppc[p] = "bind" => m = <<>> /\ shown[p].rc # "success"
  BY <1>8 DEF ReportsInv, ReceivedOK, ReceivedBy
<1>10. Error.rc = "error" /\ NoResponse.rc = "none"
  BY DEF Error, NoResponse
<1>11. /\ \A i \in 1..Len(sock'[p]) : \E q \in around'[p] : TrueOf(q, sock'[p][i])
       /\ shown'[p].rc \in {"none", "error", "success"}
       /\ shown'[p].rc = "success" => \E q \in around'[p] : TrueOf(q, shown'[p])
       /\ ppc'[p] = "ended" => sock'[p] = <<>> /\ shown'[p].rc # "success"
       /\ ppc'[p] # "bind"
  <2>1. CASE OpenBind(p)
    <3>1. /\ sock' = sock /\ around' = around /\ ppc[p] = "bind"
          /\ ppc'[p] \in {"send", "ended"} /\ shown'[p] \in {shown[p], Error}
      BY <2>1 DEF OpenBind, history, ElopeTInv
    <3> QED
      BY <1>8, <1>9, <1>10, <3>1
  <2>2. CASE Send(p) \/ Timeout(p) \/ WaitFails(p)
    <3>1. /\ sock' = sock /\ around' = around
          /\ ppc'[p] \in {"send", "wait", "close"} /\ shown'[p] \in {shown[p], Error}
      BY <2>2 DEF Send, Timeout, WaitFails, ToClose, history, ElopeTInv
    <3> QED
      BY <1>8, <1>9, <1>10, <3>1
  <2>3. CASE TakeResponse(p)
    <3>1. /\ around' = around /\ m # <<>> /\ sock'[p] = Tail(m) /\ ppc'[p] = "close"
          /\ shown'[p] = IF Accepts(p, m[1]) THEN m[1] ELSE Error
      BY <1>8, <2>3 DEF TakeResponse, ToClose, history, ElopeTInv
    <3>2. /\ 1 \in 1..Len(m)
          /\ \A i \in 1..Len(Tail(m)) : i + 1 \in 1..Len(m) /\ Tail(m)[i] = m[i + 1]
      BY <3>1
    <3>3. Accepts(p, m[1]) => m[1].rc = "success"
      BY DEF Accepts
    <3> QED
      BY <1>9, <1>10, <3>1, <3>2, <3>3
  <2>4. CASE Close(p) \/ Interrupt(p)
    <3>1. sock'[p] = <<>> /\ shown'[p] = NoResponse /\ ppc'[p] = "ended"
      BY <2>4 DEF Close, Interrupt, Forget, ElopeTInv
    <3> QED
      BY <1>10, <3>1
  <2> QED
    BY <2>1, <2>2, <2>3, <2>4 DEF ToolStep
<1>12. ReceivedBy(p)'
  <2>1. asked' = asked /\ done' = done
    BY <1>1
  <2>2. \A i \in 1..Len(sock'[p]) : \E q \in around'[p] : TrueOf(q, sock[p][i])'
    BY <1>11, <2>1 DEF TrueOf
  <2>3. shown'[p].rc = "success" => \E q \in around'[p] : TrueOf(q, shown[p])'
    BY <1>11, <2>1 DEF TrueOf
  <2> QED
    BY <1>1, <1>11, <2>2, <2>3 DEF ReceivedBy
<1>13. \A q \in Procs \ {p} : ReceivedBy(q)'
  <2> SUFFICES ASSUME NEW q \in Procs \ {p} PROVE ReceivedBy(q)'
    OBVIOUS
  <2>1. /\ asked' = asked /\ done' = done /\ ppc'[q] = ppc[q] /\ sock'[q] = sock[q]
        /\ shown'[q] = shown[q] /\ around'[q] = around[q]
    BY <1>1
  <2>2. ReceivedBy(q)
    BY DEF ReportsInv, ReceivedOK
  <2> QED
    BY <2>1, <2>2 DEF ReceivedBy, TrueOf
<1>14. ReceivedOK'
  BY <1>12, <1>13 DEF ReceivedOK
<1> QED
  BY <1>4, <1>7, <1>14 DEF ReportsInv

\* The command handler: it answers to the name, so the run that has it by then gets
\* what came of the request of whoever sent it.
LEMMA HandleReports == ElopeTInv /\ ReportsInv /\ ElopeHandle => ReportsInv'
<1> SUFFICES ASSUME ElopeTInv, ReportsInv, ElopeHandle PROVE ReportsInv'
  OBVIOUS
<1>1. UNCHANGED <<ppc, asked, shown, path, around>>
  BY DEF ElopeHandle, ElopeReceive, ElopeNotFound, ElopeSetRefused, ElopeSetTaken,
     ElopeSetAborts, ElopeGet, ElopeAnswer, ToAnswer, pvars, history
<1>2. done \subseteq done'
  BY DEF ElopeHandle, ElopeReceive, ElopeNotFound, ElopeSetRefused, ElopeSetTaken,
     ElopeSetAborts, ElopeGet, ElopeAnswer, history
<1>3. \A q, r : TrueOf(q, r) => TrueOf(q, r)'
  BY <1>1, <1>2 DEF TrueOf
<1>4. ASSUME \A q \in Procs : Settled(q) => Settled(q)' PROVE AroundOK'
  BY <1>1, <1>4 DEF ReportsInv, AroundOK, Running
<1>5. ASSUME sock' = sock PROVE ReceivedOK'
  <2> SUFFICES ASSUME NEW p \in Procs
               PROVE  /\ \A i \in 1..Len(sock[p]) :
                           \E q \in around[p] : TrueOf(q, sock[p][i])'
                      /\ shown[p].rc \in {"none", "error", "success"}
                      /\ shown[p].rc = "success" =>
                           \E q \in around[p] : TrueOf(q, shown[p])'
                      /\ ppc[p] \in {"new", "bind", "ended"} =>
                           sock[p] = <<>> /\ shown[p].rc # "success"
    BY <1>1, <1>5 DEF ReceivedOK, ReceivedBy
  <2> QED
    BY <1>1, <1>2, <1>5 DEF ReportsInv, ReceivedOK, ReceivedBy, TrueOf
<1>6. \A q \in Procs : q # NoOne
  BY ElopeAssumption
<1>7. CASE ElopeReceive
  <2>1. PICK s \in Seq(Request) : s = queue /\ s # <<>>
    BY <1>7 DEF ElopeReceive, ElopeTInv
  <2>2. /\ ereq' = s[1] /\ queue' = Tail(s) /\ estate' = "handle" /\ sock' = sock
    BY <1>7, <2>1 DEF ElopeReceive, pvars
  <2>3. /\ 1 \in 1..Len(s)
        /\ \A i \in 1..Len(Tail(s)) : i + 1 \in 1..Len(s) /\ Tail(s)[i] = s[i + 1]
    BY <2>1
  <2>4. RequestsOK'
    BY <1>1, <2>1, <2>2, <2>3 DEF ReportsInv, RequestsOK
  <2>5. \A q \in Procs : Settled(q) => Settled(q)'
    BY <1>1, <2>1, <2>2, <2>3 DEF Settled, Running
  <2> QED
    BY <1>4, <1>5, <2>2, <2>4, <2>5 DEF ReportsInv
<1>8. ASSUME NEW r, ToAnswer(r), estate = "handle", TrueOf(ereq.by, r)'
      PROVE  ReportsInv'
  <2>1. estate' = "answer" /\ eres' = r /\ UNCHANGED <<queue, ereq, sock>>
    BY <1>8 DEF ToAnswer, pvars
  <2>2. RequestsOK'
    BY <1>1, <1>8, <2>1 DEF ReportsInv, RequestsOK, TrueOf
  <2>3. \A q \in Procs : Settled(q) => Settled(q)'
    BY <1>1, <2>1 DEF Settled, Running
  <2> QED
    BY <1>4, <1>5, <2>1, <2>2, <2>3 DEF ReportsInv
<1>9. estate = "handle" => ereq.by \in Procs /\ ereq.cmd = asked[ereq.by]
  BY <1>6 DEF ElopeTInv, ReportsInv, RequestsOK
<1>10. CASE ElopeNotFound
  <2>1. PICK r : r = Response(Found(ereq.cmd), NoData)
    OBVIOUS
  <2>2. r.rc # "success"
    BY <1>10, <2>1 DEF ElopeNotFound, Response
  <2> QED
    BY <1>8, <1>10, <2>1, <2>2 DEF ElopeNotFound, TrueOf
<1>11. CASE ElopeSetRefused
  <2>1. PICK r : r = Response("invalid_data", NoData)
    OBVIOUS
  <2>2. r.rc # "success"
    BY <2>1 DEF Response
  <2> QED
    BY <1>8, <1>11, <2>1, <2>2 DEF ElopeSetRefused, Handling, TrueOf
<1>12. CASE ElopeSetTaken
  <2>1. PICK r : r = Response("success", NoData)
    OBVIOUS
  <2>2. estate = "handle" /\ ereq.by \in done' /\ ToAnswer(r)
    BY <1>12, <2>1 DEF ElopeSetTaken, Handling
  <2>3. TrueOf(ereq.by, r)'
    <3>1. asked' = asked /\ asked[ereq.by] = ereq.cmd /\ ereq' = ereq
      BY <1>1, <1>9, <2>2 DEF ToAnswer
    <3>2. /\ r.svc = ereq.cmd.svc /\ r.deoj = ereq.cmd.deoj
          /\ r.epc = ereq.cmd.item.epc
      BY <2>1 DEF Response
    <3> QED
      BY <2>2, <3>1, <3>2 DEF TrueOf
  <2> QED
    BY <1>8, <2>2, <2>3
<1>13. CASE ElopeSetAborts
  <2>1. queue' = <<>> /\ ereq'.by = NoOne /\ estate' = "idle" /\ sock' = sock
    BY <1>13 DEF ElopeSetAborts, ElopeGone, pvars
  <2>2. RequestsOK'
    BY <2>1 DEF RequestsOK
  <2>3. \A q \in Procs : Settled(q) => Settled(q)'
    BY <1>1, <1>6, <2>1 DEF Settled, Running
  <2> QED
    BY <1>4, <1>5, <2>1, <2>2, <2>3 DEF ReportsInv
<1>14. CASE ElopeGet
  <2>1. PICK r : r = IF PropertyOf(ereq.cmd).getret > 0
                     THEN Response("success", store[ereq.cmd.deoj][ereq.cmd.item.epc])
                     ELSE Response("invalid_data", NoData)
    OBVIOUS
  <2>2. ereq.cmd.svc = "get" /\ estate = "handle" /\ ToAnswer(r)
    BY <1>14, <2>1 DEF ElopeGet, Handling
  <2>3. r.svc = "get" /\ r.deoj = ereq.cmd.deoj /\ r.epc = ereq.cmd.item.epc
    BY <2>1, <2>2 DEF Response
  <2>4. TrueOf(ereq.by, r)'
    <3>1. asked' = asked /\ asked[ereq.by] = ereq.cmd /\ ereq' = ereq
      BY <1>1, <1>9, <2>2 DEF ToAnswer
    <3> QED
      BY <2>2, <2>3, <3>1 DEF TrueOf
  <2> QED
    BY <1>8, <2>2, <2>4
<1>15. CASE ElopeAnswer
  <2>1. /\ estate = "answer" /\ estate' = "idle" /\ ereq'.by = NoOne
        /\ UNCHANGED <<queue, done>>
    BY <1>15 DEF ElopeAnswer, history
  <2>2. ereq.by \in Procs /\ TrueOf(ereq.by, eres)
    BY <2>1 DEF ElopeTInv, ReportsInv, RequestsOK
  <2>3. RequestsOK'
    BY <1>1, <2>1 DEF ReportsInv, RequestsOK
  <2>4. \A q \in Procs : Settled(q) => Settled(q)'
    BY <1>1, <1>6, <2>1 DEF Settled, Running
  <2>5. ~Settled(ereq.by)
    BY DEF Settled
  <2>6. ReceivedOK'
    <3> SUFFICES ASSUME NEW p \in Procs
                 PROVE  /\ \A i \in 1..Len(sock'[p]) :
                             \E q \in around[p] : TrueOf(q, sock'[p][i])
                        /\ ppc[p] \in {"new", "bind", "ended"} => sock'[p] = <<>>
      BY <1>1, <2>1 DEF ReportsInv, ReceivedOK, ReceivedBy, TrueOf
    <3>1. PICK s \in Seq(AnyResponse), r \in AnyResponse : s = sock[p] /\ r = eres
      BY DEF ElopeTInv
    <3>2. /\ \A i \in 1..Len(s) : \E q \in around[p] : TrueOf(q, s[i])
          /\ ppc[p] \in {"new", "bind", "ended"} => s = <<>>
      BY <3>1 DEF ReportsInv, ReceivedOK, ReceivedBy
    <3>3. CASE sock'[p] = s
      BY <3>2, <3>3
    <3>4. CASE sock'[p] = Append(s, r) /\ ppc[p] \in {"send", "wait", "close"}
      <4>1. ereq.by \in around[p]
        BY <2>2, <2>5, <3>4 DEF ReportsInv, AroundOK, Running
      <4>2. TrueOf(ereq.by, r)
        BY <2>2, <3>1
      <4>3. \A i \in 1..Len(Append(s, r)) :
              (i \in 1..Len(s) /\ Append(s, r)[i] = s[i]) \/ Append(s, r)[i] = r
        OBVIOUS
      <4> QED
        BY <3>2, <3>4, <4>1, <4>2, <4>3
    <3> QED
      BY <1>15, <3>1, <3>3, <3>4 DEF ElopeAnswer, ElopeTInv
  <2> QED
    BY <1>4, <2>3, <2>4, <2>6 DEF ReportsInv
<1> QED
  BY <1>7, <1>10, <1>11, <1>12, <1>13, <1>14, <1>15 DEF ElopeHandle

\* The node's other steps do not touch what is under way, or end it.
LEMMA NodeReports ==
  ElopeTInv /\ ReportsInv
    /\ (ElnetReceive \/ ElnetStep \/ NodeDies \/ NodeRestarts \/ UNCHANGED elopevars)
  => ReportsInv'
<1> SUFFICES ASSUME ElopeTInv, ReportsInv,
                    ElnetReceive \/ ElnetStep \/ NodeDies \/ NodeRestarts
                      \/ UNCHANGED elopevars
             PROVE  ReportsInv'
  OBVIOUS
<1>1. UNCHANGED <<ppc, asked, shown, sock, done, around>>
  BY DEF ElnetReceive, ElnetStep, NodeDies, NodeRestarts, elopevars, pvars, history
<1>2. ReceivedOK'
  BY <1>1 DEF ReportsInv, ReceivedOK, ReceivedBy, TrueOf
<1>3. CASE UNCHANGED <<queue, evars>>
  <2>1. RequestsOK'
    BY <1>1, <1>3 DEF ReportsInv, RequestsOK, TrueOf, evars
  <2>2. AroundOK'
    BY <1>1, <1>3 DEF ReportsInv, AroundOK, Settled, Running, evars
  <2> QED
    BY <1>2, <2>1, <2>2 DEF ReportsInv
<1>4. CASE ElopeGone
  <2>1. queue' = <<>> /\ ereq'.by = NoOne /\ estate' = "idle"
    BY <1>4 DEF ElopeGone
  <2>2. \A q \in Procs : q # NoOne
    BY ElopeAssumption
  <2>3. \A q \in Procs : Settled(q) => Settled(q)'
    BY <1>1, <2>1, <2>2 DEF Settled, Running
  <2>4. RequestsOK'
    BY <2>1 DEF RequestsOK
  <2>5. AroundOK'
    BY <1>1, <2>3 DEF ReportsInv, AroundOK, Running
  <2> QED
    BY <1>2, <2>4, <2>5 DEF ReportsInv
<1> QED
  BY <1>3, <1>4 DEF ElnetReceive, ElnetStep, NodeDies, NodeRestarts, elopevars

LEMMA ReportsNext == ElopeTInv /\ ReportsInv /\ [ElopeNext]_elopevars => ReportsInv'
BY OpenReports, ToolReports, HandleReports, NodeReports DEF ElopeNext

\* The success that a run of dev-config reports is that of a command of its own or of
\* a run around it, for any number of runs, however they overlap, are interrupted and
\* leave requests and responses behind, and however late the node is and how often
\* it dies.
THEOREM ReportsCorrect == ElopeSpec => []OkIsOfOneAround
<1>1. ElopeTInv /\ ReportsInv => OkIsOfOneAround
  <2> SUFFICES ASSUME ReportsInv, NEW p \in Procs, Reports(p)
               PROVE  \E q \in around[p] : ReportIsOf(p, q)
    BY DEF OkIsOfOneAround
  <2>1. shown[p].rc = "success"
    BY DEF Reports, ReportsInv, ReceivedOK, ReceivedBy
  <2>2. PICK q \in around[p] : TrueOf(q, shown[p])
    BY <2>1 DEF ReportsInv, ReceivedOK, ReceivedBy
  <2> QED
    BY <2>1, <2>2 DEF TrueOf, ReportIsOf
<1> QED
  BY ElopeTInit, ElopeTNext, ReportsInit, ReportsNext, <1>1, PTL DEF ElopeSpec
-----------------------------------------------------------------------------
(***************************************************************************)
(* What a listener knows, when the command socket sets properties as well. *)
(***************************************************************************)

\* The steps that are none of module Elnet's.
LEMMA OwnSteps ==
  ASSUME [ElopeNext]_elopevars
  PROVE  [Next]_vars \/ ElopeSetTaken \/ ElopeAnswer
<1>1. ASSUME NEW p \in Procs,
             (\E cmd \in Commands : OpenUnlink(p, cmd)) \/ ToolStep(p)
           \/ WaitFails(p) \/ Interrupt(p)
      PROVE  UNCHANGED vars
  BY <1>1 DEF OpenUnlink, ToolStep, OpenBind, Send, Timeout, TakeResponse, WaitFails,
         Close, Interrupt, Forget
<1>2. CASE ElopeHandle
  <2>1. CASE ElopeSetAborts
    BY <2>1 DEF ElopeSetAborts, Handling, Kill, Next
  <2>2. CASE ElopeReceive \/ ElopeNotFound \/ ElopeSetRefused \/ ElopeGet
    BY <2>2 DEF ElopeReceive, ElopeNotFound, ElopeSetRefused, ElopeGet
  <2> QED
    BY <1>2, <2>1, <2>2 DEF ElopeHandle
<1>3. CASE ElnetReceive \/ ElnetStep \/ NodeDies \/ NodeRestarts
  BY <1>3 DEF ElnetReceive, ElnetStep, NodeDies, NodeRestarts, Next
<1>4. CASE UNCHANGED elopevars
  BY <1>4 DEF elopevars
<1> QED
  BY <1>1, <1>2, <1>3, <1>4 DEF ElopeNext

LEMMA ElopeHeardNext == ElopeTInv /\ HeardOK /\ [ElopeNext]_elopevars => HeardOK'
<1> SUFFICES ASSUME ElopeTInv, HeardOK, [ElopeNext]_elopevars PROVE HeardOK'
  OBVIOUS
<1>1. CASE [Next]_vars
  BY <1>1, HeardNext DEF ElopeTInv
<1>2. CASE ElopeSetTaken
  <2>1. PICK o, it : o = ereq.cmd.deoj /\ it = ereq.cmd.item
    OBVIOUS
  <2>2. o \in DOMAIN Table /\ it \in Item /\ get_property(o, it.epc)
    BY <1>2, <2>1, FoundType DEF ElopeSetTaken
  <2>3. PICK v \in Read(o, it) : store' = [store EXCEPT ![o][it.epc] = v]
    BY <1>2, <2>1 DEF ElopeSetTaken, Stores
  <2>4. IF Table[o][it.epc].anno THEN heard' = Believe(o, it) ELSE heard' = heard
    BY <1>2, <2>1 DEF ElopeSetTaken, PropertyOf
  <2> QED
    BY <2>2, <2>3, <2>4, HeardSet DEF ElopeTInv
<1>3. CASE ElopeAnswer
  BY <1>3 DEF ElopeAnswer, HeardOK
<1> QED
  BY <1>1, <1>2, <1>3, OwnSteps

\* A listener that follows the announcements is never wrong about a property, also
\* when it is set over the command socket, by any mix of both.
THEOREM ElopeListenerCorrect == ElopeSpec => []ListenerIsRight
<1>1. ElopeInit => HeardOK
  BY DEF ElopeInit, Init, HeardOK, Unknown
<1>2. HeardOK => ListenerIsRight
  BY DEF HeardOK, ListenerIsRight
<1> QED
  BY ElopeTInit, ElopeTNext, ElopeHeardNext, <1>1, <1>2, PTL DEF ElopeSpec

\* An announced property changes only together with its announcement, whichever
\* handler changes it.
THEOREM ElopeChangesCorrect == ElopeSpec => ChangesAreAnnounced
<1>1. ElopeTInv /\ [ElopeNext]_elopevars => [AnnouncedChange]_vars
  <2> SUFFICES ASSUME ElopeTInv, [ElopeNext]_elopevars PROVE [AnnouncedChange]_vars
    OBVIOUS
  <2>1. CASE [Next]_vars
    BY <2>1, ChangeStep DEF ElopeTInv
  <2>2. CASE ElopeAnswer
    BY <2>2 DEF ElopeAnswer, AnnouncedChange
  <2>3. CASE ElopeSetTaken
    <3> SUFFICES ASSUME NEW o \in DOMAIN Table, NEW e \in DOMAIN Table[o],
                        Table[o][e].anno, store'[o][e] # store[o][e]
                 PROVE  /\ Len(out') = Len(out) + 1
                        /\ out'[Len(out')].frame.seoj = o
                        /\ out'[Len(out')].frame.items[1].epc = e
      BY DEF AnnouncedChange
    <3>1. PICK q, it : q = ereq.cmd.deoj /\ it = ereq.cmd.item
      OBVIOUS
    <3>2. q \in Objects /\ it.epc \in EPC /\ o \in Objects /\ e \in EPC
      BY <2>3, <3>1, FoundType, ConstantsAssumption DEF ElopeSetTaken
    <3>3. PICK v : store' = [store EXCEPT ![q][it.epc] = v]
      BY <2>3, <3>1 DEF ElopeSetTaken, Stores
    <3>4. store \in [Objects -> [EPC -> Value]] /\ out \in Seq(Datagram)
      BY DEF ElopeTInv, TInv, TypeOK
    <3>5. o = q /\ e = it.epc
      BY <3>2, <3>3, <3>4
    <3>6. out' = Append(out, announce_property(o, it))
      BY <2>3, <3>1, <3>5 DEF ElopeSetTaken, PropertyOf
    <3>7. Len(out') = Len(out) + 1 /\ out'[Len(out')] = announce_property(o, it)
      BY <3>4, <3>6
    <3> QED
      BY <3>5, <3>7 DEF announce_property, setup_frame
  <2> QED
    BY <2>1, <2>2, <2>3, OwnSteps
<1> QED
  BY ElopeTInit, ElopeTNext, <1>1, PTL DEF ElopeSpec, ChangesAreAnnounced
=============================================================================
