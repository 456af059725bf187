# Mulus in TLA+

Mulus is a middleware for ECHONET Lite nodes in C: a server that answers
requests on UDP port 3610 and announces changes to the multicast group, a
command socket in the file system as a second way in, clients for both, and the
event loop they run on. This directory holds a TLA+ model of it, the TLC runs
that check the model on small instances, and proofs that TLAPS checks.
`PROJECT.json` lists the runs, the lines of the source each definition stands
for, the mutants that show each property can fail, and the hazards.

    tlc -workers 2 -config MCElnet.cfg MCElnet      # one run
    tlapm Elnet_proofs.tla                           # the proofs

Paths below are under `src/`; `mw` stands for `middleware`.

## The system

| Part | State | Operations | Talks to |
|---|---|---|---|
| Server, `mw/comm/mls_elnet.c` | `_tid`, the request and response buffers (static) | `mls_elnet_event_handler`, `mls_elnet_announce_property`, `..._profile`, `mls_elnet_init` | called by the loop; calls the setters and getters; datagrams |
| Client, `mls_elnet_rpc` and `tool/el-prop` | its own `_tid`, try count | `mls_elnet_rpc` | a server, over UDP |
| Discovery, `mls_elnet_infreq` and `tool/el-discover` | entries collected so far | `mls_elnet_infreq` | every node of the group |
| Objects, `mw/comm/mls_obj.c`, `mls_node.c`, `sample/temp_sensor` | the node's devices and their property tables; the values | look-up, property maps, class and instance lists, setters, getters | called by both servers |
| Command socket, `mw/comm/mls_elope.c`, and `tool/dev-config` | static `_req`/`_res`; the socket files | `mls_elope_event_handler`, `mls_elope_rpc` | setters, getters, the announcer of the server |
| Event loop, `mw/util/mls_evt.c` | lists of descriptors and of timers, timeout, time of the last timer round, active flag | add, delete, timeout, deactivate, dispatch | calls every handler |
| Context and start, `mw/comm/mls_el.c`, `sample/temp_sensor/main.c` | the context | create, destroy, `init`, `run` | all of the above |
| Sockets, `mw/util/mls_net.c` | sockets, group membership, names in the file system | open, bind, close of UDP, multicast and Unix-domain datagram sockets | |
| Configuration store, `mw/util/mls_config.c` | list of key and value, the file | load, get, set, delete, store | only its own test |
| Conversions, `mw/util/mls_type.c`; log, `mls_log.c` | none | byte order; output | |

A node is one process with one thread. Its loop calls the handler of the UDP
socket and the handler of the command socket; both run setters on the same
properties and both announce to the group. No handler is interrupted by
another, but the process can die between any two steps, its datagrams are
lost, copied, delayed and reordered, and its clients are processes of their own.

What is hard here, and what makes each part correct:

- **Server.** Setters run and announcements leave item by item, before it is
  known whether the frame is complete and whether it will be answered at all.
  The answer must be one the client recognises, must report per property what
  was done, and whoever follows the announcements must never be wrong.
- **Client.** Answers are late, copied, or of another client: transaction ids
  start at 1 in every process. A successful call must have been answered, and
  its set must last; calls must return; retries are bounded.
- **Command socket.** The client's socket has one fixed name. A response must
  not be taken by the wrong run, a run must end even if the node does not
  answer, and what is set this way must be announced like everything else.
- **Event loop.** Handlers change the lists the loop goes along, and read from
  descriptors that were ready a few handlers ago. Nobody may starve, `select`
  may never sleep beyond the timers, `recvfrom` may never block.
- **Store.** The file must survive a death or a power failure at any moment, and
  a list that changes under an iterator must not hide entries from it.
- **Discovery.** Anyone's datagrams come into the same entries. What is printed
  must be so; an answer that was taken must count; the entries are few, are
  used again in the next round, and keep what an earlier datagram left in them.
- **Lists and maps.** Two encodings of a property map, a count of eight bits,
  buffers at their limit. **Conversions.** What is written must be read again,
  for every number, and nothing beyond the room there is. **Start.** The failure
  paths of `init`.

The tests of the repository are programs run by hand (`mw/test`); the protocol
has none.

## The modules

    Frame            services, frames, the matching of an answer to a request
      Elnet          the server and the process it lives in
        Elnet_proofs   theorems about Elnet
        ElnetRpc       clients + network + Elnet
          ElnetRegister    how ElnetRpc is the register of RemoteProperty
          ElnetRpc_proofs  theorems about both; uses Elnet_proofs
        Elope          command socket + dev-config + Elnet, one process
          Elope_proofs     theorems about Elope; uses Elnet_proofs
      Discover       el-discover + network + nodes seen from outside
        Discover_proofs  theorems about Discover and NodeObjects; uses
                         SequenceLemmas
    NodeObjects      property maps, instance and class lists (operators only);
                     used by Discover
    RemoteProperty   abstract: what a client may rely on; ElnetRegister maps to it
    Evt              the event loop
      Evt_proofs       theorems about Evt
    Conf             the configuration store
      Conf_proofs      theorems about Conf
    Types            conversions of mls_type, with their theorems
    SequenceLemmas   facts about RemoveAt, concatenation, counting, and loops over
                     lists for the proofs
    MCElnet, MCElnetRpc, MCElope, MCDiscover, MCEvt, MCConf   instances for TLC

### Frame, Elnet

One action per step of the handler that others can notice or interrupt.

| Code | Model |
|---|---|
| `recvfrom` and the tests of `_handle_message` | `Receive`, `Ignore` with `Ignored` |
| one turn of the loops in `_set_properties`, `_get_properties`, `_inf_properties` | `SetNoProperty`, `SetRefused`, `SetTaken`, `SetAborts`; `GetTaken`, `GetRefused`; `InfItem` |
| the bounds tests in them | `CutFrame`, `GetWithData` |
| the end of `_handle_message`, `sendto` | `Silent`, `Reply` |
| return to the loop | `Return` |
| `_get_next_tid`, `mls_elnet_announce_property`, `_profile` | the operators of these names |
| assertion failure or kill; `main` | `Kill`, `SetAborts`; `Restart` |

`pc` is the place in the handler, `idx` the turn of its loop, `ret` and `res`
the code's variables, `out` the datagrams of this handler so far, `store` the
values of the properties. Two variables are history: `before` is `store` when
the datagram came, `heard` what a listener in the group believes that takes
every announcement for the property's value.

The node's properties are a parameter. `Table[o][e]` is the `struct mls_epr`
of a property: its access flags, whether it has a setter and getter, whether it
is announced, and, in place of the C functions, what they do with each value:
the setter's result (at most 0: refused), its data size, and whether it asserts
that size (`mls_type_get_short` does). A setter that does not assert and is
given too few bytes reads the bytes after them: `Read` is then any value.
Setters that return 0, which `mls_obj.h:164` allows for an error, are answered
as a success by `mls_elnet.c:370`; the repository has none and
`SetReportIsTrue` assumes none.

`Frame` keeps of a frame its header check `ehd`, transaction id, objects,
service, counts and items. `LowNibble` and `unmarshal_frame_response` do what
the code does with the service codes, not what the standard says.

### ElnetRpc

`mls_elnet_rpc` per client (`Call`, `Resend`, `Take`, `GiveUp`, `Fail`), the
server's steps from `Elnet`, and `net`, the datagrams on the way to each
socket or queued at it. `Transmit` delivers each copy 0 to `MaxCopies` times;
`Take` may pick any of them unless `Fifo`. A multicast reaches the members,
its sender among them, since the code leaves the loop-back of multicasts at its default, on. `el-prop`
binds a unicast port of its own (`Members = {}`); a program that calls
`mls_elnet_rpc` with the node's own multicast socket is a member. `Asks` says
which client asks what.

### RemoteProperty, ElnetRegister

The abstract specification of a property that one client alone sets: a register
with calls that may fail. `may` is what calls so far may still store. A call
adds its value; a failure says nothing; a success needs the value to be there
and nothing else to be in `may`. When the process dies, what it acknowledged is
void, and the next one begins with the value the property starts with.
`ElnetRegister` maps `ElnetRpc` to it for one client and one property of it:
`value` is the property in the server, `may` the values in the client's set
requests that are queued, that the server is about to look at, and that the
client would send again; an answer that refuses the set is a failure, and so is
one that a process gave that has died since.

This is so under conditions, which `LoneSetter` states. The client only sets
this property, and no other client does: others may read it, or set what they
like besides. The network keeps the order (on one segment it does; over UDP in
general nothing promises it); no setter reports an error as 0, and a set has all
the data of the property: the code answers a set with success in both cases
though it stores nothing of what was asked, or bytes that were not in the
request. `SeparateSetters` is the part of it about all clients, which
`AcknowledgedSetStays` needs: no two clients set the same property. The run
`rpc_fifo` meets both.

### Elope

The life of a run of `dev-config` (`OpenUnlink`, `OpenBind`, `Send`,
`Timeout`, `WaitFails`, `TakeResponse`, `Close`, `Interrupt`) and the handler
(`ElopeReceive` to `ElopeAnswer`). `path` is the socket the client's name
stands for. `EXTENDS Elnet`: the two handlers share `store`, `tid`, `out` and
`heard`, and one runs only while the other does not. History: `done`, whose
set the setter took; `around[p]`, for a run that goes on, itself, the runs that
had not settled when it started (one settles when it has ended and none of its
requests is still at the node) and those that have started since; `alone`, the
run that goes on if it has overlapped with no other. When the process dies, by
an assertion in a setter called from either handler or otherwise, its queue goes
with it (`ElopeGone`); the name of its socket stays, and sending to it fails.

### Evt

`mls_evt_dispatch` from `Top` to `FdsDone`, with `Body`, what a handler does to
the loop, inside `CallTimer` and `CallFd`. In one call a handler may delete any
handles of each list but its own and add others behind them, set the timeout, and
deactivate the loop; all handlers of one round of the loop add at most `MaxAdded`
handles (`added` counts them). `mls_evt_add_handle` would take a second handle for a
descriptor or a key that has one, and one for a descriptor that was closed and opened
again in this round; `Body` does neither. `cur` is the position of `mls_dlink_loop`;
`Advance` reads the next handle after the handler has run, as the macro does. `mask`,
`left` and `ready` are cleared where the code does not look at them again before it
sets them. Time is the age of `prev_timeout`, up to `MaxAge`;
`ClockSetBack` takes `Back` seconds from it, for the code asks `time(NULL)`. A
clock set forward, which makes `select` wait too long by that clock, is left out.

### Conf

The list, the iterator's pointer (`itr`, an index that shifts with deletions),
and `mls_conf_store` step by step: `Store`, `WriteLine`, `SyncWork`, `Rename`,
`Settle`. `file` is what processes see; `durable` is the set of contents a power
failure may leave: a rename that is not synced yet may or may not be there, and
may be there before its data. `Reload` is what a line with a value is read as
(a blank value is not read, one longer than the buffer of 256 is cut). `Kill`
and `PowerFailure` may come between any two steps, `WriteLine` and `Rename` may
fail; the code does not look.

### NodeObjects, Discover

`NodeObjects` has the operators that build what a node says of itself: the two
encodings of a property map into a buffer, of one object
(`mls_eoj_get_property_map`) and of all the devices of a node (`..._in_node`,
with the offset it computes), the getters of the sample around them, and the
lists of instances and classes. `Decode` is how a reader of the map by the
standard understands it. A loop of the code over properties or devices is a
function on the number of turns taken, `found`, `num` and `done`, so that it can
be proved about turn by turn.

`Discover` is `mls_elnet_infreq` (`Send`, `Take`, `Silence`, `Fails`) inside
`command` of `el-discover` (`Examine`). `resl` holds what is in the entries,
left-overs included: `Received` writes over an entry what the datagram has, and
a datagram without data leaves the bytes that were there. The nodes are seen
from outside: `NodeAnswers`, `NodeRestarts` (an announcement that looks like an
answer, and a queue that is gone), `NodeAnnounces` (other properties, other
objects, under any number). The tool is in the group and hears its own request.
What a node answers is computed by `NodeObjects`. An answer is taken to be whole:
what reads a cut one would be a claim about memory, not about the protocol.

### Types

`mls_type.c` as operators on byte sequences and digit sequences: a shift is a
division, a mask a remainder, a `|` of disjoint parts a sum. No run: it has no
state, and its theorems say more than any sample of 2^64 values could.

## The runs

Every passing run also shows that the actions of its module can be taken;
times are for two workers.

**elnet** (`MCElnet.cfg`). Two objects and a third the node does not have; a
property that is validated and announced, one that asserts its length, one
that cannot be set. All frames of every service up to two items, with counts
that fit, exceed or fall short of them: two items are enough for "one refused,
one taken, in either order", for a property that comes twice and for a frame
cut in its second item. Kills at any step.
- `AnswerIsRecognised`: one answer at the most, last, accepted by the client's
  own matching, with the request's properties in order (INFC apart, see below).
- `SetReportIsTrue`: what the response says so far of each property is what
  its value is.
- `SuccessMeansAll`: Set_Res and Get_Res speak for every property.
- `ListenerIsRight`, `ChangesAreAnnounced`: the announcements tell the truth
  and no announced property changes in silence, whatever is refused, cut,
  repeated or killed.
- `HandlerEnds`: every handler comes back to the loop (or the process dies).
- `TypeOK`.

**rpc_fifo**. One client that calls twice, each time with one of three sets, the
third to a value the property refuses, over a network that keeps the order and
loses, and one death of the node's process at any moment, which may stay dead or
begin anew. `AcknowledgedSetStays` (the copies of the first set cannot undo the
second), `CallReturns`, `NodeQuiets` (answers and announcements, which the node
hears itself, provoke no others), `RpcTypeOK`, and `ImplementsRegister`: the
client and its node implement `RemoteProperty` under the mapping above, its
liveness (`Returns`) included. Two calls are needed for one to disturb the
other; a request is carried out again because the client sends it again; queues
of two. Copies the network makes itself are in `rpc_late`. Several clients, more
calls and copies: by proof.

**rpc_late**. One client in the group, order not kept, one death of the
server. `OkIsAnAnswer`: a frame that is returned was given to this call;
`RunsAreBounded`: at most `3 * MaxCopies` executions. With two calls an answer
to the first may arrive in the second. That two clients with the same
transaction ids, both in the group, take only their own answers is proved for
any number of them (`OkCorrect`).

**elope**. Two runs of `dev-config` in every overlap, either interrupted at any
time, one kill of the node besides the assertion. Three commands, one for each
way a command that is found can end: a set that is taken or refused, a set that
ends the process, a get. `OkIsOfOneAround`: a success that a run reports is that
of its own command or of one of the runs around it, and if that was a set, the
setter has taken it; so a run with nobody around it reports what came of its own
command. `ToolReturns`: each run
ends; `ElopeTypeOK`. Runs are numbered in the order they start, which loses
nothing. No requests from the network here: they and the command socket meet in
`elope_both`.

**elope_both**. One run with every command, requests from the network that set
the same properties, and a kill: `ListenerIsRight`, `ChangesAreAnnounced` hold
with two ways of setting, one of which may set what the other may only read.

**evt**. Two descriptors, two timers, timeouts -1 and 2, ages up to 4, one
failure of `select` or one setting back of the clock by two seconds; in a round of
the loop any deletions and one addition (`MaxAdded`): enough for a handler that
deletes its neighbour, before it or behind it, and for one that in the same call
adds it again, behind all others.

- `LoopStaysInList`, `HandlerFindsData`, `WakesInTime`, `EvtTypeOK`; they are also
  proved, for any `MaxAdded` and any timeouts.
- `FdServed`: the handler of every descriptor with data is called, not passed.
- `TimersServed`: every timer is called, however busy the descriptors are.
- `DeactivateReturns`: the loop returns after it was deactivated.

The liveness needs a bound on the additions of a round, whatever it is: a timer
that deletes another and adds it again puts it behind itself, and two timers that
do this to each other without end keep `mls_dlink_loop` in the list for ever.

**discover**. Two nodes, one with two devices of which the second is looked for,
one that refuses; two entries, so that they run out; three rounds, as in the
code; at most three datagrams under way, each copied up to twice, one thing
said unasked, one failing call. Three datagrams are an answer, a copy of it for
the next round, and something that is no answer.
- `PrintedIsThere`: a host that is printed has the instance, whatever the
  entries held before.
- `AnswersCount`: if no call failed, the printed hosts are those whose answers
  named the instance; "not found" means no answer did.
- `DiscoverReturns`: it ends, though nobody answers or much is said.
- `SelfReportIsRight`, for the objects and nodes of `Objects` and `Builds`: maps of 0 to 40 properties with every choice of accesses,
  both sides of the border at 16, decode to the properties that have the access;
  the profile's map is right for one device, and for two in the list form; lists
  of up to the 84 devices there is room for name each device and no other.
- `DiscoverTypeOK`: also, while `select` waits there is an entry left to
  receive into.

**conf**. Two keys, a plain and a blank value, files with a comment, a line
that is no entry, and a key that comes twice; five calls of set, delete or
store, one fault, any number of deaths and power failures. `OldOrNew`: the file
is never half written; `StoredIsRead`: what a store that has returned wrote is
what the next load reads, whatever happens in between; `IterationIsComplete`:
deletions and additions during an iteration hide nothing from it;
`ConfTypeOK`. Five calls are a store, changes, a second store, and a change
after it.

### Where code and documentation differ

Four runs end in a counterexample to something the repository says. Each
follows from the code alone.

- **sna_address** `SnaGoesToRequester`: an INF_REQ that is refused is answered
  to the group (`mls_elnet.c:640`), where `doc/echonet-lite_spec:66` and the
  comment at `mls_elnet.c:542` have the refusal go to the requester.
- **announced_content** `AnnouncementCarriesContent`: a set with no data stores
  some value and announces an empty item, for the announcement repeats the
  request's data; `mls_elnet.c:654` says it announces the property's content.
- **infc_answer** `InfcAnswerIsRecognised`: the client's matching compares the
  low halves of the service codes, 4 for INFC and 10 for its answer.
- **elope_serial** `OkSerialIsOwn`: `doc/TODO:6` says that commands have to be
  run one after the other, and `mls_elope.c:372` calls what `mls_elope_rpc` has
  received the response. Also of two runs of `dev-config` one after the other the
  second can report the first one's success, for the response to a request of a
  run that was interrupted or gave up goes to whoever has the client's name by
  then. (That overlapping runs take each other's responses is within
  `OkIsOfOneAround`.)

Seen in the source without a run:

- `el-discover` has a loop for three rounds, but asks again only when answers
  came and none fitted: when nobody answers, `mls_elnet_infreq` returns -1,
  which `tool/el-discover/main.c:186` takes for an error.
- An answer left in its socket is read in the next round, whose entries it uses.
- `mls_eoj_get_property_map_in_node` advances its buffer by the number of all
  properties so far (`mls_obj.c:100`): from the third device on the list has
  gaps of unwritten bytes. In the bit-map form each device clears the map of
  those before it. `NodeMapIsRight` excludes these nodes.
- The maps of the profile (`sample/temp_sensor/profile.c:42`) are about the
  devices; the profile's own properties are not in them.
- `mls_node.c:72` and `:94` comment the count as the number of classes; it is
  the number of instances in both lists, and a class with two instances is in
  the class list twice.
- `mw/include/mls_el.h:14` has timers every 60 s where the
top README, line 38, says 10 s; that README, lines 27-28, admits that SetGet is not answered.

- `mls_conf_load` passes over lines it does not understand, so `mls_conf_store`
drops the `[dummy-section]` line of `mw/test/test.ini.org`.

## Fairness

Only what the code's scheduling gives:

- `WF(Handle)`: a single thread that is inside a handler goes on. Requests,
  deaths and restarts are not assumed to happen.
- `WF(Waiting(c))` for a client: its `select` has a timeout of two seconds, so
  it either takes something or goes on. `WF(ServerStep)`, `WF(ServerReceive)`:
  a living server handles what has come; a dead one need not come back.
- `WF(ToolStep(p))`: the same for `dev-config`; nothing is assumed of the node,
  so `ToolReturns` is about a node that hangs, too.
- `WF(ToolStep)` of `Discover`: its `select` has a timeout of three seconds.
  The nodes owe nothing.
- `WF(Dispatch)`, `WF(Tick)` for the loop: the process runs and time passes.
  Neither arrivals nor any choice of a handler is assumed.

In the code a datagram that is no answer restarts the two seconds, so a stream
of them without end holds a client for ever. `CallReturns` holds because the
traffic in the model ends when the calls do; it is no claim about an endless
stream. `DiscoverReturns` likewise: what is said unasked is bounded.

## What is proved

Every safety invariant and action property the passing runs check, and that
`ElnetRpc` implements `RemoteProperty`, for every value of the constants that the
named assumptions allow; `SetReportIsTrue`, `AcknowledgedSetStays` and the
implementation under conditions, stated below.

`Elnet_proofs`, for every property table, every set of frames and addresses
and every number of transaction ids, from `ConstantsAssumption` (types of the
tables; `Profile` has the instance list; at least two ids) and
`ArrivingAssumption` (what arrives is a frame; data that is there is a value).

- `TypeCorrect`: `Spec => []TypeOK`. Inductive with `ReqOK`: the request
  buffer holds a frame from the network, one that was not ignored while it is
  being handled. Without it the types of the current item are unknown.
- `ListenerCorrect`: `Spec => []ListenerIsRight`. Not inductive: a property
  that is stored without an announcement might be one a listener believes to
  know. `HeardOK` adds that whatever has ever been heard of is a property with
  the announcement flag. The one step that matters is `SetTaken`
  (lemma `HeardSetTaken`); no other changes `store` and `heard` but a restart,
  which clears both.
- `ChangesCorrect`: `Spec => ChangesAreAnnounced`, by the same case analysis.
- `AnswerCorrect` (`AnswerIsRecognised`) and `SuccessCorrect`
  (`SuccessMeansAll`) from one invariant, `AnswerInv`: until the loop over the
  items is done nothing but announcements has been sent (`Quiet`), and the
  response holds the properties handled so far, in the request's order
  (`Collected`), none of them refused while the result is still good
  (`AllDone`). `ReplyAnswers` then shows that the frame `Reply` makes of it
  passes the client's matching.
- `SetReportCorrect`: `Spec => [](SettersTellErrors => SetReportIsTrue)`. The
  condition is that no setter reports an error as 0; it cannot be dropped, for
  the code answers a 0 as a success. `SetInv` adds that nothing is stored before
  the loop over the items begins.
- `HandlerDescends`: every step of a handler lowers `StepsLeft`, a natural
  number: the items left to look at, the answer, the return. So a handler ends
  whatever the counts of its frame say. `HandlerEnds` itself also needs that
  some step is enabled until then, and the fairness of `Handle`; these TLC
  checks.

`ElnetRpc_proofs`, for any number of clients, calls, copies and kills, ordered
or unordered delivery, from the assumptions above and `RequestAssumption` (what
clients ask and servers announce is among what may arrive; no INF_REQ):

- `RpcTypeCorrect`, and `OkCorrect`: `RpcSpec => []OkIsAnAnswer`. The invariant
  `RpcInv` says of every datagram under way what it is: a request of a client
  with a number not above the client's last one; an announcement; or an answer
  to a request of its receiver, whose number, if it is that of the present call,
  makes it one of the answers given to that call. Two clients may well use
  the same number: an answer goes to the address its request came from, so it is
  the numbers of one client that must differ, which `MaxCalls < TidMod` ensures
  (in the code: fewer than 65536 calls of one process). An announcement is no
  answer because its service code's low half is none of the expected ones.

- `RunsCorrect`: `RpcSpec => []RunsAreBounded`. `CopiesOK` counts: the runs of a
  call so far, the one the server is at, and the copies of the request that wait
  for it (the cardinality of their places in the queue, `Places`) are together at
  most `MaxCopies` for each transmission. That a new call starts with none needs
  `RpcInv`: no request under way has a number above the client's last.

- `AcknowledgedCorrect`: `RpcSpec => [](SeparateSetters => AcknowledgedSetStays)`,
  for clients that may each set several properties, and read any. The property
  is not inductive: it needs to know why no older copy comes behind the
  acknowledged one. `LoneInv` adds to `RpcInv`, besides what a handler starts with
  (`FreshOK`) and the numbers of the present calls (`NumberOK`):
  `OrderOK`: each client's requests in the server's queue are in the order of
  their numbers, none below the one of its that is at work; `SeenOK`: when the
  server has answered a client's present call, all requests of the client in the
  queue and at work are that call's; `PartOK`: what a handler has set so far
  without a refusal is stored; `GivenOK`: what was acknowledged to a call that
  began in the life of the process is stored; `BornOK`: a dead process has
  answered no call that began after its death. `OrderOK` gives `SeenOK` when the
  answer leaves, since no request of a client has a number above its present
  one; `SeenOK` keeps `GivenOK` when a copy is carried out once more, since it is
  the same request and `WholeSet` excludes that an item is undone by a later one
  (`SetKeepsStored`); what another client sets is another property
  (`SetKeepsOthers`). A restart empties the socket and makes every call older
  than the process, so that it keeps all of them (`LoneRestarts`).
- `RegisterImplemented`: `LoneSetter /\ RpcSpec => Register!Safety`, step by step
  from `LoneInv` (lemma `RegisterStep`): a call is `Call`; a step of the handler
  that stores is `Store`; an answer taken is `Succeed` if it is a Set_Res and
  `Fail` if not; `GiveUp` and `Fail` of `ElnetRpc` are
  `Fail`; `ServerDies` is `Die` and `ServerRestarts` is `Restart`; the rest, all
  that other clients do included (`OthersForget`, `OthersStoreElsewhere`), may
  only take something out of `StillToCome`. That `Succeed` leaves nothing to come
  is `SeenOK`, and that it happens in a process that lives is `BornOK`.
- `RegisterCorrect`: with a client whose calls return that is
  `ImplementsRegister`. That they return (`CallReturns`) is liveness, and
  `rpc_fifo` checks it.
- `RegisterOkStays`: `OkStays` of `RemoteProperty`, so for `ElnetRpc`: an
  acknowledged value is there until the client calls again or the process dies.

`Elope_proofs`, for any number of runs of `dev-config`, commands, interruptions
and deaths of the node, from `ElopeAssumption` (the runs are numbers, finitely
many; a command has data when its length is not 0) and those of `Elnet`:

- `ElopeTypeCorrect` (`ElopeTypeOK`). `ElopeTInv` has the types of both handlers;
  the bound on the queue needs `SendsOK`: each run has no more requests there
  than it has sent, and there are finitely many runs.
- `ReportsCorrect` (`OkIsOfOneAround`), for every overlap, interruption and left-over
  request. `ReportsInv` has three parts. `RequestsOK`: each request at the node is
  what its run asked, and the response about to be sent is true of that run
  (`TrueOf`). `AroundOK`: whoever has not settled is around every run that goes
  on. `ReceivedOK`: each response queued at a run's socket, and the one it took, is
  true of a run around it. The node answers to the name, so to any run; that the
  run it answers for is around that one is `AroundOK`, for a request at work has
  not settled. A run that ends or is interrupted loses its socket and what is
  queued there, and a run that begins has an empty one.
- `ElopeListenerCorrect`, `ElopeChangesCorrect` (`ListenerIsRight`,
  `ChangesAreAnnounced`): the steps of the UDP handler are those of `Elnet`, and
  its lemmas are used again; `ElopeSetTaken`, the one of the command socket that stores,
  announces a property that is to be announced.

`Evt_proofs`, for any descriptors, keys, timeouts and clock, from
`EvtAssumption`:

- `EvtTypeCorrect`; `ListCorrect` (`LoopStaysInList`): a handler that deletes
  any handle but its own leaves `cur` in its list (`InList`).
  What one call of a handler leaves of a list is lemma `ChangedList`, for any
  number of deletions and additions.
- `HandlerCorrect` (`HandlerFindsData`): needs that every ready descriptor from
  `cur` on still has data (`ReadyHaveData`). A step of the loop can only disturb
  that by adding a ready descriptor ahead, which is the case left out.
- `WakesCorrect` (`WakesInTime`): `WaitEnds` relates the time left to the age of
  the last timer round.

`Conf_proofs`, for all keys, values, files, and any number of calls and faults,
from `ConfAssumption`:

- `ConfTypeCorrect`: `ConfSpec => []ConfTypeOK`. Needs that the iterator is at
  a data entry, through deletions before and after it (`RemoveType`), and that
  the first entry of a key is in the list (`MinType`, the least-number
  principle from the library's theorem on well-founded relations).
- `StoreIsAtomic`: `ConfSpec => []OldOrNew`. The strengthening is `Progress`:
  while nothing failed the work file holds the first `pos - 1` entries of the
  list the store was called with, all of them before the rename, and is on the
  disk by then.
- `IterationCorrect`: `IterationIsComplete`. `IterInv`: a key that the iteration
  owes and has not given is at the entry it goes to next, or behind it.
- `StoredCorrect`: `StoredIsRead`. `StoredInv` keeps, between the return of a
  store and the end of the next load, that the file is the stored list and that
  the entries loaded so far are those of the lines read so far
  (`LoadedSoFar`): an entry of a key is there once its first line was read, and
  the later ones do not change it.

`Discover_proofs`, for any number of nodes and entries, from
`DiscoverAssumption`: `PrintedCorrect` (`PrintedIsThere`), `CountCorrect`
(`AnswersCount`) and `EntriesCorrect`, that nothing is received beyond the last
entry. In `DiscoverInv` every datagram under way that holds a list of instances
is from a node and the list is its own (`NetOK`); so is an entry that counts
(`EntriesOK`), which is why data left from another datagram does no harm; and
the hosts that named the instance are those of the entries that do (`CountOK`),
none at the begin of a round. `DiscoverTypeCorrect` (`DiscoverTypeOK`): whatever
the network does, what is under way to the tool is one of the datagrams somebody
sends (`ToToolTyped`, `ReceivedTyped`: the bag only loses and copies), and each is
well formed (`DatagramsAreTyped`), so an entry is, also where `Received` leaves
an older list. (That no more than `Capacity` are under way is the bound of the
model, in the guard of `ToTool`.)

`SelfReportCorrect` (`SelfReportIsRight`), from `BuildsAssumption`: an object has
at most 255 properties, with codes from 0x80 on, in any order and even with
repetitions, and a node is any list of such objects. It is about what loops
compute, and rests on two
facts of `SequenceLemmas`, both about sets, since no prover here can instantiate
an operator: `NatSetInduction`, that a set of numbers with 0 and the successor of
each of its members is all of them, and `Recursion`, that a loop with any step
function on a set of states has its function on the turns. With them
- `SelectedType` and `FoundType`: what the loop of `mls_eoj_get_property_map` finds is
  a list of properties that has an element for a code if and only if the
  object has that property with that access, and no more than the object has;
- `DeviceMapIsRight`: with `MapsAreRead` (any such list is decoded from its map to
  itself, as a list and as bits, in at most 17 bytes) the map of an object is right;
- `NumInNode` and `MapInNode`: the running total and the buffer of
  `mls_eoj_get_property_map_in_node` after the first one and, in the list form,
  two devices; `TwoListsAreRead` reads the two lists that are then one behind
  the other; `ProfileMapIsRight` is what `NodeMapIsRight` claims;
- `ListsAreRead`: the lists of a node with any devices, up to the 84 there
  is room for, name these.

`Types`: `ShortIsKept`, `IntIsKept`, `UllIsKept` (every number is read back from
its bytes, and the buffer around them stays), `BytesAreKept`, `BufferIsKept`
(text and back; no byte is written beyond the size given, whatever digits the
text has), `StoredNumbersAreKept`. By linear arithmetic over quotients and
remainders; the lemmas `TwoBytes`, `FourBytes` and `TwoDigits` carry it.

Only model-checked:

- `HandlerEnds`, `CallReturns`, `NodeQuiets`, `ToolReturns`, `FdServed`,
  `TimersServed`, `DeactivateReturns`, `DiscoverReturns`, and the liveness in
  `ImplementsRegister`: liveness under fairness is out of the prover's reach, as
  is ENABLED.

## Modelling decisions

- Errors of `sendto` that the code only logs are lost datagrams. The packet
  dump and all logging are left out.
- `before`, `heard`, `done`, `around`, `alone`, `given`, `runs` and `born` are history; no
  action reads them in a guard.
- A queue of a Unix-domain socket that is full blocks the sender. Two runs send
  four requests at the most, below the kernel's limit.
- The handlers of the repository never delete their own handle; one that did
  would make the loop read freed memory, and `Evt` leaves it out. They add none
  either: a second handle for a descriptor or key that has one, and one for a
  descriptor that is among the ready ones of the round (closed and opened again
  with its number), are left out by `Body`.
- Transaction id 1 of an announcement at the start is the same on every host:
  the hosts of a run have the same byte order.

## Not modelled, and why

Log, packet dump, argument parsing, address look-up: output and pure I/O.
`tool/open-echo`: samples over a third-party Java library. Stream sockets of
`mls_net`: not used by the programs. SetGet: the code drops it, and so does the
model. `init` runs on a NULL context if it cannot create one, and the process
ends there: no state of it is left to relate to anything. Two node processes on
one host: the second takes the name of the first one's socket away; the model
has one process. Out of memory. Nodes with more than 84 devices, whose list does
not fit the buffer of 255 bytes that no code looks at.

## Plan

Done: all the modules above. What is left, in this order:

1. A second node process on one host, in `Elope`: who serves the command socket
   when the second one ends.
2. Proofs: a refusal is a failure in `RemoteProperty`, which says nothing of the
   value; a register that knows which values are refused could say that it stays.
3. A run for the profile's property map of more than two devices.
