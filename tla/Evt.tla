-------------------------------- MODULE Evt --------------------------------
(***************************************************************************)
(* The event loop, middleware/util/mls_evt.c: a list of descriptors and a  *)
(* list of timers, and mls_evt_dispatch, which waits in select and calls   *)
(* their handlers one after the other.  A handler may change the loop: add *)
(* or delete a handle, set the timeout, deactivate.                        *)
(*                                                                         *)
(* Time is counted in seconds since prev_timeout, up to MaxAge, by the wall *)
(* clock: it may be set back, and is then below 0.                         *)
(***************************************************************************)
EXTENDS Integers, SequencesExt, FiniteSets

CONSTANTS
  Fds,       \* descriptors handles are made for
  Keys,      \* keys of timer handles
  InitFds,   \* the descriptors' handles at the start, in order
  InitKeys,  \* and those of the timers
  Timeouts,  \* values of mls_evt_ini and mls_evt_timeout
  MaxAge,    \* bound: seconds that are told apart
  MaxQueue,  \* bound: datagrams waiting at a descriptor
  MaxAdded,  \* bound: handles that are added in one round of the loop
  MaxFaults, \* bound: failures of select and settings of the clock
  Back       \* by how many seconds the clock is set back

ASSUME EvtAssumption ==
  /\ InitFds \in Seq(Fds) /\ InitKeys \in Seq(Keys)
  /\ IsInjective(InitFds)
  /\ Fds \cap Keys = {} /\ "end" \notin Fds \cup Keys
  /\ Timeouts \subseteq Int
  /\ MaxAge \in Nat /\ \A t \in Timeouts : t <= MaxAge
  /\ MaxQueue \in Nat /\ MaxAdded \in Nat /\ MaxFaults \in Nat /\ Back \in Nat

VARIABLES
  fds,     \* dlink_fd
  keys,    \* dlink_to
  timeout, \* evt->timeout
  active,  \* evt->is_active
  pc,      \* "top" of the loop, in "select", "check" the time, calling
           \* "timers" or "fds", "returned", "undefined"
  cur,     \* pdl of mls_dlink_loop: the handle it is at, or End
  mask,    \* the descriptors select was given
  ready,   \* those it reported
  left,    \* the seconds select still waits (Forever: without end)
  age,     \* time(NULL) - prev_timeout
  queue,   \* what waits at each descriptor
  added,   \* handles added in this round
  faults   \* how often select has failed, or the clock was set back

loop == <<fds, keys, timeout, active>>
vars == <<loop, pc, cur, mask, ready, left, age, queue, added, faults>>

End == "end"
Forever == -1
-----------------------------------------------------------------------------
First(list) == IF list = <<>> THEN End ELSE list[1]

\* (_work)->next, read after the handler has run: from the list as it is now.
NextOf(list, h) ==
  LET i == CHOOSE j \in 1..Len(list) : list[j] = h
  IN  IF i = Len(list) THEN End ELSE list[i + 1]

Max0(n) == IF n < 0 THEN 0 ELSE n

\* Mutant: the whole timeout, whenever the timers fired last.
WaitWhole == IF timeout < 0 THEN Forever ELSE timeout
\* Mutant: a loop that is late asks select for a negative time.
WaitUnclamped == IF timeout < 0 THEN Forever ELSE timeout - age
Wait == IF timeout < 0 THEN Forever ELSE Max0(timeout - age)

EvtInit ==
  /\ fds = InitFds /\ keys = InitKeys
  /\ timeout \in Timeouts
  /\ active = TRUE
  /\ pc = "top"
  /\ cur = End
  /\ mask = {} /\ ready = {}
  /\ left = 0 /\ age = 0
  /\ queue = [f \in Fds |-> 0]
  /\ added = 0 /\ faults = 0

\* while (evt->is_active): build the mask and the time to wait.
\* Mutant: the loop does not look at is_active.
TopForever ==
  /\ pc = "top"
  /\ pc' = "select" /\ mask' = Range(fds) /\ left' = Wait
  /\ UNCHANGED <<loop, cur, ready, age, queue, added, faults>>

Top ==
  /\ pc = "top"
  /\ IF active
     THEN pc' = "select" /\ mask' = Range(fds) /\ left' = Wait
     ELSE pc' = "returned" /\ UNCHANGED <<mask, left>>
  /\ UNCHANGED <<loop, cur, ready, age, queue, added, faults>>

Waiting == {f \in mask : queue[f] > 0}

\* Mutant: after a timeout the mask is taken for the result.
SelectReturnsMask ==
  /\ pc = "select"
  /\ Waiting # {} \/ left = 0
  /\ ready' = IF Waiting = {} THEN mask ELSE Waiting
  /\ pc' = "check" /\ mask' = {} /\ left' = 0
  /\ UNCHANGED <<loop, cur, age, queue, added, faults>>

\* What select was given matters no more.
SelectReturns ==
  /\ pc = "select"
  /\ Waiting # {} \/ left = 0
  /\ ready' = Waiting
  /\ pc' = "check" /\ mask' = {} /\ left' = 0
  /\ UNCHANGED <<loop, cur, age, queue, added, faults>>

SelectFails ==
  /\ pc = "select"
  /\ faults < MaxFaults
  /\ faults' = faults + 1
  /\ pc' = "top" /\ mask' = {} /\ left' = 0
  /\ UNCHANGED <<loop, cur, ready, age, queue, added>>

\* Mutant: the time is looked at only when no descriptor is ready.
DueWhenIdle == timeout > 0 /\ age >= timeout /\ ready = {}
Due == timeout > 0 /\ age >= timeout

Check ==
  /\ pc = "check"
  /\ IF Due THEN pc' = "timers" /\ cur' = First(keys)
              ELSE pc' = "fds" /\ cur' = First(fds)
  /\ UNCHANGED <<loop, mask, ready, left, age, queue, added, faults>>
-----------------------------------------------------------------------------
\* mls_evt_del_handle takes a handle out of its list, mls_evt_add_handle puts one
\* at the end.  What any calls of both make of a list: some of its handles, in
\* their order, and others behind them.
Sublists(list) ==
  UNION {{[i \in 1..n |-> list[at[i]]] :
            at \in {a \in [1..n -> 1..Len(list)] :
                      \A i, j \in 1..n : i < j => a[i] < a[j]}} :
         n \in 0..Len(list)}

Additions(S) == {l \in SeqOf(S, MaxAdded) : IsInjective(l)}

\* With n handles added, all of them from S.  A handler does not delete its own.
Changed(list, S, n, new) ==
  \E kept \in Sublists(list) : \E more \in Additions(S \ Range(kept)) :
    /\ cur \in Range(list) => cur \in Range(kept)
    /\ Len(more) = n
    /\ new = kept \o more

\* What a handler may do to the loop in one call.  It makes no second handle for a
\* descriptor or a key that has one, and none for a descriptor that is among the
\* ready ones of this round: that would be one closed and opened again with the same
\* number.
Body ==
  \E m, n \in 0..MaxAdded :
    /\ added + m + n <= MaxAdded
    /\ added' = added + m + n
    /\ Changed(fds, Fds \ ready, m, fds')
    /\ Changed(keys, Keys, n, keys')
    /\ timeout' \in Timeouts           \* mls_evt_timeout
    /\ active' \in {active, FALSE}     \* mls_evt_deactivate

\* Mutant: the next handle is remembered before the handler runs.
AdvanceRemembered(old, new) ==
  LET n == NextOf(old, cur)
  IN  IF n = End \/ n \in Range(new)
      THEN cur' = n /\ pc' = pc
      ELSE cur' = End /\ pc' = "undefined"

\* Mutant: one handler a round.
AdvanceToEnd(old, new) == cur' = End /\ pc' = pc

\* The loop macro goes on from the handle it is at.  When that handle is gone it
\* reads freed memory.
Advance(old, new) ==
  IF cur \in Range(new)
  THEN cur' = NextOf(new, cur) /\ pc' = pc
  ELSE cur' = End /\ pc' = "undefined"

CallTimer ==
  /\ pc = "timers" /\ cur # End
  /\ Body
  /\ Advance(keys, keys')
  /\ UNCHANGED <<mask, ready, left, age, queue, faults>>

\* prev_timeout = time(NULL)
TimersDone ==
  /\ pc = "timers" /\ cur = End
  /\ age' = 0
  /\ pc' = "fds" /\ cur' = First(fds)
  /\ UNCHANGED <<loop, mask, ready, left, queue, added, faults>>

\* The handler of a ready descriptor takes one datagram from it.
CallFd ==
  /\ pc = "fds" /\ cur # End /\ cur \in ready /\ queue[cur] > 0
  /\ Body
  /\ Advance(fds, fds')
  /\ queue' = [queue EXCEPT ![cur] = @ - 1]
  /\ UNCHANGED <<mask, ready, left, age, faults>>

SkipFd ==
  /\ pc = "fds" /\ cur # End /\ cur \notin ready
  /\ cur' = NextOf(fds, cur)
  /\ UNCHANGED <<loop, pc, mask, ready, left, age, queue, added, faults>>

FdsDone ==
  /\ pc = "fds" /\ cur = End
  /\ pc' = "top" /\ ready' = {} /\ added' = 0
  /\ UNCHANGED <<loop, cur, mask, left, age, queue, faults>>
-----------------------------------------------------------------------------
\* Time passes, in select and in handlers; datagrams come.
Tick ==
  /\ pc \notin {"returned", "undefined"}
  /\ age' = IF age < MaxAge THEN age + 1 ELSE age
  /\ left' = IF pc = "select" /\ left > 0 THEN left - 1 ELSE left
  /\ <<age', left'>> # <<age, left>>
  /\ UNCHANGED <<loop, pc, cur, mask, ready, queue, added, faults>>

\* Somebody sets the clock back.  select goes on as it was told.
ClockSetBack ==
  /\ pc \notin {"returned", "undefined"}
  /\ faults < MaxFaults
  /\ faults' = faults + 1
  /\ age' = age - Back
  /\ UNCHANGED <<loop, pc, cur, mask, ready, left, queue, added>>

Arrive(f) ==
  /\ pc # "returned"
  /\ queue[f] < MaxQueue
  /\ queue' = [queue EXCEPT ![f] = @ + 1]
  /\ UNCHANGED <<loop, pc, cur, mask, ready, left, age, added, faults>>

Dispatch ==
  \/ Top \/ SelectReturns \/ Check
  \/ CallTimer \/ TimersDone \/ CallFd \/ SkipFd \/ FdsDone

EvtNext ==
  Dispatch \/ SelectFails \/ Tick \/ ClockSetBack \/ \E f \in Fds : Arrive(f)

\* The loop runs, and time does.
EvtSpec == EvtInit /\ [][EvtNext]_vars /\ WF_vars(Dispatch) /\ WF_vars(Tick)
-----------------------------------------------------------------------------
EvtTypeOK ==
  /\ fds \in Seq(Fds) /\ keys \in Seq(Keys)
  /\ timeout \in Timeouts /\ active \in BOOLEAN
  /\ pc \in {"top", "select", "check", "timers", "fds", "returned", "undefined"}
  /\ cur \in Fds \cup Keys \cup {End}
  /\ mask \subseteq Fds /\ ready \subseteq Fds
  /\ left \in Nat \cup {Forever} /\ age \in Int /\ age <= MaxAge
  /\ queue \in [Fds -> 0..MaxQueue]
  /\ added \in 0..MaxAdded /\ faults \in 0..MaxFaults

\* Whatever handles the handlers add and delete, their own apart, the loop goes
\* along live handles only.
LoopStaysInList ==
  /\ pc # "undefined"
  /\ pc = "timers" /\ cur # End => cur \in Range(keys)
  /\ pc = "fds" /\ cur # End => cur \in Range(fds)

\* The handler of a descriptor is called only when something is there to be
\* read: recvfrom in mls_elnet_event_handler and _recv_request does not block,
\* and with it the whole process, though select was some handlers ago.
HandlerFindsData == pc = "fds" /\ cur \in ready => queue[cur] > 0

\* select is never told to wait beyond the time the timers are due by the clock,
\* also after the loop was late or woken early, the timeout was changed, or the
\* clock was set back.
WakesInTime ==
  pc = "select" /\ timeout > 0 /\ age < timeout => left >= 0 /\ age + left <= timeout

\* The handler of a descriptor with data is called, however busy the other
\* descriptors and the timers are.
FdServed ==
  \A f \in Fds : (f \in Range(fds) /\ queue[f] > 0) ~>
    (pc = "fds" /\ cur = f /\ f \in ready) \/ f \notin Range(fds) \/ ~active

\* Each timer is called, however busy the descriptors are and although the clock may
\* be set back.
TimersServed ==
  \A k \in Keys : (k \in Range(keys) /\ timeout > 0 /\ active) ~>
    (pc = "timers" /\ cur = k) \/ k \notin Range(keys) \/ timeout <= 0 \/ ~active

\* mls_evt.h: "0=de-active(return dispatch)".
DeactivateReturns == ~active ~> pc = "returned"
=============================================================================
