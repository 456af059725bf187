----------------------------- MODULE Evt_proofs -----------------------------
(***************************************************************************)
(* Theorems about the event loop, for any number of descriptors, timers    *)
(* and timeouts, and whatever the handlers do to the loop.                 *)
(***************************************************************************)
EXTENDS Evt, SequenceLemmas

\* Where the loop over a list is, the handle it is at is still in the list.
InList ==
  /\ pc # "undefined"
  /\ pc = "timers" /\ cur # End => cur \in Range(keys)
  /\ pc = "fds" /\ cur # End => cur \in Range(fds)

\* What select reported is there until its handler has been called: the loop has
\* passed the descriptors it took something from.
ReadyHaveData ==
  /\ pc \in {"check", "timers"} => \A f \in ready : queue[f] > 0
  /\ pc = "fds" =>
       \A i, j \in 1..Len(fds) :
         fds[i] = cur /\ i <= j /\ fds[j] \in ready => queue[fds[j]] > 0

\* The rest of the wait ends when the timers are due, or it is over.  (It need not
\* be over when the clock was set back: then they are not due either.)
WaitEnds ==
  pc = "select" /\ timeout > 0 => left >= 0 /\ (left = 0 \/ age + left <= timeout)

EvtInv ==
  EvtTypeOK /\ IsInjective(fds) /\ InList /\ ReadyHaveData /\ WaitEnds

\* The range of a list, by its places.
LEMMA RangeOfList ==
  ASSUME NEW S, NEW list \in Seq(S)
  PROVE  \A x : x \in Range(list) <=> \E i \in 1..Len(list) : list[i] = x
BY DEF Range

\* Some handles of a list, in their order.
LEMMA SublistType ==
  ASSUME NEW S, NEW list \in Seq(S), NEW kept \in Sublists(list)
  PROVE  /\ kept \in Seq(S)
         /\ \A i, j \in 1..Len(kept) : i < j =>
              \E k, l \in 1..Len(list) : k < l /\ list[k] = kept[i] /\ list[l] = kept[j]
         /\ \A i \in 1..Len(kept) : \E k \in 1..Len(list) : list[k] = kept[i]
<1>1. PICK n, at :
        /\ n \in 0..Len(list) /\ at \in [1..n -> 1..Len(list)]
        /\ \A i, j \in 1..n : i < j => at[i] < at[j]
        /\ kept = [i \in 1..n |-> list[at[i]]]
  BY DEF Sublists
<1>2. n \in Nat /\ \A i \in 1..n : list[at[i]] \in S
  BY <1>1
<1>3. kept \in [1..n -> S]
  BY <1>1, <1>2
<1>4. kept \in Seq(S) /\ Len(kept) = n
  BY <1>2, <1>3
<1> QED
  BY <1>1, <1>4

\* What handlers make of a list: the handle the loop is at stays, none is there
\* twice, and what is not among those that may be added stands behind those behind
\* which it stood.
LEMMA ChangedList ==
  ASSUME NEW S, NEW T, T \subseteq S, NEW list \in Seq(S), NEW n, NEW new,
         Changed(list, T, n, new)
  PROVE  /\ new \in Seq(S)
         /\ cur \in Range(list) => cur \in Range(new)
         /\ IsInjective(list) => IsInjective(new)
         /\ \A i, j \in 1..Len(new) : i < j /\ new[j] \notin T =>
              \E k, l \in 1..Len(list) : k < l /\ list[k] = new[i] /\ list[l] = new[j]
<1>1. PICK kept, more :
        /\ kept \in Sublists(list) /\ more \in Additions(T \ Range(kept))
        /\ cur \in Range(list) => cur \in Range(kept)
        /\ new = kept \o more
  BY DEF Changed
<1>2. /\ kept \in Seq(S)
      /\ \A i, j \in 1..Len(kept) : i < j =>
           \E k, l \in 1..Len(list) : k < l /\ list[k] = kept[i] /\ list[l] = kept[j]
  BY <1>1, SublistType
<1>3. more \in Seq(T \ Range(kept)) /\ IsInjective(more)
  <2>1. PICK m \in 0..MaxAdded : more \in [1..m -> T \ Range(kept)]
    BY <1>1 DEF Additions, SeqOf
  <2>2. m \in Nat
    BY <2>1, EvtAssumption
  <2> QED
    BY <1>1, <2>1, <2>2 DEF Additions
<1>4. more \in Seq(S)
  BY <1>3
<1>5. /\ new \in Seq(S) /\ Len(new) = Len(kept) + Len(more)
      /\ Len(kept) \in Nat /\ Len(more) \in Nat
      /\ \A i \in 1..Len(kept) : i \in 1..Len(new) /\ new[i] = kept[i]
      /\ \A i \in 1..Len(new) : ~(i \in 1..Len(kept)) =>
           i - Len(kept) \in 1..Len(more) /\ new[i] = more[i - Len(kept)]
  BY <1>1, <1>2, <1>4
<1>6. \A i \in 1..Len(more) : more[i] \in T /\ more[i] \notin Range(kept)
  BY <1>3
<1>7. cur \in Range(list) => cur \in Range(new)
  <2> SUFFICES ASSUME cur \in Range(kept) PROVE cur \in Range(new)
    BY <1>1
  <2>1. PICK i \in 1..Len(kept) : kept[i] = cur
    BY <1>2, RangeOfList
  <2> QED
    BY <1>5, <2>1, RangeOfList
<1>8. ASSUME NEW i \in 1..Len(new), NEW j \in 1..Len(new), i < j, new[j] \notin T
      PROVE  \E k, l \in 1..Len(list) : k < l /\ list[k] = new[i] /\ list[l] = new[j]
  <2>1. j \in 1..Len(kept)
    BY <1>5, <1>6, <1>8
  <2>2. i \in 1..Len(kept)
    BY <1>5, <1>8, <2>1
  <2>3. PICK k, l \in 1..Len(list) : k < l /\ list[k] = kept[i] /\ list[l] = kept[j]
    BY <1>2, <1>8, <2>1, <2>2
  <2>4. new[i] = kept[i] /\ new[j] = kept[j]
    BY <1>5, <2>1, <2>2
  <2> QED
    BY <2>3, <2>4
<1>9. ASSUME IsInjective(list), NEW i \in 1..Len(new), NEW j \in 1..Len(new), i < j
      PROVE  new[i] # new[j]
  <2>1. CASE j \in 1..Len(kept)
    <3>1. i \in 1..Len(kept)
      BY <1>5, <1>9, <2>1
    <3>2. PICK k, l \in 1..Len(list) : k < l /\ list[k] = kept[i] /\ list[l] = kept[j]
      BY <1>2, <1>9, <2>1, <3>1
    <3>3. list[k] # list[l]
      BY <1>9, <3>2 DEF IsInjective
    <3> QED
      BY <1>5, <2>1, <3>1, <3>2, <3>3
  <2>2. CASE ~(j \in 1..Len(kept)) /\ i \in 1..Len(kept)
    <3>1. new[i] \in Range(kept)
      BY <1>2, <1>5, <2>2, RangeOfList
    <3>2. new[j] \notin Range(kept)
      BY <1>5, <1>6, <2>2
    <3> QED
      BY <3>1, <3>2
  <2>3. CASE ~(j \in 1..Len(kept)) /\ ~(i \in 1..Len(kept))
    <3>1. PICK a, b \in 1..Len(more) : /\ a = i - Len(kept) /\ b = j - Len(kept)
                                       /\ new[i] = more[a] /\ new[j] = more[b]
      BY <1>5, <2>3
    <3>2. a # b
      BY <1>5, <1>9, <3>1
    <3>3. more[a] # more[b]
      BY <1>3, <3>2 DEF IsInjective
    <3> QED
      BY <3>1, <3>3
  <2> QED
    BY <2>1, <2>2, <2>3
<1>10. ASSUME IsInjective(list) PROVE IsInjective(new)
  <2> SUFFICES ASSUME NEW i \in 1..Len(new), NEW j \in 1..Len(new), new[i] = new[j]
               PROVE  i = j
    BY <1>5 DEF IsInjective
  <2>1. i < j \/ j < i \/ i = j
    BY <1>5
  <2> QED
    BY <1>9, <1>10, <2>1
<1> QED
  BY <1>5, <1>7, <1>8, <1>10

\* What a handler does to the descriptors' list: no ready one comes to stand behind
\* the one the loop is at that did not.
LEMMA BodyFds ==
  ASSUME EvtTypeOK, IsInjective(fds), Body
  PROVE  /\ fds' \in Seq(Fds)
         /\ IsInjective(fds')
         /\ cur \in Range(fds) => cur \in Range(fds')
         /\ \A i, j \in 1..Len(fds') :
              i < j /\ fds'[i] = cur /\ fds'[j] \in ready =>
                \E k, l \in 1..Len(fds) :
                  k < l /\ fds[k] = cur /\ fds[l] = fds'[j]
<1>1. PICK new, T : new = fds' /\ T = Fds \ ready
  OBVIOUS
<1>2. PICK n : fds \in Seq(Fds) /\ T \subseteq Fds /\ Changed(fds, T, n, new)
  BY <1>1 DEF EvtTypeOK, Body
<1>3. /\ new \in Seq(Fds)
      /\ cur \in Range(fds) => cur \in Range(new)
      /\ IsInjective(new)
      /\ \A i, j \in 1..Len(new) : i < j /\ new[j] \notin T =>
           \E k, l \in 1..Len(fds) : k < l /\ fds[k] = new[i] /\ fds[l] = new[j]
  <2>1. /\ new \in Seq(Fds)
        /\ cur \in Range(fds) => cur \in Range(new)
        /\ IsInjective(fds) => IsInjective(new)
    BY <1>2, ChangedList
  <2>2. ASSUME NEW i \in 1..Len(new), NEW j \in 1..Len(new), i < j, new[j] \notin T
        PROVE  \E k, l \in 1..Len(fds) : k < l /\ fds[k] = new[i] /\ fds[l] = new[j]
    BY <1>2, <2>2, ChangedList
  <2> QED
    BY <2>1, <2>2
<1>4. \A i, j \in 1..Len(new) : i < j /\ new[i] = cur /\ new[j] \in ready =>
        \E k, l \in 1..Len(fds) : k < l /\ fds[k] = cur /\ fds[l] = new[j]
  BY <1>1, <1>3
<1> QED
  BY <1>1, <1>3, <1>4

LEMMA BodyKeys ==
  ASSUME EvtTypeOK, Body
  PROVE  /\ keys' \in Seq(Keys)
         /\ cur \in Range(keys) => cur \in Range(keys')
         /\ timeout' \in Timeouts /\ active' \in BOOLEAN
         /\ added' \in 0..MaxAdded
<1>1. PICK new : new = keys'
  OBVIOUS
<1>2. PICK c : keys \in Seq(Keys) /\ Changed(keys, Keys, c, new)
  BY <1>1 DEF EvtTypeOK, Body
<1>3. new \in Seq(Keys) /\ (cur \in Range(keys) => cur \in Range(new))
  BY <1>2, ChangedList
<1>4. timeout' \in Timeouts /\ active' \in BOOLEAN
  BY DEF EvtTypeOK, Body
<1>5. added' \in 0..MaxAdded
  <2>1. PICK m, n \in 0..MaxAdded : added + m + n <= MaxAdded /\ added' = added + m + n
    BY DEF Body
  <2>2. added \in 0..MaxAdded /\ MaxAdded \in Nat
    BY EvtAssumption DEF EvtTypeOK
  <2> QED
    BY <2>1, <2>2
<1> QED
  BY <1>1, <1>3, <1>4, <1>5

\* The loop goes from a handle in the list to the next one, or ends.
LEMMA NextInList ==
  ASSUME NEW S, NEW list \in Seq(S), NEW h \in Range(list)
  PROVE  \E i \in 1..Len(list) :
           /\ list[i] = h
           /\ NextOf(list, h) = IF i = Len(list) THEN End ELSE list[i + 1]
<1>1. \E i \in 1..Len(list) : list[i] = h
  BY RangeOfList
<1> DEFINE i == CHOOSE j \in 1..Len(list) : list[j] = h
<1>2. i \in 1..Len(list) /\ list[i] = h
  BY <1>1
<1>3. NextOf(list, h) = IF i = Len(list) THEN End ELSE list[i + 1]
  BY DEF NextOf
<1> HIDE DEF i
<1> QED
  BY <1>2, <1>3

LEMMA FirstInList ==
  ASSUME NEW S, NEW list \in Seq(S), First(list) # End
  PROVE  First(list) \in Range(list)
<1>1. list # <<>> /\ First(list) = list[1]
  BY DEF First
<1>2. 1 \in 1..Len(list)
  BY <1>1
<1> QED
  BY <1>1, <1>2, RangeOfList

LEMMA RangeType ==
  ASSUME NEW S, NEW list \in Seq(S)
  PROVE  Range(list) \subseteq S
BY RangeOfList
-----------------------------------------------------------------------------
LEMMA EvtInvInit == EvtInit => EvtInv
<1> SUFFICES ASSUME EvtInit PROVE EvtInv
  OBVIOUS
<1>1. EvtTypeOK
  BY EvtAssumption DEF EvtInit, EvtTypeOK
<1> QED
  BY <1>1, EvtAssumption DEF EvtInit, EvtInv, InList, ReadyHaveData, WaitEnds

\* The handlers of the timers run: the loop stays in their list, and what is ready
\* stays so.
LEMMA CallTimerOK == EvtInv /\ CallTimer => EvtInv'
<1> SUFFICES ASSUME EvtInv, CallTimer PROVE EvtInv'
  OBVIOUS
<1>1. /\ pc = "timers" /\ cur # End /\ Body
      /\ Advance(keys, keys')
      /\ UNCHANGED <<mask, ready, left, age, queue, faults>>
      /\ EvtTypeOK /\ IsInjective(fds) /\ cur \in Range(keys)
  BY DEF CallTimer, EvtInv, InList
<1>2. fds' \in Seq(Fds) /\ IsInjective(fds')
  BY <1>1, BodyFds
<1>3. /\ keys' \in Seq(Keys) /\ cur \in Range(keys')
      /\ timeout' \in Timeouts /\ active' \in BOOLEAN /\ added' \in 0..MaxAdded
  BY <1>1, BodyKeys
<1>4. cur' = NextOf(keys', cur) /\ pc' = "timers"
  BY <1>1, <1>3 DEF Advance
<1>5. PICK new \in Seq(Keys) : new = keys'
  BY <1>3
<1>6. cur' = End \/ cur' \in Range(new)
  <2>1. PICK i \in 1..Len(new) :
          NextOf(new, cur) = IF i = Len(new) THEN End ELSE new[i + 1]
    BY <1>3, <1>5, NextInList
  <2>2. i # Len(new) => i + 1 \in 1..Len(new)
    BY <1>5, <2>1
  <2> QED
    BY <1>4, <1>5, <2>1, <2>2, RangeOfList
<1>7. cur' \in Fds \cup Keys \cup {End}
  BY <1>5, <1>6, RangeType
<1>8. EvtTypeOK'
  BY <1>1, <1>2, <1>3, <1>4, <1>7 DEF EvtTypeOK
<1> QED
  BY <1>1, <1>2, <1>4, <1>5, <1>6, <1>8
  DEF EvtInv, InList, ReadyHaveData, WaitEnds

\* The handler of a descriptor runs: what was ready behind it is still there.
LEMMA CallFdOK == EvtInv /\ CallFd => EvtInv'
<1> SUFFICES ASSUME EvtInv, CallFd PROVE EvtInv'
  OBVIOUS
<1>1. /\ pc = "fds" /\ cur # End /\ cur \in ready /\ queue[cur] > 0 /\ Body
      /\ Advance(fds, fds')
      /\ queue' = [queue EXCEPT ![cur] = @ - 1]
      /\ UNCHANGED <<mask, ready, left, age, faults>>
      /\ EvtTypeOK /\ IsInjective(fds) /\ cur \in Range(fds)
  BY DEF CallFd, EvtInv, InList
<1>2. /\ fds' \in Seq(Fds) /\ IsInjective(fds') /\ cur \in Range(fds')
      /\ \A i, j \in 1..Len(fds') :
           i < j /\ fds'[i] = cur /\ fds'[j] \in ready =>
             \E k, l \in 1..Len(fds) : k < l /\ fds[k] = cur /\ fds[l] = fds'[j]
  BY <1>1, BodyFds
<1>3. /\ keys' \in Seq(Keys) /\ timeout' \in Timeouts /\ active' \in BOOLEAN
      /\ added' \in 0..MaxAdded
  BY <1>1, BodyKeys
<1>4. cur' = NextOf(fds', cur) /\ pc' = "fds"
  BY <1>1, <1>2 DEF Advance
<1>5. PICK new \in Seq(Fds) : new = fds'
  BY <1>2
<1>6. PICK i \in 1..Len(new) :
        /\ new[i] = cur
        /\ NextOf(new, cur) = IF i = Len(new) THEN End ELSE new[i + 1]
  BY <1>2, <1>5, NextInList
<1>7. i # Len(new) => i + 1 \in 1..Len(new)
  BY <1>5, <1>6
<1>8. cur' = End \/ cur' \in Range(new)
  BY <1>4, <1>5, <1>6, <1>7, RangeOfList
<1>9. cur' \in Fds \cup Keys \cup {End}
  BY <1>5, <1>8, RangeType
<1>10. cur \in Fds /\ queue \in [Fds -> 0..MaxQueue] /\ MaxQueue \in Nat
  BY <1>1, EvtAssumption DEF EvtTypeOK
<1>11. queue' \in [Fds -> 0..MaxQueue]
       /\ \A f \in Fds : f # cur => queue'[f] = queue[f]
  BY <1>1, <1>10
<1>12. EvtTypeOK'
  BY <1>1, <1>2, <1>3, <1>4, <1>9, <1>11 DEF EvtTypeOK
<1>13. ASSUME NEW a \in 1..Len(new), NEW b \in 1..Len(new),
              new[a] = cur', a <= b, new[b] \in ready
       PROVE  queue'[new[b]] > 0
  <2>1. cur' # End
    <3>1. new[a] \in Fds
      BY <1>5
    <3> QED
      BY <1>13, <3>1, EvtAssumption DEF End
  <2>2. i # Len(new) /\ cur' = new[i + 1]
    BY <1>4, <1>5, <1>6, <2>1
  <2>3. a = i + 1
    BY <1>2, <1>5, <1>7, <1>13, <2>2 DEF IsInjective
  <2>4. i < b
    BY <1>5, <1>13, <2>3
  <2>5. PICK k, l \in 1..Len(fds) : k < l /\ fds[k] = cur /\ fds[l] = new[b]
    BY <1>2, <1>5, <1>6, <1>13, <2>4
  <2>6. k <= l /\ fds \in Seq(Fds) /\ fds[l] # cur
    <3>1. fds \in Seq(Fds) /\ k # l /\ k <= l
      BY <1>1, <2>5 DEF EvtTypeOK
    <3>2. fds[k] # fds[l]
      BY <1>1, <3>1 DEF IsInjective
    <3> QED
      BY <2>5, <3>1, <3>2
  <2>7. queue[fds[l]] > 0
    BY <1>1, <1>13, <2>5, <2>6 DEF EvtInv, ReadyHaveData
  <2>8. fds[l] \in Fds
    BY <2>5, <2>6
  <2> QED
    BY <1>11, <2>5, <2>6, <2>7, <2>8
<1>14. ReadyHaveData'
  BY <1>1, <1>4, <1>5, <1>13 DEF ReadyHaveData
<1> QED
  BY <1>2, <1>4, <1>5, <1>8, <1>12, <1>14 DEF EvtInv, InList, WaitEnds

\* A handle that is not ready is passed.
LEMMA SkipFdOK == EvtInv /\ SkipFd => EvtInv'
<1> SUFFICES ASSUME EvtInv, SkipFd PROVE EvtInv'
  OBVIOUS
<1>1. /\ pc = "fds" /\ cur # End /\ cur \notin ready /\ cur' = NextOf(fds, cur)
      /\ UNCHANGED <<loop, pc, mask, ready, left, age, queue, added, faults>>
      /\ EvtTypeOK /\ IsInjective(fds) /\ cur \in Range(fds) /\ fds \in Seq(Fds)
  BY DEF SkipFd, EvtInv, InList, EvtTypeOK
<1>2. PICK i \in 1..Len(fds) :
        /\ fds[i] = cur
        /\ cur' = IF i = Len(fds) THEN End ELSE fds[i + 1]
  BY <1>1, NextInList
<1>3. i # Len(fds) => i + 1 \in 1..Len(fds)
  BY <1>1, <1>2
<1>4. cur' = End \/ cur' \in Range(fds)
  BY <1>1, <1>2, <1>3, RangeOfList
<1>5. cur' \in Fds \cup Keys \cup {End}
  BY <1>1, <1>4, RangeType
<1>6. EvtTypeOK'
  BY <1>1, <1>5 DEF EvtTypeOK, loop
<1>7. ASSUME NEW a \in 1..Len(fds), NEW b \in 1..Len(fds),
             fds[a] = cur', a <= b, fds[b] \in ready
      PROVE  queue[fds[b]] > 0
  <2>1. cur' # End
    <3>1. fds[a] \in Fds
      BY <1>1
    <3> QED
      BY <1>7, <3>1, EvtAssumption DEF End
  <2>2. i + 1 \in 1..Len(fds) /\ fds[i + 1] = fds[a]
    BY <1>2, <1>3, <1>7, <2>1
  <2>3. a = i + 1
    BY <1>1, <2>2 DEF IsInjective
  <2>4. i <= b
    BY <1>1, <1>7, <2>3
  <2> QED
    BY <1>1, <1>2, <1>7, <2>4 DEF EvtInv, ReadyHaveData
<1> QED
  BY <1>1, <1>4, <1>6, <1>7 DEF EvtInv, InList, ReadyHaveData, WaitEnds, loop

LEMMA EvtInvNext == EvtInv /\ [EvtNext]_vars => EvtInv'
<1> SUFFICES ASSUME EvtInv, [EvtNext]_vars PROVE EvtInv'
  OBVIOUS
<1>0. /\ EvtTypeOK /\ IsInjective(fds) /\ fds \in Seq(Fds) /\ keys \in Seq(Keys)
      /\ timeout \in Int /\ age \in Int /\ left \in Int
      /\ queue \in [Fds -> 0..MaxQueue] /\ MaxQueue \in Nat
  BY EvtAssumption DEF EvtInv, EvtTypeOK, Forever
<1>1. CASE Top
  <2>1. /\ UNCHANGED <<loop, cur, ready, age, queue, added, faults>>
        /\ \/ pc' = "select" /\ mask' = Range(fds) /\ left' = Wait
           \/ pc' = "returned" /\ UNCHANGED <<mask, left>>
    BY <1>1 DEF Top
  <2>2. Wait \in Nat \cup {Forever}
        /\ (timeout > 0 => Wait >= 0 /\ (Wait = 0 \/ age + Wait <= timeout))
    BY <1>0 DEF Wait, Max0
  <2>3. Range(fds) \subseteq Fds
    BY <1>0, RangeType
  <2>4. EvtTypeOK'
    BY <1>0, <2>1, <2>2, <2>3 DEF EvtTypeOK, loop
  <2> QED
    BY <1>0, <2>1, <2>2, <2>4 DEF EvtInv, InList, ReadyHaveData, WaitEnds, loop
<1>2. CASE SelectReturns
  <2>1. EvtTypeOK'
    BY <1>0, <1>2 DEF EvtTypeOK, SelectReturns, Waiting, loop
  <2> QED
    BY <1>0, <1>2, <2>1
    DEF SelectReturns, Waiting, EvtInv, InList, ReadyHaveData, WaitEnds, loop
<1>3. CASE SelectFails
  <2>1. EvtTypeOK'
    BY <1>0, <1>3, EvtAssumption DEF EvtTypeOK, SelectFails, loop
  <2> QED
    BY <1>0, <1>3, <2>1
    DEF SelectFails, EvtInv, InList, ReadyHaveData, WaitEnds, loop
<1>4. CASE Check
  <2>1. /\ UNCHANGED <<loop, mask, ready, left, age, queue, added, faults>>
        /\ \/ pc' = "timers" /\ cur' = First(keys)
           \/ pc' = "fds" /\ cur' = First(fds)
        /\ pc = "check"
    BY <1>4 DEF Check
  <2>2. First(keys) # End => First(keys) \in Range(keys) /\ First(keys) \in Keys
    BY <1>0, FirstInList, RangeType
  <2>3. First(fds) # End => First(fds) \in Range(fds) /\ First(fds) \in Fds
    BY <1>0, FirstInList, RangeType
  <2>4. EvtTypeOK'
    BY <1>0, <2>1, <2>2, <2>3 DEF EvtTypeOK, loop
  <2> QED
    BY <1>0, <2>1, <2>2, <2>3, <2>4
    DEF EvtInv, InList, ReadyHaveData, WaitEnds, loop
<1>5. CASE TimersDone
  <2>1. First(fds) # End => First(fds) \in Range(fds) /\ First(fds) \in Fds
    BY <1>0, FirstInList, RangeType
  <2>2. EvtTypeOK'
    BY <1>0, <1>5, <2>1, EvtAssumption DEF EvtTypeOK, TimersDone, loop
  <2> QED
    BY <1>0, <1>5, <2>1, <2>2
    DEF TimersDone, EvtInv, InList, ReadyHaveData, WaitEnds, loop
<1>6. CASE FdsDone
  <2>1. EvtTypeOK'
    BY <1>0, <1>6, EvtAssumption DEF EvtTypeOK, FdsDone, loop
  <2> QED
    BY <1>0, <1>6, <2>1 DEF FdsDone, EvtInv, InList, ReadyHaveData, WaitEnds, loop
<1>7. CASE Tick \/ ClockSetBack
  <2>1. /\ UNCHANGED <<loop, pc, cur, mask, ready, queue, added>>
        /\ faults' \in 0..MaxFaults
        /\ age' \in Int /\ age' <= MaxAge
        /\ left' \in Nat \cup {Forever}
    <3>1. CASE Tick
      <4>1. UNCHANGED <<loop, pc, cur, mask, ready, queue, added, faults>>
            /\ age' = (IF age < MaxAge THEN age + 1 ELSE age)
            /\ left' = (IF pc = "select" /\ left > 0 THEN left - 1 ELSE left)
        BY <3>1 DEF Tick
      <4>2. left' \in Nat \cup {Forever}
        BY <1>0, <4>1 DEF EvtInv, EvtTypeOK, Forever
      <4> QED
        BY <1>0, <4>1, <4>2, EvtAssumption DEF EvtTypeOK
    <3>2. CASE ClockSetBack
      <4>1. UNCHANGED <<loop, pc, cur, mask, ready, left, queue, added>>
            /\ faults < MaxFaults /\ faults' = faults + 1 /\ age' = age - Back
        BY <3>2 DEF ClockSetBack
      <4> QED
        BY <1>0, <4>1, EvtAssumption DEF EvtTypeOK
    <3> QED
      BY <1>7, <3>1, <3>2
  <2>2. EvtTypeOK'
    BY <1>0, <2>1 DEF EvtTypeOK, loop
  <2>3. WaitEnds'
    BY <1>0, <1>7, EvtAssumption DEF Tick, ClockSetBack, EvtInv, WaitEnds, loop
  <2> QED
    BY <1>0, <2>1, <2>2, <2>3 DEF EvtInv, InList, ReadyHaveData, loop
<1>8. ASSUME NEW f \in Fds, Arrive(f) PROVE EvtInv'
  <2>1. /\ UNCHANGED <<loop, pc, cur, mask, ready, left, age, added, faults>>
        /\ queue[f] < MaxQueue /\ queue' = [queue EXCEPT ![f] = @ + 1]
    BY <1>8 DEF Arrive
  <2>2. queue' \in [Fds -> 0..MaxQueue]
        /\ \A g \in Fds : queue[g] > 0 => queue'[g] > 0
    BY <1>0, <2>1
  <2>3. EvtTypeOK'
    BY <1>0, <2>1, <2>2 DEF EvtTypeOK, loop
  <2>4. ReadyHaveData'
    <3>1. ready \subseteq Fds /\ \A i \in 1..Len(fds) : fds[i] \in Fds
      BY <1>0 DEF EvtTypeOK
    <3> QED
      BY <2>1, <2>2, <3>1 DEF EvtInv, ReadyHaveData, loop
  <2> QED
    BY <1>0, <2>1, <2>3, <2>4 DEF EvtInv, InList, WaitEnds, loop
<1>9. CASE UNCHANGED vars
  BY <1>9 DEF vars, loop, EvtInv, EvtTypeOK, InList, ReadyHaveData, WaitEnds
<1> QED
  BY <1>1, <1>2, <1>3, <1>4, <1>5, <1>6, <1>7, <1>8, <1>9,
     CallTimerOK, CallFdOK, SkipFdOK
  DEF EvtNext, Dispatch

\* The loop's lists, its place in them and its times are well formed, whatever the
\* handlers do.
THEOREM EvtTypeCorrect == EvtSpec => []EvtTypeOK
<1>1. EvtInv => EvtTypeOK
  BY DEF EvtInv
<1> QED
  BY EvtInvInit, EvtInvNext, <1>1, PTL DEF EvtSpec

\* The loop goes along live handles only, for lists of any length.
THEOREM ListCorrect == EvtSpec => []LoopStaysInList
<1>1. EvtInv => LoopStaysInList
  BY DEF EvtInv, InList, LoopStaysInList
<1> QED
  BY EvtInvInit, EvtInvNext, <1>1, PTL DEF EvtSpec

\* No handler is called for a descriptor that has nothing to be read.
THEOREM HandlerCorrect == EvtSpec => []HandlerFindsData
<1>1. EvtInv => HandlerFindsData
  <2> SUFFICES ASSUME EvtInv, pc = "fds", cur \in ready PROVE queue[cur] > 0
    BY DEF HandlerFindsData
  <2>1. cur # End /\ fds \in Seq(Fds)
    BY EvtAssumption DEF EvtInv, EvtTypeOK, End
  <2>2. PICK i \in 1..Len(fds) : fds[i] = cur
    BY <2>1, RangeOfList DEF EvtInv, InList
  <2>3. i <= i
    BY <2>1, <2>2
  <2> QED
    BY <2>2, <2>3 DEF EvtInv, ReadyHaveData
<1> QED
  BY EvtInvInit, EvtInvNext, <1>1, PTL DEF EvtSpec

\* select is never told to wait beyond the time the timers are due.
THEOREM WakesCorrect == EvtSpec => []WakesInTime
<1>1. EvtInv => WakesInTime
  BY EvtAssumption DEF EvtInv, EvtTypeOK, WaitEnds, WakesInTime
<1> QED
  BY EvtInvInit, EvtInvNext, <1>1, PTL DEF EvtSpec
=============================================================================
