---------------------------- MODULE Conf_proofs ----------------------------
(***************************************************************************)
(* The store of module Conf is atomic, whatever its lists, files and       *)
(* faults: neither a death of the process nor a power failure leaves half  *)
(* a file.  What was stored is loaded again, and an iteration misses no    *)
(* entry.                                                                  *)
(***************************************************************************)
EXTENDS Conf, SequenceTheorems, WellFoundedInduction, TLAPS

\* A set of natural numbers that is not empty has a least element, and Min is it.
LEMMA MinType ==
  ASSUME NEW S, S \subseteq Nat, S # {}
  PROVE  Min(S) \in S /\ \A m \in S : Min(S) <= m
<1> DEFINE R == {ss \in Nat \X Nat : ss[1] < ss[2]}
<1>1. IsWellFoundedOn(R, Nat)
  BY NatLessThanWellFounded DEF OpToRel
<1>2. PICK n \in S : \A m \in S : <<m, n>> \notin R
  <2> HIDE DEF R
  <2> QED
    BY <1>1, WFMin
<1>3. ASSUME NEW m \in S PROVE n <= m
  <2>1. m \in Nat /\ n \in Nat /\ <<m, n>> \notin R
    BY <1>2
  <2>2. ~(m < n)
    BY <2>1
  <2> QED
    BY <2>1, <2>2
<1> QED
  BY <1>3 DEF Min

\* Entries are lines.
LEMMA PropsAreLines == ASSUME NEW l \in Seq(Prop) PROVE l \in Seq(Line)
BY SeqMonotonic DEF Prop

\* The entry mls_conf_set and mls_conf_del find is one of the list, with the key.
LEMMA WhereType ==
  ASSUME NEW l \in Seq(Prop), NEW k, Where(l, k) # {}
  PROVE  Min(Where(l, k)) \in 1..Len(l) /\ l[Min(Where(l, k))].type = "data"
<1>1. Where(l, k) \subseteq Nat
  BY DEF Where
<1>2. Min(Where(l, k)) \in Where(l, k)
  BY <1>1, MinType
<1> QED
  BY <1>2 DEF Where

\* Taking an entry out of a list leaves a list of the others, in their order.
LEMMA RemoveType ==
  ASSUME NEW l \in Seq(Prop), NEW i \in 1..Len(l)
  PROVE  /\ RemoveAt(l, i) \in Seq(Prop)
         /\ Len(RemoveAt(l, i)) = Len(l) - 1
         /\ \A j \in 1..(i - 1) : RemoveAt(l, i)[j] = l[j]
         /\ \A j \in (i + 1)..Len(l) : RemoveAt(l, i)[j - 1] = l[j]
<1> DEFINE a == SubSeq(l, 1, i - 1)
           b == SubSeq(l, i + 1, Len(l))
<1>1. Len(l) \in Nat /\ \A j \in 1..Len(l) : l[j] \in Prop
  BY LenProperties, ElementOfSeq
<1>2. /\ a \in Seq(Prop) /\ Len(a) = i - 1
      /\ \A j \in 1..(i - 1) : a[j] = l[j]
  <2>1. /\ a \in Seq(Prop) /\ Len(a) = IF 1 <= i - 1 THEN (i - 1) - 1 + 1 ELSE 0
        /\ \A j \in 1..((i - 1) - 1 + 1) : a[j] = l[1 + j - 1]
    BY <1>1, SubSeqProperties
  <2> QED
    BY <2>1, <1>1
<1>3. /\ b \in Seq(Prop) /\ Len(b) = Len(l) - i
      /\ \A j \in 1..(Len(l) - i) : b[j] = l[i + j]
  <2>1. /\ b \in Seq(Prop) /\ Len(b) = IF i + 1 <= Len(l) THEN Len(l) - (i + 1) + 1 ELSE 0
        /\ \A j \in 1..(Len(l) - (i + 1) + 1) : b[j] = l[(i + 1) + j - 1]
    BY <1>1, SubSeqProperties
  <2> QED
    BY <2>1, <1>1
<1>4. RemoveAt(l, i) = a \o b
  BY DEF RemoveAt
<1> HIDE DEF a, b
<1>5. /\ a \o b \in Seq(Prop) /\ Len(a \o b) = Len(a) + Len(b)
      /\ \A j \in 1..(Len(a) + Len(b)) :
           (a \o b)[j] = IF j <= Len(a) THEN a[j] ELSE b[j - Len(a)]
  BY <1>2, <1>3, ConcatProperties
<1>6. ASSUME NEW j \in 1..(i - 1) PROVE (a \o b)[j] = l[j]
  BY <1>1, <1>2, <1>3, <1>5
<1>7. ASSUME NEW j \in (i + 1)..Len(l) PROVE (a \o b)[j - 1] = l[j]
  <2>1. j - 1 \in 1..(Len(a) + Len(b)) /\ ~(j - 1 <= Len(a)) /\ j - 1 - Len(a) = j - i
    BY <1>1, <1>2, <1>3
  <2>2. (a \o b)[j - 1] = b[j - i]
    BY <2>1, <1>5
  <2>3. j - i \in 1..(Len(l) - i) /\ i + (j - i) = j
    BY <1>1
  <2> QED
    BY <2>2, <2>3, <1>3
<1> QED
  BY <1>1, <1>2, <1>3, <1>4, <1>5, <1>6, <1>7

\* The iterator goes to a data entry, or to the end.
LEMMA NextDataType ==
  ASSUME list \in Seq(Prop), NEW i \in Nat
  PROVE  /\ NextData(i) \in 0..Len(list)
         /\ NextData(i) # 0 => list[NextData(i)].type = "data"
         /\ \A j \in (i + 1)..Len(list) :
              list[j].type = "data" => NextData(i) # 0 /\ NextData(i) <= j
<1> DEFINE after == {j \in (i + 1)..Len(list) : list[j].type = "data"}
<1>1. CASE after = {}
  BY <1>1 DEF NextData
<1>2. CASE after # {}
  <2>1. after \subseteq Nat
    OBVIOUS
  <2>2. Min(after) \in after /\ \A j \in after : Min(after) <= j
    BY <2>1, <1>2, MinType
  <2>3. NextData(i) = Min(after)
    BY <1>2 DEF NextData
  <2>4. NextData(i) \in after /\ \A j \in after : NextData(i) <= j
    BY <2>2, <2>3
  <2>5. Len(list) \in Nat
    BY LenProperties
  <2> QED
    BY <2>4, <2>5
<1> QED
  BY <1>1, <1>2
-----------------------------------------------------------------------------
\* What mls_conf_store has done at each of its steps, as long as nothing failed;
\* and where the iterator is.
Progress ==
  /\ pc \in {"write", "rename", "settle"} => list = new
  /\ pc \in {"load", "write"} => pos # 0
  /\ pc = "write" /\ ~failed => pos <= Len(new) + 1 /\ work = SubSeq(new, 1, pos - 1)
  /\ pc = "rename" => flushed
  /\ pc = "rename" /\ ~failed => work = new
  /\ file \in durable
  /\ itr # 0 => list[itr].type = "data"

CInv == ConfTypeOK /\ Progress /\ OldOrNew

\* The first call finds the file as it is on the disk.
LEMMA ConfInitOK == ConfInit => CInv
<1> SUFFICES ASSUME ConfInit PROVE CInv
  OBVIOUS
<1>1. <<>> \in Seq(Prop) /\ <<>> \in Seq(Line) /\ Len(<<>>) = 0
  OBVIOUS
<1>2. ConfTypeOK
  <2>1. file \in Seq(Line) /\ faults \in 0..MaxFaults /\ calls \in 0..MaxCalls
    BY ConfAssumption DEF ConfInit
  <2>2. list \in Seq(Prop) /\ new \in Seq(Prop) /\ work \in Seq(Line)
        /\ itr \in 0..Len(list)
    BY <1>1 DEF ConfInit
  <2> QED
    BY <2>1, <2>2 DEF ConfInit, ConfTypeOK
<1>3. Progress /\ OldOrNew
  BY DEF ConfInit, Progress, OldOrNew
<1> QED
  BY <1>2, <1>3 DEF CInv

\* A step outside of mls_conf_store that leaves the file alone and a list of entries,
\* with the iterator at one of them or at the end.
LEMMA ListStep ==
  ASSUME CInv, pc \in {"down", "load", "idle"}, pc' \in {"load", "idle"},
         list' \in Seq(Prop), pos' \in Nat, pc' = "load" => pos' # 0,
         itr' \in 0..Len(list'), itr' # 0 => list'[itr'].type = "data",
         due' \subseteq Key, seen' \subseteq Key, calls' \in 0..MaxCalls,
         UNCHANGED <<file, work, flushed, durable, faults, new, before, failed, stored>>
  PROVE  CInv'
<1>1. ConfTypeOK'
  BY DEF CInv, ConfTypeOK
<1>2. Progress' /\ OldOrNew'
  BY DEF CInv, Progress, OldOrNew
<1> QED
  BY <1>1, <1>2 DEF CInv

\* mls_conf_load takes lines for entries.
LEMMA LoadLineOK == CInv /\ LoadLine => CInv'
<1> SUFFICES ASSUME CInv, LoadLine PROVE CInv'
  OBVIOUS
<1> USE DEF CInv, itrvars, history
<1>1. pos \in 1..Len(file) /\ file \in Seq(Line) /\ list \in Seq(Prop)
  BY LenProperties DEF LoadLine, ConfTypeOK, Progress
<1>2. file[pos] \in Line
  BY <1>1, ElementOfSeq
<1>3. Kept(file[pos]) => Read(file[pos]) \in Prop
  BY <1>2, ConfAssumption DEF Kept, Read, Prop, Line
<1>4. /\ list' \in Seq(Prop) /\ Len(list) \in Nat /\ Len(list') \in Nat
      /\ Len(list') >= Len(list)
      /\ \A i \in 1..Len(list) : list'[i] = list[i]
  <2>1. CASE Kept(file[pos])
    BY <2>1, <1>1, <1>3, AppendProperties, LenProperties DEF LoadLine
  <2>2. CASE ~Kept(file[pos])
    BY <2>2, <1>1, LenProperties DEF LoadLine
  <2> QED
    BY <2>1, <2>2
<1>5. itr \in 0..Len(list) /\ (itr # 0 => list[itr].type = "data")
  BY DEF ConfTypeOK, Progress
<1>6. itr' \in 0..Len(list') /\ (itr' # 0 => list'[itr'].type = "data")
  BY <1>4, <1>5 DEF LoadLine
<1> QED
  BY <1>1, <1>4, <1>6, ListStep DEF LoadLine, ConfTypeOK

\* mls_conf_set changes a value, or appends.
LEMMA SetKeeps ==
  ASSUME CInv, NEW k \in Key, NEW v \in Val, Set(k, v)
  PROVE  /\ list' \in Seq(Prop) /\ Len(list') \in Nat /\ Len(list') >= Len(list)
         /\ \A j \in 1..Len(list) :
              list'[j].type = list[j].type /\ list'[j].key = list[j].key
<1> USE DEF CInv
<1> DEFINE i == Min(Where(list, k))
           p == [type |-> "data", key |-> k, val |-> v]
<1>1. list \in Seq(Prop) /\ Len(list) \in Nat /\ p \in Prop
  BY LenProperties DEF ConfTypeOK, Prop, Line
<1>2. CASE Where(list, k) = {}
  <2>1. list' = Append(list, p)
    BY <1>2 DEF Set
  <2> QED
    BY <2>1, <1>1, AppendProperties
<1>3. CASE Where(list, k) # {}
  <2>1. i \in 1..Len(list) /\ list[i].type = "data" /\ list[i] \in Prop
    BY <1>1, <1>3, WhereType, ElementOfSeq
  <2>2. [list[i] EXCEPT !.val = v] \in Prop
        /\ [list[i] EXCEPT !.val = v].type = list[i].type
        /\ [list[i] EXCEPT !.val = v].key = list[i].key
    BY <2>1 DEF Prop, Line
  <2> HIDE DEF i
  <2>3. list' = [list EXCEPT ![i] = [list[i] EXCEPT !.val = v]]
    BY <1>3 DEF Set, i
  <2>4. /\ list' \in Seq(Prop) /\ Len(list') = Len(list)
        /\ \A j \in 1..Len(list) :
             list'[j] = IF j = i THEN [list[i] EXCEPT !.val = v] ELSE list[j]
    BY <2>1, <2>2, <2>3, <1>1, ExceptSeq
  <2>5. ASSUME NEW j \in 1..Len(list)
        PROVE  list'[j].type = list[j].type /\ list'[j].key = list[j].key
    <3>1. CASE j = i
      BY <3>1, <2>2, <2>4
    <3>2. CASE j # i
      BY <3>2, <2>4
    <3> QED
      BY <3>1, <3>2
  <2> QED
    BY <2>4, <2>5, <1>1
<1> QED
  BY <1>2, <1>3

LEMMA SetOK == ASSUME CInv, NEW k \in Key, NEW v \in Val, Set(k, v) PROVE CInv'
<1> USE DEF CInv, itrvars, filevars, history
<1>1. list \in Seq(Prop) /\ Len(list) \in Nat
  BY LenProperties DEF ConfTypeOK
<1>2. /\ list' \in Seq(Prop) /\ Len(list') \in Nat /\ Len(list') >= Len(list)
      /\ \A j \in 1..Len(list) : list'[j].type = list[j].type
  BY SetKeeps
<1>3. itr \in 0..Len(list) /\ (itr # 0 => list[itr].type = "data") /\ itr' = itr
  BY DEF ConfTypeOK, Progress, Set
<1>4. itr' \in 0..Len(list') /\ (itr' # 0 => list'[itr'].type = "data")
  BY <1>1, <1>2, <1>3
<1>5. /\ pc = "idle" /\ pc' = "idle" /\ pos' = pos /\ calls' \in 0..MaxCalls
      /\ due' = due /\ seen' = seen
      /\ UNCHANGED <<file, work, flushed, durable, faults, new, before, failed, stored>>
  BY ConfAssumption DEF Set, Called, ConfTypeOK
<1>6. pos \in Nat /\ due \subseteq Key /\ seen \subseteq Key
  BY DEF ConfTypeOK
<1> HIDE DEF CInv
<1> QED
  BY <1>2, <1>4, <1>5, <1>6, ListStep

\* mls_conf_del takes an entry out, not the one the iterator is at.
LEMMA DelOK == ASSUME CInv, NEW k \in Key, Del(k) PROVE CInv'
<1> USE DEF CInv, filevars, history
<1> DEFINE i == Min(Where(list, k))
<1>1. list \in Seq(Prop) /\ Len(list) \in Nat
  BY LenProperties DEF ConfTypeOK
<1>2. i \in 1..Len(list)
  BY <1>1, WhereType DEF Del
<1>3. /\ i # itr /\ list' = RemoveAt(list, i)
      /\ itr' = IF i < itr THEN itr - 1 ELSE itr
  BY DEF Del
<1> HIDE DEF i
<1>4. /\ list' \in Seq(Prop) /\ Len(list') = Len(list) - 1
      /\ \A j \in 1..(i - 1) : list'[j] = list[j]
      /\ \A j \in (i + 1)..Len(list) : list'[j - 1] = list[j]
  BY <1>1, <1>2, <1>3, RemoveType
<1>5. itr \in 0..Len(list) /\ (itr # 0 => list[itr].type = "data")
  BY DEF ConfTypeOK, Progress
<1>6. itr' \in 0..Len(list') /\ (itr' # 0 => list'[itr'].type = "data")
  <2>1. CASE i < itr
    BY <2>1, <1>1, <1>2, <1>3, <1>4, <1>5
  <2>2. CASE ~(i < itr)
    BY <2>2, <1>1, <1>2, <1>3, <1>4, <1>5
  <2> QED
    BY <2>1, <2>2
<1> QED
  BY <1>4, <1>6, ListStep, ConfAssumption DEF Del, Called, ConfTypeOK

\* The iterator starts at, and goes on to, a data entry or the end.
LEMMA IteratorOK == CInv /\ (Iterator \/ IteratorNext) => CInv'
<1> SUFFICES ASSUME CInv, Iterator \/ IteratorNext PROVE CInv'
  OBVIOUS
<1> USE DEF CInv, filevars, history
<1>1. list \in Seq(Prop) /\ Len(list) \in Nat /\ itr \in 0..Len(list)
  BY LenProperties DEF ConfTypeOK
<1>2. ASSUME NEW i \in 1..Len(list), list[i].type = "data" PROVE list[i].key \in Key
  <2>1. list[i] \in Prop
    BY <1>1, ElementOfSeq
  <2> QED
    BY <2>1, <1>2 DEF Prop, Line
<1>3. CASE Iterator
  <2>1. itr' \in 0..Len(list) /\ (itr' # 0 => list[itr'].type = "data")
    BY <1>1, <1>3, NextDataType DEF Iterator
  <2>2. due' \subseteq Key /\ seen' \subseteq Key
    BY <1>2, <1>3 DEF Iterator
  <2> QED
    BY <1>1, <1>3, <2>1, <2>2, ListStep DEF Iterator, ConfTypeOK
<1>4. CASE IteratorNext
  <2>1. itr' \in 0..Len(list) /\ (itr' # 0 => list[itr'].type = "data")
    BY <1>1, <1>4, NextDataType DEF IteratorNext
  <2>2. list[itr].key \in Key
    BY <1>1, <1>2, <1>4 DEF IteratorNext, Progress
  <2> QED
    BY <1>1, <1>4, <2>1, <2>2, ListStep DEF IteratorNext, ConfTypeOK
<1> QED
  BY <1>3, <1>4
-----------------------------------------------------------------------------
\* mls_conf_store notes nothing but the list it was called with.
LEMMA StoreOK == CInv /\ Store => CInv'
<1> SUFFICES ASSUME CInv, Store PROVE CInv'
  OBVIOUS
<1> USE DEF CInv, itrvars
<1>1. SubSeq(list, 1, 0) = <<>>
  BY SubSeqEmpty
<1>2. Len(list) \in Nat /\ <<>> \in Seq(Line) /\ calls' \in 0..MaxCalls
  BY LenProperties, ConfAssumption DEF ConfTypeOK, Store, Called
<1>3. ConfTypeOK'
  BY <1>2 DEF Store, ConfTypeOK
<1>4. Progress'
  BY <1>1, <1>2 DEF Store, Progress
<1>5. OldOrNew'
  BY DEF Store, OldOrNew, Progress
<1> QED
  BY <1>3, <1>4, <1>5

\* A line that is written extends what was written of the new list.
LEMMA WriteLineOK == CInv /\ WriteLine => CInv'
<1> SUFFICES ASSUME CInv, WriteLine PROVE CInv'
  OBVIOUS
<1> USE DEF CInv, itrvars
<1>1. /\ list \in Seq(Prop) /\ list \in Seq(Line) /\ list = new
      /\ pos \in 1..Len(list) /\ Len(list) \in Nat
  BY LenProperties, PropsAreLines DEF WriteLine, ConfTypeOK, Progress
<1>2. list[pos] \in Line /\ Torn \in Line /\ work \in Seq(Line)
  BY <1>1, ElementOfSeq DEF Torn, Line, ConfTypeOK
<1>3. work' \in Seq(Line) /\ faults' \in 0..MaxFaults /\ failed' \in BOOLEAN
  <2>1. Append(work, list[pos]) \in Seq(Line) /\ Append(work, Torn) \in Seq(Line)
    BY <1>2, AppendProperties
  <2>2. work' \in {Append(work, list[pos]), work, Append(work, Torn)}
    BY DEF WriteLine
  <2>3. faults' \in 0..MaxFaults /\ failed' \in BOOLEAN
    <3>1. faults \in 0..MaxFaults /\ failed \in BOOLEAN /\ MaxFaults \in Nat
      BY ConfAssumption DEF ConfTypeOK
    <3>2. \/ failed' = failed /\ faults' = faults
          \/ faults < MaxFaults /\ failed' = TRUE /\ faults' = faults + 1
      BY DEF WriteLine
    <3>3. failed' \in BOOLEAN
      BY <3>1, <3>2, Zenon
    <3>4. faults' \in 0..MaxFaults
      <4>1. faults' = faults \/ (faults < MaxFaults /\ faults' = faults + 1)
        BY <3>2, Zenon
      <4> QED
        BY <3>1, <4>1
    <3> QED
      BY <3>3, <3>4
  <2> QED
    BY <1>2, <2>1, <2>2, <2>3
<1>4. ConfTypeOK'
  BY <1>1, <1>3 DEF WriteLine, ConfTypeOK
<1>5. ~failed' => work' = SubSeq(new', 1, pos' - 1)
  <2> SUFFICES ASSUME ~failed' PROVE work' = SubSeq(new', 1, pos' - 1)
    OBVIOUS
  <2>1. work' = Append(work, list[pos]) /\ ~failed /\ new' = list /\ pos' - 1 = pos
    BY <1>1 DEF WriteLine
  <2>2. work = SubSeq(list, 1, pos - 1)
    BY <1>1, <2>1 DEF Progress, WriteLine
  <2>3. SubSeq(list, 1, pos) = SubSeq(list, 1, pos - 1) \o <<list[pos]>>
    BY <1>1, SubSeqRecursiveSecond
  <2>4. Append(work, list[pos]) = work \o <<list[pos]>>
    BY <1>2, AppendIsConcat
  <2> QED
    BY <2>1, <2>2, <2>3, <2>4
<1>6. Progress'
  BY <1>1, <1>5 DEF WriteLine, Progress
<1>7. OldOrNew'
  BY DEF WriteLine, OldOrNew
<1> QED
  BY <1>4, <1>6, <1>7

\* When all is written the work file is the new list.
LEMMA SyncWorkOK == CInv /\ SyncWork => CInv'
<1> SUFFICES ASSUME CInv, SyncWork PROVE CInv'
  OBVIOUS
<1> USE DEF CInv, itrvars, history
<1>1. /\ list \in Seq(Prop) /\ list = new /\ Len(list) \in Nat
      /\ pos \in Nat /\ pos > Len(list)
  BY LenProperties DEF SyncWork, ConfTypeOK, Progress
<1>2. ~failed => work = new
  <2> SUFFICES ASSUME ~failed PROVE work = new
    OBVIOUS
  <2>1. pos - 1 = Len(new) /\ work = SubSeq(new, 1, pos - 1)
    BY <1>1 DEF SyncWork, Progress
  <2> QED
    BY <1>1, <2>1, SubSeqFull
<1>3. ConfTypeOK'
  BY DEF SyncWork, ConfTypeOK
<1>4. Progress'
  BY <1>1, <1>2 DEF SyncWork, Progress
<1>5. OldOrNew'
  BY DEF SyncWork, OldOrNew, Progress
<1> QED
  BY <1>3, <1>4, <1>5

\* The rename puts the whole new list where the file was, or does nothing.
LEMMA RenameOK == CInv /\ Rename => CInv'
<1> SUFFICES ASSUME CInv, Rename PROVE CInv'
  OBVIOUS
<1> USE DEF CInv, itrvars
<1>1. flushed /\ (~failed => work = new) /\ list = new
  BY DEF Rename, Progress
<1>2. CASE file' = work /\ UNCHANGED <<failed, faults>>
  <2>1. durable' = durable \cup {work}
    <3>1. faults' # faults + 1
      BY <1>2, ConfAssumption DEF ConfTypeOK
    <3> QED
      BY <1>1, <3>1 DEF Rename
  <2>2. ConfTypeOK'
    BY <1>2, <2>1 DEF Rename, ConfTypeOK
  <2>3. Progress'
    BY <1>1, <1>2, <2>1 DEF Rename, Progress
  <2>4. OldOrNew'
    BY <1>1, <1>2, <2>1 DEF Rename, OldOrNew
  <2> QED
    BY <2>2, <2>3, <2>4
<1>3. CASE failed' = TRUE /\ faults < MaxFaults /\ faults' = faults + 1
           /\ UNCHANGED <<file, durable>>
  BY <1>1, <1>3, ConfAssumption DEF Rename, ConfTypeOK, Progress, OldOrNew
<1> QED
  BY <1>2, <1>3 DEF Rename

\* The second sync leaves one content that a power failure may show.
LEMMA SettleOK == CInv /\ Settle => CInv'
<1> SUFFICES ASSUME CInv, Settle PROVE CInv'
  OBVIOUS
<1>1. <<>> \in Seq(Line)
  OBVIOUS
<1>2. ConfTypeOK'
  BY <1>1 DEF CInv, Settle, Returns, ConfTypeOK, itrvars
<1>3. Progress' /\ OldOrNew'
  BY DEF CInv, Settle, Returns, Progress, OldOrNew, ConfTypeOK, itrvars
<1> QED
  BY <1>2, <1>3 DEF CInv

\* Death and power failure leave one of the contents there were.
LEMMA EndsOK == CInv /\ (Kill \/ PowerFailure) => CInv'
<1> SUFFICES ASSUME CInv, Kill \/ PowerFailure PROVE CInv'
  OBVIOUS
<1> USE DEF CInv, history
<1>1. /\ file' \in durable' /\ durable' \subseteq durable
      /\ <<>> \in Seq(Line) /\ <<>> \in Seq(Prop) /\ Len(<<>>) = 0
  BY DEF Kill, PowerFailure, Progress
<1>2. Ends
  BY DEF Kill, PowerFailure
<1>3. ConfTypeOK'
  <2>1. file' \in Seq(Line) /\ durable' \subseteq Seq(Line)
    BY <1>1 DEF ConfTypeOK
  <2>2. list' \in Seq(Prop) /\ work' \in Seq(Line) /\ itr' \in 0..Len(list')
    BY <1>1, <1>2 DEF Ends
  <2> QED
    BY <1>2, <2>1, <2>2 DEF Ends, ConfTypeOK
<1>4. Progress' /\ OldOrNew'
  BY <1>1, <1>2 DEF Ends, Progress, OldOrNew
<1> QED
  BY <1>3, <1>4

\* Every step keeps the invariant: one step of the proof per action.
LEMMA ConfNextOK == CInv /\ [ConfNext]_vars => CInv'
<1> SUFFICES ASSUME CInv, [ConfNext]_vars PROVE CInv'
  OBVIOUS
<1>1. CASE Ini \/ Loaded
  BY <1>1, ListStep
  DEF CInv, ConfTypeOK, Progress, Ini, Loaded, itrvars, history
<1>2. CASE LoadLine
  BY <1>2, LoadLineOK
<1>3. CASE \E k \in Key : Del(k) \/ \E v \in Val : Set(k, v)
  BY <1>3, SetOK, DelOK
<1>4. CASE Iterator \/ IteratorNext
  BY <1>4, IteratorOK
<1>5. CASE Store
  BY <1>5, StoreOK
<1>6. CASE WriteLine
  BY <1>6, WriteLineOK
<1>7. CASE SyncWork \/ Rename \/ Settle
  BY <1>7, SyncWorkOK, RenameOK, SettleOK
<1>8. CASE Kill \/ PowerFailure
  BY <1>8, EndsOK
<1>9. CASE UNCHANGED vars
  BY <1>9
  DEF CInv, ConfTypeOK, Progress, OldOrNew, vars, filevars, itrvars, history
<1> QED
  BY <1>1, <1>2, <1>3, <1>4, <1>5, <1>6, <1>7, <1>8, <1>9 DEF ConfNext

\* The store's state is well formed, the iterator in the list: for every set of
\* keys and values, all files, and any number of calls and faults.
THEOREM ConfTypeCorrect == ConfSpec => []ConfTypeOK
<1>1. CInv => ConfTypeOK
  BY DEF CInv
<1> QED
  BY ConfInitOK, ConfNextOK, <1>1, PTL DEF ConfSpec

\* mls_conf_store is atomic: a death or a power failure at any moment leaves the
\* file as it was or as the whole new list, provided that no write failed.
THEOREM StoreIsAtomic == ConfSpec => []OldOrNew
<1>1. CInv => OldOrNew
  BY DEF CInv
<1> QED
  BY ConfInitOK, ConfNextOK, <1>1, PTL DEF ConfSpec
-----------------------------------------------------------------------------
\* What an iteration has not given yet is at the entry it goes to, or behind it.
AtOrBehind(k) ==
  \E j \in 1..Len(list) : itr # 0 /\ itr <= j /\ list[j].type = "data" /\ list[j].key = k

IterInv == \A k \in due : k \in seen \/ AtOrBehind(k)

\* A step that leaves the iteration as it is, and the entries where they are.
LEMMA SameEntries ==
  ASSUME CInv, IterInv, UNCHANGED <<itr, due, seen>>,
         Len(list') \in Nat, Len(list') >= Len(list),
         \A j \in 1..Len(list) : list'[j].type = list[j].type /\ list'[j].key = list[j].key
  PROVE  IterInv'
<1>1. Len(list) \in Nat
  BY LenProperties DEF CInv, ConfTypeOK
<1>2. ASSUME NEW k, AtOrBehind(k) PROVE AtOrBehind(k)'
  <2>1. PICK j \in 1..Len(list) :
          itr # 0 /\ itr <= j /\ list[j].type = "data" /\ list[j].key = k
    BY <1>2 DEF AtOrBehind
  <2>2. j \in 1..Len(list')
    BY <1>1
  <2>3. itr' # 0 /\ itr' <= j /\ list'[j].type = "data" /\ list'[j].key = k
    BY <2>1
  <2> QED
    BY <2>2, <2>3 DEF AtOrBehind
<1> QED
  BY <1>2 DEF IterInv

\* mls_conf_load appends.
LEMMA IterLoadLine == CInv /\ IterInv /\ LoadLine => IterInv'
<1> SUFFICES ASSUME CInv, IterInv, LoadLine PROVE IterInv'
  OBVIOUS
<1>1. UNCHANGED <<itr, due, seen>>
  BY DEF LoadLine, itrvars
<1>2. list \in Seq(Prop) /\ Len(list) \in Nat
  BY LenProperties DEF CInv, ConfTypeOK
<1>3. list' = list \/ list' = Append(list, Read(file[pos]))
  BY DEF LoadLine
<1>4. Len(list') \in Nat /\ Len(list') >= Len(list)
      /\ \A j \in 1..Len(list) : list'[j] = list[j]
  <2>1. CASE list' = list
    BY <1>2, <2>1
  <2>2. CASE list' = Append(list, Read(file[pos]))
    BY <1>2, <2>2, AppendProperties
  <2> QED
    BY <1>3, <2>1, <2>2
<1> QED
  BY <1>1, <1>4, SameEntries

\* mls_conf_del moves the entries behind the deleted one, and the iterator with them.
LEMMA IterDel == ASSUME CInv, IterInv, NEW k \in Key, Del(k) PROVE IterInv'
<1> DEFINE i == Min(Where(list, k))
<1>1. list \in Seq(Prop) /\ Len(list) \in Nat /\ itr \in 0..Len(list)
  BY LenProperties DEF CInv, ConfTypeOK
<1>2. i \in 1..Len(list)
  BY <1>1, WhereType DEF Del
<1>3. /\ i # itr /\ list' = RemoveAt(list, i)
      /\ itr' = IF i < itr THEN itr - 1 ELSE itr
      /\ due' = due \ {k} /\ seen' = seen
  BY DEF Del
<1>4. list[i].key = k
  <2>1. Where(list, k) \subseteq Nat /\ Where(list, k) # {}
    BY DEF Where, Del
  <2>2. i \in Where(list, k)
    BY <2>1, MinType
  <2> QED
    BY <2>2 DEF Where
<1> HIDE DEF i
<1>5. /\ Len(list') = Len(list) - 1
      /\ \A j \in 1..(i - 1) : list'[j] = list[j]
      /\ \A j \in (i + 1)..Len(list) : list'[j - 1] = list[j]
  BY <1>1, <1>2, <1>3, RemoveType
<1>6. ASSUME NEW d, d # k, AtOrBehind(d) PROVE AtOrBehind(d)'
  <2>1. PICK j \in 1..Len(list) :
          itr # 0 /\ itr <= j /\ list[j].type = "data" /\ list[j].key = d
    BY <1>6 DEF AtOrBehind
  <2>2. j # i
    BY <1>4, <1>6, <2>1
  <2>3. itr' # 0
    BY <1>1, <1>2, <1>3, <2>1
  <2>4. CASE j < i
    <3>1. j \in 1..Len(list') /\ j \in 1..(i - 1) /\ itr' <= j
      BY <1>1, <1>2, <1>3, <1>5, <2>1, <2>4
    <3>2. list'[j].type = "data" /\ list'[j].key = d
      BY <1>5, <2>1, <3>1
    <3> QED
      BY <2>3, <3>1, <3>2 DEF AtOrBehind
  <2>5. CASE j > i
    <3>1. j - 1 \in 1..Len(list') /\ j \in (i + 1)..Len(list) /\ itr' <= j - 1
      BY <1>1, <1>2, <1>3, <1>5, <2>1, <2>5
    <3>2. list'[j - 1].type = "data" /\ list'[j - 1].key = d
      BY <1>5, <2>1, <3>1
    <3> QED
      BY <2>3, <3>1, <3>2 DEF AtOrBehind
  <2> QED
    BY <1>2, <2>2, <2>4, <2>5
<1> QED
  BY <1>3, <1>6 DEF IterInv

\* mls_conf_iterator begins before all entries, mls_conf_iterator_next goes to the
\* first behind the one it gives.
LEMMA IterIterator == CInv /\ IterInv /\ (Iterator \/ IteratorNext) => IterInv'
<1> SUFFICES ASSUME CInv, IterInv, Iterator \/ IteratorNext PROVE IterInv'
  OBVIOUS
<1>1. list \in Seq(Prop) /\ Len(list) \in Nat /\ itr \in 0..Len(list) /\ list' = list
  BY LenProperties DEF CInv, ConfTypeOK, Iterator, IteratorNext
<1>2. CASE Iterator
  <2>1. /\ itr' = NextData(0)
        /\ due' = {list[j].key : j \in {m \in 1..Len(list) : list[m].type = "data"}}
    BY <1>2 DEF Iterator
  <2>2. \A j \in 1..Len(list) : list[j].type = "data" => itr' # 0 /\ itr' <= j
    <3>1. \A j \in (0 + 1)..Len(list) :
            list[j].type = "data" => NextData(0) # 0 /\ NextData(0) <= j
      BY <1>1, NextDataType
    <3> QED
      BY <2>1, <3>1
  <2>3. ASSUME NEW d \in due' PROVE AtOrBehind(d)'
    <3>1. PICK j \in 1..Len(list) : list[j].type = "data" /\ list[j].key = d
      BY <2>1, <2>3
    <3> QED
      BY <1>1, <2>2, <3>1 DEF AtOrBehind
  <2> QED
    BY <2>3 DEF IterInv
<1>3. CASE IteratorNext
  <2>1. /\ itr' = NextData(itr) /\ due' = due
        /\ seen' = seen \cup {list[itr].key}
    BY <1>3 DEF IteratorNext
  <2>2. \A j \in (itr + 1)..Len(list) : list[j].type = "data" => itr' # 0 /\ itr' <= j
    <3>1. itr \in Nat
      BY <1>1
    <3>2. \A j \in (itr + 1)..Len(list) :
            list[j].type = "data" => NextData(itr) # 0 /\ NextData(itr) <= j
      BY <1>1, <3>1, NextDataType
    <3> QED
      BY <2>1, <3>2
  <2>3. ASSUME NEW d, AtOrBehind(d) PROVE d \in seen' \/ AtOrBehind(d)'
    <3>1. PICK j \in 1..Len(list) :
            itr # 0 /\ itr <= j /\ list[j].type = "data" /\ list[j].key = d
      BY <2>3 DEF AtOrBehind
    <3>2. CASE j = itr
      BY <2>1, <3>1, <3>2
    <3>3. CASE j # itr
      <4>1. j \in (itr + 1)..Len(list)
        BY <1>1, <3>1, <3>3
      <4> QED
        BY <1>1, <2>2, <3>1, <4>1 DEF AtOrBehind
    <3> QED
      BY <3>2, <3>3
  <2> QED
    BY <2>1, <2>3 DEF IterInv
<1> QED
  BY <1>2, <1>3

LEMMA IterNext == CInv /\ IterInv /\ [ConfNext]_vars => IterInv'
<1> SUFFICES ASSUME CInv, IterInv, [ConfNext]_vars PROVE IterInv'
  OBVIOUS
<1>0. Len(list) \in Nat
  BY LenProperties DEF CInv, ConfTypeOK
<1>1. CASE Ini \/ Loaded \/ Store \/ WriteLine \/ SyncWork \/ Rename \/ Settle
           \/ UNCHANGED vars
  <2>1. UNCHANGED <<list, itr, due, seen>>
    BY <1>1 DEF Ini, Loaded, Store, WriteLine, SyncWork, Rename, Settle, Returns,
                vars, itrvars
  <2> QED
    BY <1>0, <2>1, SameEntries
<1>2. ASSUME NEW k \in Key, NEW v \in Val, Set(k, v) PROVE IterInv'
  <2>1. UNCHANGED <<itr, due, seen>>
    BY <1>2 DEF Set, itrvars
  <2> QED
    BY <1>2, <2>1, SetKeeps, SameEntries
<1>3. CASE Kill \/ PowerFailure
  BY <1>3 DEF Kill, PowerFailure, Ends, IterInv
<1> QED
  BY <1>1, <1>2, <1>3, IterLoadLine, IterDel, IterIterator DEF ConfNext

\* An iteration gives every entry, though the list changes under it: for lists of any
\* length, and any number of changes.
THEOREM IterationCorrect == ConfSpec => []IterationIsComplete
<1>1. ConfInit => IterInv
  BY DEF ConfInit, IterInv
<1>2. IterInv => IterationIsComplete
  BY DEF IterInv, AtOrBehind, IterationIsComplete
<1> QED
  BY ConfInitOK, ConfNextOK, <1>1, IterNext, <1>2, PTL DEF ConfSpec
-----------------------------------------------------------------------------
\* The values that a line read gives as they were written.
Plain(k) == LET v == mls_conf_get(new, k) IN v = Nothing \/ Reload[v] = v

\* How far mls_conf_load is with the entry of a key: it is there when its first line
\* was read, and nothing is before.
LoadedSoFar(k) ==
  IF Where(new, k) # {} /\ Min(Where(new, k)) < pos
  THEN Where(list, k) # {} /\ mls_conf_get(list, k) = mls_conf_get(new, k)
  ELSE Where(list, k) = {}

StoredInv ==
  /\ pc \in {"write", "rename", "settle"} => ~stored
  /\ pc = "settle" /\ ~failed => file = new
  /\ stored /\ ~failed => file = new /\ durable = {new}
  /\ pc = "down" => list = <<>>
  /\ stored /\ ~failed /\ pc = "load" => \A k \in Key : Plain(k) => LoadedSoFar(k)

\* The first entry of a key in a list that is appended to.
LEMMA WhereAppend ==
  ASSUME NEW l \in Seq(Prop), NEW e \in Prop, NEW k
  PROVE  /\ Where(l, k) # {} =>
              /\ Where(Append(l, e), k) # {}
              /\ mls_conf_get(Append(l, e), k) = mls_conf_get(l, k)
         /\ Where(l, k) = {} /\ e.type = "data" /\ e.key = k =>
              /\ Where(Append(l, e), k) # {}
              /\ mls_conf_get(Append(l, e), k) = e.val
         /\ Where(l, k) = {} /\ ~(e.type = "data" /\ e.key = k) =>
              Where(Append(l, e), k) = {}
<1> DEFINE m == Append(l, e)
<1>1. /\ Len(l) \in Nat /\ m \in Seq(Prop) /\ Len(m) = Len(l) + 1
      /\ \A i \in 1..Len(l) : m[i] = l[i]
      /\ m[Len(l) + 1] = e
  BY AppendProperties, LenProperties
<1> HIDE DEF m
<1>2. Where(l, k) \subseteq 1..Len(l) /\ Where(m, k) \subseteq 1..(Len(l) + 1)
      /\ Where(l, k) \subseteq Nat /\ Where(m, k) \subseteq Nat
  BY <1>1 DEF Where
<1>3. \A i \in 1..Len(l) : i \in Where(m, k) <=> i \in Where(l, k)
  BY <1>1 DEF Where
<1>4. Len(l) + 1 \in Where(m, k) <=> e.type = "data" /\ e.key = k
  BY <1>1 DEF Where
<1>5. ASSUME Where(l, k) # {}
      PROVE  Where(m, k) # {} /\ mls_conf_get(m, k) = mls_conf_get(l, k)
  <2> DEFINE a == Min(Where(l, k))
             b == Min(Where(m, k))
  <2>1. a \in Where(l, k) /\ \A i \in Where(l, k) : a <= i
    BY <1>2, <1>5, MinType
  <2>2. a \in Where(m, k)
    BY <1>2, <1>3, <2>1
  <2>3. b \in Where(m, k) /\ \A i \in Where(m, k) : b <= i
    BY <1>2, <2>2, MinType
  <2>4. mls_conf_get(l, k) = l[a].val /\ mls_conf_get(m, k) = m[b].val
    BY <1>5, <2>2 DEF mls_conf_get
  <2> HIDE DEF a, b
  <2>5. b = a
    <3>1. b <= a /\ a \in 1..Len(l) /\ b \in 1..(Len(l) + 1)
      BY <1>2, <2>1, <2>2, <2>3
    <3>2. b \in 1..Len(l)
      BY <1>1, <3>1
    <3>3. a <= b
      BY <1>3, <2>1, <2>3, <3>2
    <3> QED
      BY <1>1, <3>1, <3>3
  <2>6. m[a] = l[a]
    BY <1>1, <1>2, <2>1
  <2> QED
    BY <2>2, <2>4, <2>5, <2>6
<1>6. ASSUME Where(l, k) = {}, e.type = "data", e.key = k
      PROVE  Where(m, k) # {} /\ mls_conf_get(m, k) = e.val
  <2> DEFINE b == Min(Where(m, k))
  <2>1. Len(l) + 1 \in Where(m, k)
    BY <1>4, <1>6
  <2>2. b \in Where(m, k)
    BY <1>2, <2>1, MinType
  <2>3. mls_conf_get(m, k) = m[b].val
    BY <2>1 DEF mls_conf_get
  <2> HIDE DEF b
  <2>4. b \in 1..(Len(l) + 1) /\ b \notin 1..Len(l)
    BY <1>2, <1>3, <1>6, <2>2
  <2>5. b = Len(l) + 1
    BY <1>1, <2>4
  <2> QED
    BY <1>1, <2>1, <2>3, <2>5
<1>7. ASSUME Where(l, k) = {}, ~(e.type = "data" /\ e.key = k)
      PROVE  Where(m, k) = {}
  <2>1. ASSUME NEW i \in Where(m, k) PROVE FALSE
    <3>1. i \in 1..(Len(l) + 1)
      BY <1>2, <2>1
    <3>2. CASE i \in 1..Len(l)
      BY <1>3, <1>7, <2>1, <3>2
    <3>3. CASE i = Len(l) + 1
      BY <1>4, <1>7, <2>1, <3>3
    <3> QED
      BY <1>1, <3>1, <3>2, <3>3
  <2> QED
    BY <2>1
<1> QED
  BY <1>5, <1>6, <1>7 DEF m

\* A line that is read brings the entry of its key, if it is the first of it, and
\* changes nothing of the others.
LEMMA LoadLineLoads ==
  ASSUME CInv, LoadLine, file = new,
         NEW k \in Key, Plain(k), LoadedSoFar(k)
  PROVE  LoadedSoFar(k)'
<1> DEFINE e == file[pos]
           w == Where(new, k)
<1>1. /\ list \in Seq(Prop) /\ new \in Seq(Prop) /\ Len(new) \in Nat
      /\ pos \in 1..Len(new) /\ pos' = pos + 1 /\ new' = new
  BY LenProperties DEF CInv, ConfTypeOK, Progress, LoadLine, history
<1>2. /\ e = new[pos] /\ e \in Prop
      /\ list' = IF Kept(e) THEN Append(list, Read(e)) ELSE list
  BY <1>1, ElementOfSeq DEF LoadLine
<1> HIDE DEF e
<1>3. Kept(e) => Read(e) \in Prop /\ Read(e).type = e.type /\ Read(e).key = e.key
  BY <1>2, ConfAssumption DEF Kept, Read, Prop, Line
<1>4. pos \in w <=> e.type = "data" /\ e.key = k
  BY <1>1, <1>2 DEF Where
<1>5. w \subseteq Nat /\ w \subseteq 1..Len(new)
  BY <1>1 DEF Where
<1> HIDE DEF w
<1>6. CASE w # {} /\ Min(w) < pos
  <2>1. Where(list, k) # {} /\ mls_conf_get(list, k) = mls_conf_get(new, k)
    BY <1>6 DEF LoadedSoFar, w
  <2>2. Where(list', k) # {} /\ mls_conf_get(list', k) = mls_conf_get(list, k)
    <3>1. CASE Kept(e)
      BY <1>1, <1>2, <1>3, <2>1, <3>1, WhereAppend
    <3>2. CASE ~Kept(e)
      BY <1>2, <2>1, <3>2
    <3> QED
      BY <3>1, <3>2
  <2>3. Min(w) \in Nat /\ Min(w) < pos'
    <3>1. Min(w) \in Nat
      BY <1>5, <1>6, MinType
    <3> QED
      BY <1>1, <1>6, <3>1
  <2> QED
    BY <1>1, <1>6, <2>1, <2>2, <2>3 DEF LoadedSoFar, w, Where, mls_conf_get
<1>7. CASE ~(w # {} /\ Min(w) < pos) /\ pos \in w
  <2>1. Where(list, k) = {}
    BY <1>7 DEF LoadedSoFar, w
  <2>2. Min(w) = pos
    <3>1. Min(w) \in w /\ Min(w) <= pos
      BY <1>5, <1>7, MinType
    <3>2. Min(w) \in Nat /\ pos \in Nat /\ ~(Min(w) < pos)
      BY <1>5, <1>7, <3>1
    <3> QED
      BY <3>1, <3>2
  <2>3. mls_conf_get(new, k) = e.val
    BY <1>2, <1>7, <2>2 DEF mls_conf_get, w
  <2>4. e.type = "data" /\ e.key = k /\ e.val \in Val
    BY <1>2, <1>4, <1>7 DEF Prop, Line
  <2>5. Reload[e.val] = e.val /\ e.val # Nothing
    BY <2>3, <2>4, ConfAssumption DEF Plain
  <2>6. Kept(e) /\ Read(e).val = e.val
    BY <1>2, <2>4, <2>5 DEF Kept, Read, Prop, Line
  <2>7. Where(list', k) # {} /\ mls_conf_get(list', k) = mls_conf_get(new, k)
    BY <1>1, <1>2, <1>3, <2>1, <2>3, <2>4, <2>6, WhereAppend
  <2>8. w # {} /\ Min(w) < pos'
    BY <1>1, <1>7, <2>2
  <2> QED
    BY <1>1, <2>7, <2>8 DEF LoadedSoFar, w, Where, mls_conf_get
<1>8. CASE ~(w # {} /\ Min(w) < pos) /\ pos \notin w
  <2>1. Where(list, k) = {}
    BY <1>8 DEF LoadedSoFar, w
  <2>2. Where(list', k) = {}
    <3>1. CASE Kept(e)
      <4>1. ~(Read(e).type = "data" /\ Read(e).key = k)
        BY <1>3, <1>4, <1>8, <3>1
      <4> QED
        BY <1>1, <1>2, <1>3, <2>1, <3>1, <4>1, WhereAppend
    <3>2. CASE ~Kept(e)
      BY <1>2, <2>1, <3>2
    <3> QED
      BY <3>1, <3>2
  <2>3. ~(w # {} /\ Min(w) < pos')
    <3> SUFFICES ASSUME w # {}, Min(w) < pos' PROVE FALSE
      OBVIOUS
    <3>1. Min(w) \in w /\ Min(w) \in Nat
      BY <1>5, MinType
    <3>2. Min(w) = pos
      BY <1>1, <1>8, <3>1
    <3> QED
      BY <1>8, <3>1, <3>2
  <2> QED
    BY <1>1, <2>2, <2>3 DEF LoadedSoFar, w, Where
<1> QED
  BY <1>6, <1>7, <1>8

LEMMA StoredNext == CInv /\ StoredInv /\ [ConfNext]_vars => StoredInv'
<1> SUFFICES ASSUME CInv, StoredInv, [ConfNext]_vars PROVE StoredInv'
  OBVIOUS
<1> USE DEF history, itrvars, filevars
<1>1. CASE Ini
  <2>1. ASSUME NEW k \in Key PROVE LoadedSoFar(k)'
    <3>1. pos' = 1 /\ list' = <<>> /\ new' = new
      BY <1>1 DEF Ini, StoredInv
    <3>2. Where(new, k) # {} => Min(Where(new, k)) \in 1..Len(new)
      BY WhereType DEF CInv, ConfTypeOK
    <3>3. Where(<<>>, k) = {}
      BY DEF Where
    <3>4. ~(Where(new, k) # {} /\ Min(Where(new, k)) < 1)
      BY <3>2
    <3> QED
      BY <3>1, <3>3, <3>4 DEF LoadedSoFar, Where
  <2> QED
    BY <1>1, <2>1 DEF Ini, StoredInv
<1>2. CASE LoadLine
  <2>1. ASSUME stored, ~failed, NEW k \in Key, Plain(k)' PROVE LoadedSoFar(k)'
    <3>1. Plain(k) /\ file = new
      BY <1>2, <2>1 DEF LoadLine, StoredInv, Plain, mls_conf_get, Where
    <3>2. LoadedSoFar(k)
      BY <1>2, <2>1, <3>1 DEF LoadLine, StoredInv
    <3> QED
      BY <1>2, <3>1, <3>2, LoadLineLoads
  <2> QED
    BY <1>2, <2>1 DEF LoadLine, StoredInv
<1>3. CASE Loaded
  BY <1>3 DEF Loaded, StoredInv
<1>4. CASE \E k \in Key : Del(k) \/ \E v \in Val : Set(k, v)
  <2>1. pc = "idle" /\ pc' = "idle" /\ UNCHANGED <<file, durable, new, failed, stored>>
    <3>1. ASSUME NEW k \in Key, Del(k)
          PROVE  pc = "idle" /\ pc' = "idle" /\ UNCHANGED <<file, durable, new, failed, stored>>
      BY <3>1 DEF Del, Called
    <3>2. ASSUME NEW k \in Key, NEW v \in Val, Set(k, v)
          PROVE  pc = "idle" /\ pc' = "idle" /\ UNCHANGED <<file, durable, new, failed, stored>>
      BY <3>2 DEF Set, Called
    <3> QED
      BY <1>4, <3>1, <3>2
  <2> QED
    BY <2>1 DEF StoredInv
<1>5. CASE Iterator \/ IteratorNext
  BY <1>5 DEF Iterator, IteratorNext, StoredInv
<1>6. CASE Store \/ WriteLine \/ SyncWork
  BY <1>6 DEF Store, Called, WriteLine, SyncWork, StoredInv
<1>7. CASE Rename
  <2>1. pc = "rename" /\ ~stored /\ (~failed => work = new)
    BY <1>7 DEF Rename, StoredInv, CInv, Progress
  <2>2. /\ pc' = "settle" /\ UNCHANGED <<list, new, stored>>
        /\ \/ file' = work /\ failed' = failed
           \/ failed' = TRUE
    BY <1>7 DEF Rename
  <2>3. ~failed' => file' = new'
    BY <2>1, <2>2
  <2> QED
    BY <2>1, <2>2, <2>3 DEF StoredInv
<1>8. CASE Settle
  BY <1>8 DEF Settle, Returns, StoredInv
<1>9. CASE Kill \/ PowerFailure
  <2>1. Ends /\ (stored /\ ~failed => file' = new /\ durable' = {new})
    BY <1>9 DEF Kill, PowerFailure, StoredInv, Ends
  <2> QED
    BY <2>1 DEF Ends, StoredInv
<1>10. CASE UNCHANGED vars
  <2>1. UNCHANGED <<pc, list, file, durable, pos, new, failed, stored>>
    BY <1>10 DEF vars
  <2>2. ASSUME NEW k PROVE (Plain(k) <=> Plain(k)') /\ (LoadedSoFar(k) <=> LoadedSoFar(k)')
    BY <2>1 DEF Plain, LoadedSoFar, Where, mls_conf_get
  <2> QED
    BY <2>1, <2>2 DEF StoredInv
<1> QED
  BY <1>1, <1>2, <1>3, <1>4, <1>5, <1>6, <1>7, <1>8, <1>9, <1>10 DEF ConfNext

\* What mls_conf_store has stored is what the next mls_conf_load finds: for all lists,
\* with any number of deaths and power failures in between.
THEOREM StoredCorrect == ConfSpec => []StoredIsRead
<1>1. ConfInit => StoredInv
  BY DEF ConfInit, StoredInv
<1>2. CInv /\ StoredInv => StoredIsRead
  <2> SUFFICES ASSUME CInv, StoredInv, stored, ~failed, pc = "load", pos > Len(file),
                      NEW k \in Key, Plain(k)
               PROVE  mls_conf_get(list, k) = mls_conf_get(new, k)
    BY DEF StoredIsRead, Plain
  <2>1. LoadedSoFar(k) /\ file = new
    BY DEF StoredInv
  <2>2. Where(new, k) # {} => Min(Where(new, k)) \in 1..Len(new)
    BY WhereType DEF CInv, ConfTypeOK
  <2>3. pos \in Nat /\ Len(new) \in Nat
    BY LenProperties DEF CInv, ConfTypeOK
  <2>4. Where(new, k) # {} => Min(Where(new, k)) < pos
    BY <2>1, <2>2, <2>3
  <2> QED
    BY <2>1, <2>4 DEF LoadedSoFar, mls_conf_get
<1> QED
  BY ConfInitOK, ConfNextOK, <1>1, StoredNext, <1>2, PTL DEF ConfSpec
=============================================================================
