-------------------------------- MODULE Conf --------------------------------
(***************************************************************************)
(* The configuration store, middleware/util/mls_config.c: a file of lines  *)
(* "key = value", comments and empty lines, kept as a list in memory.      *)
(* mls_conf_store writes a work file and renames it over the file, with a  *)
(* sync before and after.                                                  *)
(*                                                                         *)
(* What processes see of the file is not what a power failure leaves of    *)
(* it: "durable" holds every content it may leave.  Memory that runs out   *)
(* (Set then changes nothing) is left out.                                 *)
(***************************************************************************)
EXTENDS Integers, SequencesExt

CONSTANTS
  Key,        \* keys, none of which has a blank, "#" or "=" in it
  Val,        \* values
  Nothing,    \* no value (NULL)
  Reload,     \* what is read of a line with that value: Nothing, if it is blank;
              \* what the line buffer holds of it, if it is long
  InitFiles,  \* files there may be at the start
  MaxFaults,  \* bound: writes and renames that fail
  MaxCalls    \* bound: calls that change the list or store it

Line == [type: {"data"}, key: Key, val: Val]
        \cup [type: {"comment", "empty", "junk"}, key: {Nothing}, val: {Nothing}]
Prop == {p \in Line : p.type # "junk"}

ASSUME ConfAssumption ==
  /\ Nothing \notin Key \cup Val
  /\ Reload \in [Val -> Val \cup {Nothing}]
  /\ InitFiles \subseteq Seq(Line)
  /\ MaxFaults \in Nat /\ MaxCalls \in Nat

VARIABLES
  pc,      \* "down", "load", "idle"; in mls_conf_store "write", "rename", "settle"
  list,    \* conf->root
  file,    \* the lines of the file, as processes see them
  work,    \* the lines of the work file
  flushed, \* the work file is on the disk
  durable, \* what a power failure may leave of the file
  pos,     \* the line mls_conf_load is at, or the entry mls_conf_store is at
  itr,     \* the entry itr->next points to; 0: NULL
  new,     \* history: the list the last mls_conf_store was called with
  before,  \* history: durable, when it was called; once it has returned, the file
  failed,  \* history: a write or the rename has failed since
  stored,  \* history: it has returned
  due,     \* history: keys the iteration began with, but for deleted ones
  seen,    \* history: keys it has given
  faults,  \* how often writes and renames have failed
  calls    \* how many calls there were

filevars == <<file, work, flushed, durable, pos, faults>>
itrvars == <<itr, due, seen>>
history == <<new, before, failed, stored>>
vars == <<pc, list, filevars, itrvars, history, calls>>
-----------------------------------------------------------------------------
\* mls_conf_load: a line without a key, "=" or value is passed over.
Kept(l) == l.type \in {"comment", "empty"} \/ (l.type = "data" /\ Reload[l.val] # Nothing)
Read(l) == IF l.type = "data" THEN [l EXCEPT !.val = Reload[@]] ELSE l

\* The first entry of the key, if there is one.
Where(l, k) == {i \in 1..Len(l) : l[i].type = "data" /\ l[i].key = k}
mls_conf_get(l, k) == IF Where(l, k) = {} THEN Nothing ELSE l[Min(Where(l, k))].val

\* The first data entry after entry i.
\* Mutant: the entry after the next is where the search starts.
NextDataSkips(i) ==
  LET after == {j \in (i + 2)..Len(list) : list[j].type = "data"}
  IN  IF after = {} THEN 0 ELSE Min(after)
\* Mutant: comments are not skipped, nor is the end noticed.
NextDataAny(i) == i + 1
NextData(i) ==
  LET after == {j \in (i + 1)..Len(list) : list[j].type = "data"}
  IN  IF after = {} THEN 0 ELSE Min(after)
-----------------------------------------------------------------------------
ConfInit ==
  /\ pc = "down" /\ list = <<>>
  /\ file \in InitFiles
  /\ work = <<>> /\ flushed = FALSE /\ pos = 0 /\ faults = 0 /\ calls = 0
  /\ durable = {file}
  /\ itr = 0 /\ due = {} /\ seen = {}
  /\ new = <<>> /\ before = {file} /\ failed = FALSE /\ stored = FALSE

\* mls_conf_ini, and mls_conf_load line by line: once each, as its caller does.
Ini ==
  /\ pc = "down"
  /\ pc' = "load" /\ pos' = 1
  /\ UNCHANGED <<list, file, work, flushed, durable, faults, itrvars, history, calls>>

LoadLine ==
  /\ pc = "load" /\ pos <= Len(file)
  /\ list' = IF Kept(file[pos]) THEN Append(list, Read(file[pos])) ELSE list
  /\ pos' = pos + 1
  /\ UNCHANGED <<pc, file, work, flushed, durable, faults, itrvars, history, calls>>

Loaded ==
  /\ pc = "load" /\ pos > Len(file)
  /\ pc' = "idle" /\ pos' = 0
  /\ UNCHANGED <<list, file, work, flushed, durable, faults, itrvars, history, calls>>

Called ==
  /\ pc = "idle"
  /\ calls < MaxCalls
  /\ calls' = calls + 1

Set(k, v) ==
  /\ Called
  /\ list' = IF Where(list, k) = {}
             THEN Append(list, [type |-> "data", key |-> k, val |-> v])
             ELSE [list EXCEPT ![Min(Where(list, k))].val = v]
  /\ UNCHANGED <<pc, filevars, itrvars, history>>

\* Not of the entry the iterator goes to next: it would point to freed memory.
Del(k) ==
  /\ Called
  /\ Where(list, k) # {}
  /\ LET i == Min(Where(list, k))
     IN  /\ i # itr
         /\ list' = RemoveAt(list, i)
         /\ itr' = IF i < itr THEN itr - 1 ELSE itr
  /\ due' = due \ {k}
  /\ UNCHANGED <<pc, filevars, seen, history>>

Iterator ==
  /\ pc = "idle"
  /\ itr' = NextData(0)
  /\ due' = {list[i].key : i \in {j \in 1..Len(list) : list[j].type = "data"}}
  /\ seen' = {}
  /\ UNCHANGED <<pc, list, filevars, history, calls>>

IteratorNext ==
  /\ pc = "idle" /\ itr # 0
  /\ seen' = seen \cup {list[itr].key}
  /\ itr' = NextData(itr)
  /\ UNCHANGED <<pc, list, due, filevars, history, calls>>
-----------------------------------------------------------------------------
\* mls_conf_store.
Store ==
  /\ Called
  /\ pc' = "write"
  /\ work' = <<>> /\ flushed' = FALSE /\ pos' = 1
  /\ new' = list /\ before' = durable /\ failed' = FALSE /\ stored' = FALSE
  /\ UNCHANGED <<list, file, durable, faults, itrvars>>

Torn == [type |-> "junk", key |-> Nothing, val |-> Nothing]

WriteLine ==
  /\ pc = "write" /\ pos <= Len(list)
  /\ pos' = pos + 1
  /\ \/ work' = Append(work, list[pos]) /\ UNCHANGED <<failed, faults>>
     \/ /\ faults < MaxFaults
        /\ work' \in {work, Append(work, Torn)}
        /\ failed' = TRUE /\ faults' = faults + 1
  /\ UNCHANGED <<pc, list, file, flushed, durable, itrvars, new, before, stored, calls>>

\* fclose and sync: all that was written, and renamed, before is on the disk.
\* Mutant: the work file is renamed without a sync.
NoSyncWork ==
  /\ pc = "write" /\ pos > Len(list)
  /\ pc' = "rename"
  /\ UNCHANGED <<list, filevars, itrvars, history, calls>>

SyncWork ==
  /\ pc = "write" /\ pos > Len(list)
  /\ pc' = "rename"
  /\ flushed' = TRUE
  /\ durable' = {file}
  /\ UNCHANGED <<list, file, work, pos, faults, itrvars, history, calls>>

\* On the disk it may take place before the data is there.
Rename ==
  /\ pc = "rename"
  /\ pc' = "settle"
  /\ \/ /\ file' = work
        /\ durable' = durable \cup (IF flushed THEN {work} ELSE Prefixes(work))
        /\ UNCHANGED <<failed, faults>>
     \/ /\ faults < MaxFaults
        /\ failed' = TRUE /\ faults' = faults + 1
        /\ UNCHANGED <<file, durable>>
  /\ UNCHANGED <<list, work, flushed, pos, itrvars, new, before, stored, calls>>

Returns ==
  /\ pc = "settle"
  /\ pc' = "idle"
  /\ work' = <<>> /\ flushed' = FALSE /\ pos' = 0
  /\ stored' = TRUE
  /\ UNCHANGED <<list, file, faults, itrvars, new, failed, calls>>

\* Mutant: it returns without the second sync.
SettleUnsynced == Returns /\ UNCHANGED <<durable, before>>

Settle ==
  /\ Returns
  /\ durable' = {file}
  /\ before' = {file}
-----------------------------------------------------------------------------
Ends ==
  /\ pc' = "down" /\ list' = <<>>
  /\ work' = <<>> /\ flushed' = FALSE /\ pos' = 0
  /\ itr' = 0 /\ due' = {} /\ seen' = {}
  /\ UNCHANGED <<faults, history, calls>>

\* mls_conf_fin, or the death of the process, in mls_conf_store as well.
Kill == pc # "down" /\ Ends /\ UNCHANGED <<file, durable>>

PowerFailure ==
  /\ Ends
  /\ file' \in durable
  /\ durable' = {file'}

ConfNext ==
  \/ Ini \/ LoadLine \/ Loaded
  \/ \E k \in Key : Del(k) \/ \E v \in Val : Set(k, v)
  \/ Iterator \/ IteratorNext
  \/ Store \/ WriteLine \/ SyncWork \/ Rename \/ Settle
  \/ Kill \/ PowerFailure

ConfSpec == ConfInit /\ [][ConfNext]_vars
-----------------------------------------------------------------------------
ConfTypeOK ==
  /\ pc \in {"down", "load", "idle", "write", "rename", "settle"}
  /\ list \in Seq(Prop) /\ new \in Seq(Prop)
  /\ file \in Seq(Line) /\ work \in Seq(Line)
  /\ durable \subseteq Seq(Line) /\ before \subseteq Seq(Line)
  /\ flushed \in BOOLEAN /\ failed \in BOOLEAN /\ stored \in BOOLEAN
  /\ pos \in Nat /\ faults \in 0..MaxFaults /\ calls \in 0..MaxCalls
  /\ itr \in 0..Len(list)
  /\ due \subseteq Key /\ seen \subseteq Key

\* Whenever the process dies or the power fails, the file is left as it may have
\* been before mls_conf_store, or as the whole new list; never in between.  (If no
\* write failed: the code does not look.)
OldOrNew == ~failed => durable \cup {file} \subseteq before \cup {new}

\* Once mls_conf_store has returned, the next mls_conf_load gives every key the value
\* it had, whatever happened in between.  (A value that does not fit into its line
\* is read as something else.)
StoredIsRead ==
  stored /\ ~failed /\ pc = "load" /\ pos > Len(file) =>
    \A k \in Key :
      LET v == mls_conf_get(new, k)
      IN  v = Nothing \/ Reload[v] = v => mls_conf_get(list, k) = v

\* An iteration that comes to its end has given every key it began with, though
\* entries were set, added and deleted in the meantime, but for the deleted ones.
IterationIsComplete == pc = "idle" /\ itr = 0 => due \subseteq seen
=============================================================================
