------------------------------- MODULE MCConf -------------------------------
(***************************************************************************)
(* A plain value and one that is blank; files with comments, lines that    *)
(* are no entries, and a key that comes twice.                             *)
(***************************************************************************)
EXTENDS Conf
CONSTANTS k1, k2, plain, blank, none

MCReload == [x \in Val |-> CASE x = plain -> plain [] x = blank -> none]
D(k, x) == [type |-> "data", key |-> k, val |-> x]
Other(t) == [type |-> t, key |-> none, val |-> none]
MCInitFiles ==
  {<<Other("comment"), D(k1, plain), Other("junk")>>,
   <<D(k1, blank), D(k1, plain)>>}
=============================================================================
