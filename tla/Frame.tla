------------------------------- MODULE Frame -------------------------------
(***************************************************************************)
(* The ECHONET Lite frame of middleware/include/mls_elnet.h and the pure   *)
(* functions of middleware/comm/mls_elnet.c that read and build one.       *)
(*                                                                         *)
(* A frame is a record.  "ehd" tells whether it has a whole, valid header; *)
(* "items" holds the properties whose EPC, PDC and EDT are all present in  *)
(* the datagram: when there are fewer of them than "opc" the frame is cut. *)
(* An item's "edt" is a value of the property, abstracted from its bytes,  *)
(* and "pdc" is the number of bytes that were sent for it.                 *)
(***************************************************************************)
EXTENDS Integers, Sequences

\* The service codes, by the name mls_elnet.h gives them.  "Other" stands for
\* every byte that is none of them.
RequestEsv  == {"SetI", "SetC", "Get", "INF_REQ", "SetGet"}
ResponseEsv == {"Set_Res", "Get_Res", "INF", "INFC", "INFC_Res", "SetGet_Res"}
ErrorEsv    == {"SetI_SNA", "SetC_SNA", "Get_SNA", "INF_SNA", "SetGet_SNA"}
Esv         == RequestEsv \cup ResponseEsv \cup ErrorEsv \cup {"Other"}

\* The low half of the code: what a request and its answers have in common.
\* (0x6x, 0x7x, 0x5x.)  No listed code has the low half "Other" stands for.
LowNibble ==
  [e \in Esv |->
     CASE e \in {"SetI", "SetI_SNA"}                     -> 0
       [] e \in {"SetC", "Set_Res", "SetC_SNA"}          -> 1
       [] e \in {"Get", "Get_Res", "Get_SNA"}            -> 2
       [] e \in {"INF_REQ", "INF", "INF_SNA"}            -> 3
       [] e = "INFC"                                     -> 4
       [] e = "INFC_Res"                                 -> 10
       [] e \in {"SetGet", "SetGet_Res", "SetGet_SNA"}   -> 14
       [] OTHER                                          -> 15]

\* The code of the answer to a request, from the status of its properties
\* (0: all of them done, -2: some of them refused).  SetI with status 0 never
\* gets here: the code asserts it.
select_response_esv(esv, status) ==
  CASE esv = "SetI"    -> "SetI_SNA"
    [] esv = "SetC"    -> IF status = 0 THEN "Set_Res" ELSE "SetC_SNA"
    [] esv = "Get"     -> IF status = 0 THEN "Get_Res" ELSE "Get_SNA"
    [] esv = "INF_REQ" -> IF status = 0 THEN "INF" ELSE "INF_SNA"
    [] esv = "INFC"    -> "INFC_Res"

\* A frame as mls_elnet_setup_frame_header starts it, with its properties.
setup_frame(tid, seoj, deoj, esv, opc, items) ==
  [ehd |-> TRUE, tid |-> tid, seoj |-> seoj, deoj |-> deoj,
   esv |-> esv, opc |-> opc, items |-> items]

\* Does the frame res answer the request req?  The sender's address is not
\* part of the question, and neither are the properties.
\* Mutant: the transaction id is not looked at.
unmarshal_without_tid(req, res) ==
  /\ res.ehd
  /\ req.seoj = res.deoj
  /\ req.deoj = res.seoj
  /\ req.esv # res.esv
  /\ LowNibble[req.esv] = LowNibble[res.esv]
  /\ req.opc = res.opc

unmarshal_frame_response(req, res) ==
  /\ res.ehd
  /\ req.tid = res.tid
  /\ req.seoj = res.deoj
  /\ req.deoj = res.seoj
  /\ req.esv # res.esv
  /\ LowNibble[req.esv] = LowNibble[res.esv]
  /\ req.opc = res.opc
=============================================================================
