------------------------------ MODULE MessagesMC ------------------------------
(***************************************************************************)
(* Messages for TLC: the request threads of the web UI share its inbox;    *)
(* one of them tries three times, so that an answer which is late can pass *)
(* from each command to the next.                                          *)
(***************************************************************************)
EXTENDS Messages

OneInbox == [c \in Clients |-> CHOOSE i \in Inboxes : TRUE]
ThreeAndOne ==
  LET first == CHOOSE c \in Clients : TRUE
  IN [c \in Clients |-> IF c = first THEN 3 ELSE 1]
===============================================================================
