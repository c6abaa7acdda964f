----------------------------- MODULE MCOrderDesk -----------------------------
(***************************************************************************)
(* One ticket, two market prices and two levels, one between the prices of *)
(* a sale and a purchase.                                                  *)
(***************************************************************************)
EXTENDS OrderDesk
=============================================================================
