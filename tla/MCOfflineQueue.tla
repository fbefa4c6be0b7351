--------------------------- MODULE MCOfflineQueue ---------------------------
(***************************************************************************)
(* Instances of OfflineQueue: a ticket with a photo and a worksheet under  *)
(* it, and an asset changed on two fields.                                 *)
(***************************************************************************)
EXTENDS OfflineQueue

CONSTANTS j, w, p, u, e1, e2

NoOps == {}
TicketOnly == [op \in Ops |-> IF op \in {w, p} THEN j ELSE None]
AllInOne == [edit \in Edits |-> u]

=============================================================================
