----------------------------- MODULE ShopMirror -----------------------------
(***************************************************************************)
(* What the stock-sync outbox promises about the webshop, with no queue,   *)
(* no lease and no failure in sight.                                       *)
(*                                                                         *)
(* A pool is one (variant, warehouse) pair.  Every movement of a pool      *)
(* produces a new stock level; a level is named by the number of movements *)
(* behind it, so that "older" and "newer" are an order on levels and two   *)
(* different levels are never confused because their quantities coincide.  *)
(* The shop shows one number per variant: a level of one of its pools, the *)
(* one published last.  It may lag and may skip levels, it is never set to *)
(* a level of a pool whose starting quantity nobody has verified, and it   *)
(* never goes back to an older level of a pool, except that of two         *)
(* publishers who are at work at the same time the one who read first may  *)
(* come second.                                                            *)
(***************************************************************************)
EXTENDS Naturals

CONSTANTS Variants, Pools, VariantOf, Workers, Nowhere

VARIABLES
  stock,     \* the level the stock ledger has reached, per pool
  sent,      \* the newest level the shop has been given, per pool
  shop,      \* what the shop shows, per variant, and whether it came late
  verified   \* the pools whose quantity rests on a known baseline

vars == <<stock, sent, shop, verified>>

Init ==
  /\ stock = [p \in Pools |-> 0]
  /\ sent = [p \in Pools |-> 0]
  /\ shop = [v \in Variants |-> [from |-> Nowhere, level |-> 0, late |-> FALSE]]
  /\ verified \in SUBSET Pools

Move(p) ==
  /\ stock' = [stock EXCEPT ![p] = @ + 1]
  /\ UNCHANGED <<sent, shop, verified>>

Verify(p) ==
  /\ verified' = verified \cup {p}
  /\ UNCHANGED <<stock, sent, shop>>

Show(p, level, late) ==
  shop' = [shop EXCEPT ![VariantOf[p]] =
            [from |-> p, level |-> level, late |-> late]]

\* The normal case: nothing newer of the pool has been given to the shop.
Publish(p) ==
  /\ p \in verified
  /\ \E level \in sent[p] .. stock[p] :
       Show(p, level, FALSE) /\ sent' = [sent EXCEPT ![p] = level]
  /\ UNCHANGED <<stock, verified>>

\* A publisher whom another one has overtaken brings some level of the past, or
\* one that is newer still.
PublishLate(p) ==
  /\ p \in verified
  /\ \E v, w \in Workers : v # w
  /\ \E level \in 0 .. stock[p] :
       /\ Show(p, level, TRUE)
       /\ sent' = [sent EXCEPT ![p] = IF level > @ THEN level ELSE @]
  /\ UNCHANGED <<stock, verified>>

Next == \E p \in Pools : Move(p) \/ Verify(p) \/ Publish(p) \/ PublishLate(p)

Spec == Init /\ [][Next]_vars
=============================================================================
