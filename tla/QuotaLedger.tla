---------------------------- MODULE QuotaLedger ----------------------------
(***************************************************************************)
(* What persistBlob promises its callers, with no handlers, locks or rows: *)
(* one account of bytes with a cap and one per workspace with its          *)
(* allocation, charged together, at once, and only when both have room.    *)
(***************************************************************************)
EXTENDS Naturals

CONSTANTS Workspaces, Sizes, Cap, Allocation

VARIABLES total, share

Init == total = 0 /\ share = [ws \in Workspaces |-> 0]

Charge(ws, n) ==
  /\ total + n <= Cap
  /\ share[ws] + n <= Allocation[ws]
  /\ total' = total + n
  /\ share' = [share EXCEPT ![ws] = @ + n]

Next == \E ws \in Workspaces, n \in Sizes : Charge(ws, n)

Spec == Init /\ [][Next]_<<total, share>>
=============================================================================
