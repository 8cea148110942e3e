-------------------------- MODULE SellerInventory --------------------------
(***************************************************************************)
(* What the capture daemon promises about one trace, without saying how:   *)
(* its object is stored whole, then listed on the marketplace, then owned  *)
(* (known locally to be listed); a deletion erases the object, withdraws   *)
(* the listing, and forgets the local reference, in this order.  Stages    *)
(* may be the last one a trace ever reaches, but none is skipped and none  *)
(* is left backwards.                                                      *)
(***************************************************************************)
CONSTANT Traces

VARIABLE stage

Stages == {"local", "stored", "listed", "owned", "erased", "withdrawn", "forgotten"}

Init == stage = [t \in Traces |-> "local"]

Move(t, from, to) ==
  /\ stage[t] = from
  /\ stage' = [stage EXCEPT ![t] = to]

Store(t) == Move(t, "local", "stored")
List(t) == Move(t, "stored", "listed")
Own(t) == Move(t, "listed", "owned")
Erase(t) == Move(t, "owned", "erased")
Withdraw(t) == Move(t, "erased", "withdrawn")
Forget(t) == Move(t, "withdrawn", "forgotten")

Next ==
  \E t \in Traces :
    Store(t) \/ List(t) \/ Own(t) \/ Erase(t) \/ Withdraw(t) \/ Forget(t)

Spec == Init /\ [][Next]_stage
=============================================================================
