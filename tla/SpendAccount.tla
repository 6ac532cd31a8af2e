---------------------------- MODULE SpendAccount ----------------------------
(***************************************************************************)
(* What a spending limit promises: money is first held and later spent or  *)
(* given back, what is spent never exceeds what was held for it, and held  *)
(* and spent money together never exceed the cap.  Nothing else happens to *)
(* the account: money that was spent stays spent.                          *)
(***************************************************************************)
EXTENDS Integers

CONSTANT Cap
VARIABLES held, spent

AccountInit == held = 0 /\ spent = 0

(* Hold an amount for a request that is about to be sent. *)
Hold ==
  /\ held' >= held
  /\ held' + spent <= Cap
  /\ spent' = spent

(* Settle an amount held earlier: spend some of it and release the rest. *)
Settle ==
  /\ spent' >= spent
  /\ held' >= 0
  /\ held' + spent' <= held + spent

AccountSpec == AccountInit /\ [][Hold \/ Settle]_<<held, spent>>
=============================================================================
