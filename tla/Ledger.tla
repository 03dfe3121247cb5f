------------------------------- MODULE Ledger -------------------------------
(***************************************************************************)
(* What the coin view promises, whatever caches, undo data and restarts    *)
(* are behind it: at every moment the unspent outputs are those of the     *)
(* chain up to the best block, and only a block whose inputs are unspent   *)
(* and mature is ever added.                                               *)
(***************************************************************************)
EXTENDS Transactions

VARIABLES
  best,   \* the block whose coins these are
  coins,
  saved   \* the block to which a restart goes back

lvars == <<best, coins, saved>>

Init == best = Genesis /\ coins = CoinsOf(Genesis) /\ saved = Genesis

Connect(b) ==
  /\ b # Genesis /\ Prev[b] = best /\ Valid(b)
  /\ best' = b /\ coins' = CoinsOf(b) /\ UNCHANGED saved

Disconnect ==
  /\ best # Genesis
  /\ best' = Prev[best] /\ coins' = CoinsOf(Prev[best]) /\ UNCHANGED saved

Save == saved' = best /\ UNCHANGED <<best, coins>>

Restart == best' = saved /\ coins' = CoinsOf(saved) /\ UNCHANGED saved

Next == (\E b \in Blocks : Connect(b)) \/ Disconnect \/ Save \/ Restart

Spec == Init /\ [][Next]_lvars
=============================================================================
