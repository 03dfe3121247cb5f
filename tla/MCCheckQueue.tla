---------------------------- MODULE MCCheckQueue ----------------------------
(* Two workers and the master verify two blocks of up to three checks, one *)
(* of which fails; batches hold at most two checks.                        *)
EXTENDS CheckQueue
CONSTANTS w1, w2, m, c1, c2, bad
MCWorkers == {w1, w2}
MCChecks  == {c1, c2, bad}
MCGood    == {c1, c2}
=============================================================================
