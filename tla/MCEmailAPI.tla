---------------------------- MODULE MCEmailAPI ----------------------------
(* Instances of EmailAPI for TLC: the request slots are interchangeable in *)
(* the runs that check safety only.                                        *)
EXTENDS EmailAPI, TLC

Slots == Permutations(Reqs)
============================================================================
