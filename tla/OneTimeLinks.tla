---------------------------- MODULE OneTimeLinks ----------------------------
(***************************************************************************)
(* What preview links promise (docs/configuration.md: consumed on first    *)
(* view): the life of a token, whatever requests present, replace or race  *)
(* for it.  It is good, then taken by one request, and then it is shown or *)
(* wasted; a token that is replaced, or whose email is deleted, is void.   *)
(* A statement may move several tokens at once.                            *)
(***************************************************************************)

CONSTANT Toks

VARIABLE stage      \* per token

Moves == {<<"unborn", "good">>, <<"unborn", "void">>,
          <<"good", "taken">>,  <<"good", "void">>,
          <<"taken", "shown">>, <<"taken", "void">>}

Init == stage = [t \in Toks |-> "unborn"]

Next ==
    /\ stage' \in [Toks -> {"unborn", "good", "taken", "shown", "void"}]
    /\ \A t \in Toks : stage'[t] # stage[t] => <<stage[t], stage'[t]>> \in Moves

Spec == Init /\ [][Next]_stage
============================================================================
