------------------------------ MODULE Transfer ------------------------------
(***************************************************************************)
(* What the way from Postfix's queue to the emails table promises,         *)
(* whatever processes there are between the two: mail is handed over at    *)
(* least once, and once more at most for every attempt that was cut off.   *)
(* A copy may come late, when the sender has settled the message already.  *)
(***************************************************************************)
EXTENDS Naturals

CONSTANT Msgs

VARIABLES
    fate,       \* per message, what the sender makes of it
    copies,     \* per message, rows in the table
    cuts        \* per message, attempts that ended without an answer

Fates == {"unsent", "pending", "delivered", "returned"}

Init ==
    /\ fate = [m \in Msgs |-> "unsent"]
    /\ copies = [m \in Msgs |-> 0]
    /\ cuts = [m \in Msgs |-> 0]

Settle(m, f, g) ==
    /\ fate[m] = f
    /\ fate' = [fate EXCEPT ![m] = g]
    /\ UNCHANGED <<copies, cuts>>

Send(m) == Settle(m, "unsent", "pending")

\* Only mail that is in the table is forgotten.
Confirm(m) == copies[m] > 0 /\ Settle(m, "pending", "delivered")

Return(m) == Settle(m, "pending", "returned")

Store(m) ==
    /\ fate[m] # "unsent"
    /\ copies[m] <= cuts[m]
    /\ copies' = [copies EXCEPT ![m] = @ + 1]
    /\ UNCHANGED <<fate, cuts>>

\* A crash or a restart cuts off every attempt under way.
CutOff(S) ==
    /\ \A m \in S : fate[m] = "pending"
    /\ cuts' = [m \in Msgs |-> IF m \in S THEN cuts[m] + 1 ELSE cuts[m]]
    /\ UNCHANGED <<fate, copies>>

Next ==
    \/ \E m \in Msgs : Send(m) \/ Confirm(m) \/ Return(m) \/ Store(m)
    \/ \E S \in SUBSET Msgs : CutOff(S)

Spec == Init /\ [][Next]_<<fate, copies, cuts>>
============================================================================
