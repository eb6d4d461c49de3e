----------------------------- MODULE VoiceHold -----------------------------
(***************************************************************************)
(* What the voice quota promises a business about each of its calls, and   *)
(* nothing of how the database keeps the promise: a call takes at most one *)
(* hold of minutes, of a size between the smallest and the largest grant;  *)
(* the hold ends exactly once, either given back in full or charged for at *)
(* most what was held; a charge is final; and at no time do more than      *)
(* MaxConcurrent calls hold minutes.  VoiceQuota is shown to implement it. *)
(***************************************************************************)
EXTENDS Integers, FiniteSets

CONSTANTS
    Calls,          \* the calls of one business
    MinGrant,       \* the smallest hold worth opening a call for
    MaxGrant,       \* the largest hold a call may take
    MaxConcurrent   \* how many calls may hold minutes at a time

VARIABLES
    hold,     \* hold[c]: what became of call c's minutes
    amount,   \* amount[c]: the seconds call c took
    charge    \* charge[c]: the seconds call c was charged

holdVars == <<hold, amount, charge>>

Held == {c \in Calls : hold[c] = "held"}

Init ==
    /\ hold = [c \in Calls |-> "free"]
    /\ amount = [c \in Calls |-> 0]
    /\ charge = [c \in Calls |-> 0]

Take(c, n) ==
    /\ hold[c] = "free"
    /\ Cardinality(Held) < MaxConcurrent
    /\ hold' = [hold EXCEPT ![c] = "held"]
    /\ amount' = [amount EXCEPT ![c] = n]
    /\ UNCHANGED charge

GiveBack(c) ==
    /\ hold[c] = "held"
    /\ hold' = [hold EXCEPT ![c] = "returned"]
    /\ UNCHANGED <<amount, charge>>

Charge(c, n) ==
    /\ hold[c] = "held"
    /\ hold' = [hold EXCEPT ![c] = "charged"]
    /\ charge' = [charge EXCEPT ![c] = n]
    /\ UNCHANGED amount

Next ==
    \E c \in Calls :
        \/ \E n \in MinGrant..MaxGrant : Take(c, n)
        \/ GiveBack(c)
        \/ \E n \in 0..amount[c] : Charge(c, n)

Spec == Init /\ [][Next]_holdVars
=============================================================================
