----------------------------- MODULE OneShotLink -----------------------------
(***************************************************************************)
(* What the TWI master driver promises the CSP interface: a message it       *)
(* accepts is sent whole or not at all, at most once, in the order accepted, *)
(* and one at a time; nothing is promised for a message it refuses.          *)
(***************************************************************************)
EXTENDS Sequences

CONSTANT Messages

VARIABLES
    accepted,   \* the messages accepted so far
    inFlight,   \* the one being sent, if any
    out         \* the messages that were sent, in order

Init == accepted = {} /\ inFlight = {} /\ out = <<>>

Accept(m) ==
    /\ inFlight = {} /\ m \notin accepted
    /\ accepted' = accepted \union {m}
    /\ inFlight' = {m}
    /\ UNCHANGED out

Complete(m) ==
    /\ inFlight = {m}
    /\ inFlight' = {}
    /\ out' = Append(out, m)
    /\ UNCHANGED accepted

Lose ==
    /\ inFlight # {}
    /\ inFlight' = {}
    /\ UNCHANGED <<accepted, out>>

End == Lose \/ \E m \in Messages : Complete(m)
Next == End \/ \E m \in Messages : Accept(m)

vars == <<accepted, inFlight, out>>
Spec == Init /\ [][Next]_vars

(* The link never stays busy.                                                *)
FairSpec == Spec /\ WF_vars(End)
=============================================================================
