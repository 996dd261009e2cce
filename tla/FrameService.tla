----------------------------- MODULE FrameService -----------------------------
(***************************************************************************)
(* What the receive path promises cspTask: an unreliable service that may   *)
(* lose any frame, and never invents, repeats or (within one connection     *)
(* key) reorders the ones it delivers.                                      *)
(***************************************************************************)
EXTENDS Naturals, Sequences

CONSTANTS Keys, NoKey, MaxFrames

Frames == 1 .. MaxFrames

VARIABLES sent,       \* frames offered so far
          keyOf,      \* the key of each of them
          pending,    \* those accepted and not yet delivered or lost
          delivered   \* those delivered, in order

vars == <<sent, keyOf, pending, delivered>>

Init == /\ sent = 0
        /\ keyOf = [n \in Frames |-> NoKey]
        /\ pending = {}
        /\ delivered = <<>>

(* A frame is offered; it may be lost at once. *)
Offer(k) == /\ sent < MaxFrames
            /\ sent' = sent + 1
            /\ keyOf' = [keyOf EXCEPT ![sent + 1] = k]
            /\ pending' \in {pending, pending \union {sent + 1}}
            /\ UNCHANGED delivered

(* Any accepted frames may be lost. *)
Lose(S) == /\ S \subseteq pending
           /\ S # {}
           /\ pending' = pending \ S
           /\ UNCHANGED <<sent, keyOf, delivered>>

(* The oldest pending frame of a key may be delivered. *)
Deliver(n) == /\ n \in pending
              /\ \A m \in pending : keyOf[m] = keyOf[n] => n <= m
              /\ pending' = pending \ {n}
              /\ delivered' = Append(delivered, n)
              /\ UNCHANGED <<sent, keyOf>>

Resolve == \/ \E S \in SUBSET pending : Lose(S)
           \/ \E n \in pending : Deliver(n)

Next == (\E k \in Keys : Offer(k)) \/ Resolve

Spec == Init /\ [][Next]_vars

(* No frame stays pending for ever. *)
FairSpec == Spec /\ WF_vars(Resolve)
=============================================================================
