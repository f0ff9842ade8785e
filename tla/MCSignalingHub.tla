--------------------------- MODULE MCSignalingHub ---------------------------
(* Instances of SignalingHub for TLC: which serials each client sends.     *)
EXTENDS SignalingHub, TLC

CONSTANTS c1, c2, c3, d1, d2

\* c3 is the device of c1 coming back; c2 is another device.
Reconnecting == (c1 :> {d1}) @@ (c2 :> {d2}) @@ (c3 :> {d1})

Once == [c \in {c1, c2, c3} |-> 1]

\* The same, and c1 may change its device.
Moving == (c1 :> {d1, d2}) @@ (c2 :> {d2}) @@ (c3 :> {d1})
FirstTwice == (c1 :> 2) @@ (c2 :> 1) @@ (c3 :> 1)
=============================================================================
