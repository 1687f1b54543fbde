------------------------------- MODULE Inbox --------------------------------
(***************************************************************************)
(* What the stealth wallet promises its receivers: payments arrive, each   *)
(* is learned no earlier than the wallet can know of it, is never          *)
(* forgotten, and none stays unlearned for ever.                           *)
(***************************************************************************)
CONSTANT Receiver

VARIABLES
  arrived,  \* outputs paid to each receiver's paycode, as the index shows them
  learned   \* those the receiver has on record

vars == <<arrived, learned>>

Init == arrived = [w \in Receiver |-> {}] /\ learned = [w \in Receiver |-> {}]

(* more is shown; some of it may be known already, being the receiver's own *)
Arrive(w) ==
  /\ arrived[w] \subseteq arrived'[w] /\ arrived[w] # arrived'[w]
  /\ learned[w] \subseteq learned'[w] /\ learned'[w] \subseteq arrived'[w]

Learn(w) ==
  /\ arrived'[w] = arrived[w]
  /\ learned[w] \subseteq learned'[w] /\ learned[w] # learned'[w] /\ learned'[w] \subseteq arrived[w]

Rest(w) == arrived'[w] = arrived[w] /\ learned'[w] = learned[w]

(* a block shows payments to several receivers at once *)
Next ==
  /\ DOMAIN arrived' = Receiver /\ DOMAIN learned' = Receiver
  /\ \A w \in Receiver : Arrive(w) \/ Learn(w) \/ Rest(w)

Spec == Init /\ [][Next]_vars
=============================================================================
