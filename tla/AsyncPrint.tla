----------------------------- MODULE AsyncPrint -----------------------------
(***************************************************************************)
(* What uring_perror promises a program that calls it: a posted message is *)
(* printed later, whole, once, in no particular order, and before the      *)
(* printer closes.                                                         *)
(***************************************************************************)
EXTENDS Integers

CONSTANTS
  Msgs,   \* what may be posted
  Texts   \* what may appear on the output; a superset of Msgs

VARIABLES
  posted, \* the messages handed over so far
  lines,  \* text -> number of times it was printed
  open    \* whether the printer still runs

vars == <<posted, lines, open>>

Init ==
  /\ posted = {}
  /\ lines = [x \in Texts |-> 0]
  /\ open = TRUE

Post(m) ==
  /\ open
  /\ m \notin posted
  /\ posted' = posted \union {m}
  /\ UNCHANGED <<lines, open>>

Show(m) ==
  /\ open
  /\ m \in posted
  /\ lines[m] = 0
  /\ lines' = [lines EXCEPT ![m] = 1]
  /\ UNCHANGED <<posted, open>>

Close ==
  /\ open
  /\ \A m \in posted : lines[m] = 1
  /\ open' = FALSE
  /\ UNCHANGED <<posted, lines>>

Next ==
  \/ \E m \in Msgs : Post(m) \/ Show(m)
  \/ Close

SafeSpec == Init /\ [][Next]_vars

Spec == SafeSpec /\ \A m \in Msgs : WF_vars(Show(m))

=============================================================================
