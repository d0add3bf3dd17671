------------------------------ MODULE PrintLog ------------------------------
(***************************************************************************)
(* What the transport side channel promises (spec, side-channel protocol): *)
(* each CPU's probe hits issue output events (a formatted print, or the    *)
(* printing of a stored error message), and the user-space side shows     *)
(* exactly those events, each once, in the order that CPU issued them.    *)
(* Nothing is said about the order of events of different CPUs.           *)
(***************************************************************************)
EXTENDS Naturals, Sequences

CONSTANTS
  CPUs,      \* the CPUs probes run on
  Events     \* the output events a probe hit may issue

VARIABLES
  issued,    \* per CPU: the events its probe hits have issued
  shown      \* per CPU: the events the user-space side has shown

vars == <<issued, shown>>

Init ==
  /\ issued = [c \in CPUs |-> <<>>]
  /\ shown = [c \in CPUs |-> <<>>]

\* A probe hit on c issues event e.
Issue(c, e) ==
  /\ issued' = [issued EXCEPT ![c] = Append(@, e)]
  /\ UNCHANGED shown

\* The user-space side shows the oldest event of c not yet shown.
Show(c) ==
  /\ Len(shown[c]) < Len(issued[c])
  /\ shown' = [shown EXCEPT ![c] = Append(@, issued[c][Len(@) + 1])]
  /\ UNCHANGED issued

Next == \E c \in CPUs : (\E e \in Events : Issue(c, e)) \/ Show(c)

Spec == Init /\ [][Next]_vars

====
