------------------------------ MODULE MCIntake ------------------------------
(* TLC instances of Intake.                                                *)
EXTENDS Intake, TLC

\* Limits of the three tiers: the address, the address at one widget, the widget.
TierLimits == <<2, 2, 2>>

\* Leads and addresses are interchangeable.
Symmetry == Permutations(Leads) \cup Permutations(Ips)

\* The tail that Since keeps of a list in order is what the filter of the code keeps.
ASSUME TailIsFilter ==
  \A n \in 0..4 : \A times \in [1..n -> 0..3] :
    InOrder(times) =>
      \A at \in 0..6 : Since(times, at) = SelectSeq(times, LAMBDA t : at - t < Window)

=============================================================================
