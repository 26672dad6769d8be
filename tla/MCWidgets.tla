----------------------------- MODULE MCWidgets ------------------------------
(* TLC instances of Widgets.                                               *)
EXTENDS Widgets

=============================================================================
