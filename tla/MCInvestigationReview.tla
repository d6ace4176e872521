------------------------ MODULE MCInvestigationReview ------------------------
(* Finite instances of InvestigationReview for TLC: the tasks are model       *)
(* values of the configuration.                                               *)
EXTENDS InvestigationReview, TLC

=============================================================================
