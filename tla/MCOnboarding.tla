---------------------------- MODULE MCOnboarding ----------------------------
(* Model-checking instance of Onboarding. *)
EXTENDS Onboarding
=============================================================================
