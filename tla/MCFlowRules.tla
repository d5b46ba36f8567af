----------------------------- MODULE MCFlowRules ----------------------------
(* Functions of up to five operations in either language.                  *)
EXTENDS FlowRules

MCIds == 1 .. MaxOps
=============================================================================
