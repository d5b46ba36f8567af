--------------------------- MODULE ReviewContract ---------------------------
(***************************************************************************)
(* What a review promises whoever reads its report, whatever the language  *)
(* model answers: it publishes at most once, it publishes only suggestions *)
(* its evidence policy accepts, and it publishes a suggestion only after   *)
(* Proposer, Critique and Judge have all answered.  The Debate module      *)
(* implements it.                                                          *)
(***************************************************************************)

CONSTANT Suggestions        \* every suggestion an agent can write

VARIABLES phase,            \* "reviewing" until the report exists
          acceptable,       \* what the evidence policy lets through
          published,        \* the suggestions reported as findings
          reviewed          \* did all three roles answer?

contractVars == <<phase, acceptable, published, reviewed>>

ContractInit ==
  /\ phase = "reviewing"
  /\ acceptable \in SUBSET Suggestions
  /\ published = {}
  /\ reviewed = FALSE

Publish ==
  /\ phase = "reviewing"
  /\ phase' = "closed"
  /\ published' \in SUBSET acceptable
  /\ reviewed' \in BOOLEAN
  /\ published' # {} => reviewed'
  /\ UNCHANGED acceptable

ContractSpec == ContractInit /\ [][Publish]_contractVars

=============================================================================
