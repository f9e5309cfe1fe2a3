------------------------------ MODULE Mentions ------------------------------
(* Events as the LLM reports them. *)
EXTENDS Naturals

CONSTANTS Keys     \* date, category and foremost entity of an event

Directions == {"positive", "negative", "none"}

\* length is that of the description.
Mention == [key : Keys, direction : Directions, length : Nat]
=============================================================================
