------------------------- MODULE MCSessionContext -------------------------
(***************************************************************************)
(* What a session remembers, of its searches and recommendations, over a   *)
(* few products, and of the orders of its buyer, beside another session;   *)
(* and what its buyer is shown of it.                                      *)
(***************************************************************************)
EXTENDS SessionContext, OrderFacts, EventBus

CONSTANTS t1, t2, p1, p2, p3

factsVars == <<contextVars, orderVars, busVars>>

\* The facts of a session are true of its recommendations and its order.
FactsAreTrue == MemoryIsTrue /\ OrderIsOne
=============================================================================
