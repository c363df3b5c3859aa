------------------------------- MODULE MCShop -------------------------------
(***************************************************************************)
(* What concurrent calls share: the orders of the shop (Orders), the       *)
(* circuit breaker in Redis (SharedBreaker) and the gateway to the model   *)
(* (ModelGateway).  None touches the state of another, so a behaviour      *)
(* follows one of them from its initial state and leaves the others alone. *)
(***************************************************************************)
EXTENDS MCOrders, SharedBreaker, ModelGateway

CONSTANTS t1, t2, t3, a1, a2, a3

VARIABLE side

shopVars == <<vars, sharedVars, gatewayVars, side>>

ThreeCalls == {t1, t2, t3}
ThreeAgents == {a1, a2, a3}

\* a1 and a2 work for one intent.
TwoIntents == [c \in ThreeAgents |-> IF c = a3 THEN "i2" ELSE "i1"]

Init ==
    /\ OrdersInit /\ SharedInit /\ GatewayInit
    /\ side \in {"orders", "breaker", "model"}
    /\ side # "orders" => oneByOne
    /\ side # "breaker" => inTurn

\* Calls of the shop come to an end; the guards never stop.
Next ==
    /\ UNCHANGED side
    /\ \/ side = "orders" /\ OrdersNext /\ UNCHANGED <<sharedVars, gatewayVars>>
       \/ side = "orders" /\ UNCHANGED <<vars, sharedVars, gatewayVars>>
       \/ side = "breaker" /\ SharedNext /\ UNCHANGED <<vars, gatewayVars>>
       \/ side = "model" /\ GatewayNext /\ UNCHANGED <<vars, sharedVars>>

\* GatewayFairness; nothing is asked of the shop's and of the breaker's callers.
Fairness ==
    /\ WF_gatewayVars(side = "model" /\ Elapse)
    /\ \A c \in Callers :
          /\ WF_gatewayVars(side = "model" /\ Acquire(c))
          /\ WF_gatewayVars(side = "model" /\ StartAttempt(c))
          /\ WF_gatewayVars(side = "model" /\ Retry(c))
          /\ WF_gatewayVars(side = "model" /\ Finish(c))

Spec == Init /\ [][Next]_shopVars /\ Fairness
=============================================================================
