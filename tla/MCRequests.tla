----------------------------- MODULE MCRequests -----------------------------
(***************************************************************************)
(* A request on its way in and its tools: the gateway that answers two     *)
(* requests of one session with the same text (IntentGateway), and the     *)
(* middleware around the dispatches of a turn (ToolChain).  They share no  *)
(* state, so a behaviour follows one of them and leaves the other alone.   *)
(***************************************************************************)
EXTENDS IntentGateway, ToolChain

CONSTANTS r1, r2, w1, t1, t2, t3, amazon, ebay

VARIABLE side

requestVars == <<vars, chainVars, side>>

TwoRequests  == {r1, r2}
OneSession   == [r \in TwoRequests |-> "s1"]
RepeatedText == [r \in TwoRequests |-> "q1"]

Init ==
    /\ StreamInit /\ GateInit /\ ChainInit
    /\ side \in {"gateway", "tools"}

Next ==
    /\ UNCHANGED side
    /\ \/ side = "gateway" /\ GateNext /\ UNCHANGED chainVars
       \/ side = "tools" /\ ChainNext /\ UNCHANGED vars

\* GateFairness and ChainFairness, each of them on its side only.
Fairness ==
    /\ \A w \in Workers :
          /\ WF_vars(side = "gateway" /\ Loop(w) /\ UNCHANGED gateVars)
          /\ WF_vars(side = "gateway" /\ Start(w) /\ UNCHANGED gateVars)
    /\ \A r \in Entries :
          /\ WF_vars(side = "gateway" /\ Handle(r) /\ UNCHANGED gateVars)
          /\ WF_vars(side = "gateway" /\ Request(r))
          /\ WF_vars(side = "gateway" /\ DeliverResult(r))
    /\ WF_chainVars(side = "tools" /\ Pass)
    /\ \A c \in Calls :
          /\ WF_chainVars(side = "tools" /\ ((\E k \in Keys : Dispatch(c, k)) \/ GoOn(c)))
          /\ WF_chainVars(side = "tools" /\ Leave(c))

Spec == Init /\ [][Next]_requestVars /\ Fairness
=============================================================================
