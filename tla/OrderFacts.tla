----------------------------- MODULE OrderFacts -----------------------------
(***************************************************************************)
(* What sessions of one buyer know of the buyer's orders: reduce_l4()      *)
(* merges the results of the order tools key by key into the one order it  *)
(* keeps (app/application/context/reducer.py,                              *)
(* app/application/tools/order_tools.py).  A session runs one order tool   *)
(* at a time and its results are reduced when the reply ends, while other  *)
(* sessions of the buyer cancel the same orders.                           *)
(*                                                                         *)
(* The number of an order stands for everything of it that never changes.  *)
(***************************************************************************)
EXTENDS Integers, Sequences, SequencesExt

CONSTANTS
    Desks,      \* sessions of the buyer
    Reasons,    \* why an order may be cancelled
    Nil,
    MaxOrders,  \* bound
    MaxTools    \* bound: order tools called

ASSUME FactsAssumption == Nil \notin Reasons /\ MaxOrders \in Nat /\ MaxTools \in Nat

VARIABLES
    book,     \* the orders of the buyer
    order,    \* order[s]: the order of the session's facts
    results,  \* results[s]: the snapshots returned since the reply began
    reduced,  \* history: those reduced so far
    tools     \* order tools called

orderVars == <<book, order, results, reduced, tools>>

Snapshots == [number : 1..MaxOrders, status : {"CONFIRMED", "CANCELLED"},
              reason : Reasons \cup {Nil}]
NoOrder   == [number |-> 0, status |-> "", reason |-> Nil]

OrderTypeOK ==
    /\ book \in Seq(Snapshots) /\ Len(book) <= MaxOrders
    /\ order \in [Desks -> Snapshots \cup {NoOrder}]
    /\ results \in [Desks -> Seq(Snapshots)] /\ reduced \in [Desks -> Seq(Snapshots)]
    /\ tools \in 0..MaxTools

OrderInit ==
    /\ book = <<>>
    /\ order = [s \in Desks |-> NoOrder]
    /\ results = [s \in Desks |-> <<>>]
    /\ reduced = [s \in Desks |-> <<>>]
    /\ tools = 0

Called(s, snapshot) ==
    /\ tools < MaxTools /\ tools' = tools + 1
    /\ results' = [results EXCEPT ![s] = Append(@, snapshot)]
    /\ UNCHANGED <<order, reduced>>

CreateOrder(s) ==
    LET new == [number |-> Len(book) + 1, status |-> "CONFIRMED", reason |-> Nil]
    IN  Len(book) < MaxOrders /\ book' = Append(book, new) /\ Called(s, new)

QueryOrder(s, n) == Called(s, book[n]) /\ UNCHANGED book

\* Only a confirmed order is cancelled, and not without a reason.
CancelOrder(s, n, why) ==
    LET cancelled == [book[n] EXCEPT !.status = "CANCELLED", !.reason = why]
    IN  /\ book[n].status = "CONFIRMED"
        /\ book' = [book EXCEPT ![n] = cancelled] /\ Called(s, cancelled)

\* The tool's timeout: the order is placed or cancelled, and no result says so.
TimesOut(s) ==
    /\ tools < MaxTools /\ tools' = tools + 1
    /\ \/ Len(book) < MaxOrders
          /\ book' = Append(book, [number |-> Len(book) + 1, status |-> "CONFIRMED", reason |-> Nil])
       \/ \E n \in DOMAIN book, why \in Reasons :
             /\ book[n].status = "CONFIRMED"
             /\ book' = [book EXCEPT ![n].status = "CANCELLED", ![n].reason = why]
    /\ UNCHANGED <<order, results, reduced>>

\* Snapshot after snapshot, every key one has a value for is taken over: an
\* order that is not cancelled has none for its reason.
Merged(old, snapshots) ==
    LET given == {i \in DOMAIN snapshots : snapshots[i].reason # Nil}
    IN  [Last(snapshots) EXCEPT
            !.reason = IF given = {} THEN old.reason ELSE snapshots[Max(given)].reason]

\* The end of a reply, also of one that failed.
ReduceOrders(s) ==
    /\ results[s] # <<>>
    /\ order' = [order EXCEPT ![s] = Merged(@, results[s])]
    /\ reduced' = [reduced EXCEPT ![s] = @ \o results[s]]
    /\ results' = [results EXCEPT ![s] = <<>>]
    /\ UNCHANGED <<book, tools>>

OrderNext ==
    \E s \in Desks :
        \/ CreateOrder(s) \/ TimesOut(s) \/ ReduceOrders(s)
        \/ \E n \in DOMAIN book : QueryOrder(s, n) \/ \E why \in Reasons : CancelOrder(s, n, why)

OrderSpec == OrderInit /\ [][OrderNext]_orderVars

----------------------------------------------------------------------------
(* Properties. *)

\* The order of the facts is one order: everything but its reason is of the
\* snapshot the session saw last, whichever orders it saw before; a cancelled
\* one shows the reason it was cancelled for, and a reason that is left over
\* from another order stands beside a status that has none.
OrderIsOne ==
    \A s \in Desks : order[s] # NoOrder =>
        /\ order[s].number = Last(reduced[s]).number /\ order[s].status = Last(reduced[s]).status
        /\ order[s].status = "CANCELLED" =>
              book[order[s].number].status = "CANCELLED" /\ order[s].reason = book[order[s].number].reason
        /\ order[s].reason # Nil =>
              \E n \in DOMAIN book : book[n].reason = order[s].reason
=============================================================================
