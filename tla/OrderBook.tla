------------------------------ MODULE OrderBook ------------------------------
(***************************************************************************)
(* What placing and cancelling orders promises to a buyer, and what the    *)
(* in-memory repository does, whose methods never yield to another call:   *)
(* each operation happens at once or not at all.                           *)
(***************************************************************************)
EXTENDS Integers, Sequences, FiniteSetsExt

CONSTANTS Articles, Supply, Numbers, Buyers, Baskets, NoOrder

VARIABLES
    free,  \* free[a]: pieces of article a not sold
    book   \* book[n]: the order with number n

bookVars == <<free, book>>

\* How many pieces of article a the lines ask for.
Pieces(lines, a) ==
    MapThenSumSet(LAMBDA i : lines[i].qty, {i \in DOMAIN lines : lines[i].sku = a})

BookInit ==
    /\ free = Supply
    /\ book = [n \in Numbers |-> NoOrder]

Place(n, b, lines) ==
    /\ book[n] = NoOrder
    /\ book' = [book EXCEPT ![n] = [buyer |-> b, lines |-> lines, status |-> "CONFIRMED"]]
    /\ \A a \in Articles : Pieces(lines, a) <= free[a]
    /\ free' = [a \in Articles |-> free[a] - Pieces(lines, a)]

Cancel(n) ==
    /\ book[n] # NoOrder /\ book[n].status = "CONFIRMED"
    /\ book' = [book EXCEPT ![n].status = "CANCELLED"]
    /\ free' = [a \in Articles |-> free[a] + Pieces(book[n].lines, a)]

BookNext ==
    \E n \in Numbers :
        Cancel(n) \/ \E b \in Buyers, lines \in Baskets : Place(n, b, lines)

BookSpec == BookInit /\ [][BookNext]_bookVars
=============================================================================
