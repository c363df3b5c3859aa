------------------------------- MODULE Orders -------------------------------
(***************************************************************************)
(* Placing and cancelling orders: PlaceOrderUseCase and CancelOrderUseCase *)
(* (app/application/usecases/order_usecases.py) over the SQL order         *)
(* repository, under the timeout of the tool middleware.                   *)
(*                                                                         *)
(* A call runs in one process.  The stock lives in that process's copy of  *)
(* the catalogue, whose methods never yield; the orders live in the        *)
(* database all processes share.  An action is the code between two awaits *)
(* of the database; merge() is a SELECT followed by an INSERT or an UPDATE *)
(* of the columns that differ from what the SELECT read.                   *)
(***************************************************************************)
EXTENDS Integers, Sequences, FiniteSets, FiniteSetsExt

CONSTANTS
    Placing,      \* calls of create_order_tool
    Cancelling,   \* calls of cancel_order_tool
    Procs,        \* the processes: API and workers
    BuyerOf,      \* BuyerOf[c]: the buyer of the call's session
    Skus,
    Initial,      \* Initial[s]: stock of s in the catalogue files
    CurrencyOf,   \* CurrencyOf[s]: currency of the price of s
    Carts,        \* the item lists a model may pass: sequences of [sku, qty]
    NoRow,
    MaxBusy,      \* bound: calls in progress at once
    MaxDbFaults,    \* bound: database calls that raise ("database is locked")
    MaxTimeouts,  \* bound: calls cancelled by the tool timeout
    MaxRestarts   \* bound: process restarts

ShopCalls == Placing \cup Cancelling

\* At most one order per placing call.
Numbers == 1..Cardinality(Placing)
Rows    == [buyer : {BuyerOf[c] : c \in ShopCalls}, lines : Carts,
            status : {"CONFIRMED", "CANCELLED"}]

ASSUME OrdersAssumption ==
    /\ IsFiniteSet(ShopCalls)
    /\ Placing \cap Cancelling = {}
    /\ Initial \in [Skus -> Nat]
    /\ NoRow \notin Rows
    /\ MaxDbFaults \in Nat /\ MaxTimeouts \in Nat /\ MaxRestarts \in Nat

VARIABLES
    stock,     \* stock[p][s]: the stock of s in process p
    rows,      \* rows[n]: the order stored under number n
    place,     \* place[c]: where the call is
    proc,      \* proc[c]: the process it runs in
    oid,       \* oid[c]: the order number it works on
    mine,      \* mine[c]: its Order aggregate
    seen,      \* seen[c]: the row its merge() read
    oneByOne,    \* calls come one after the other and nothing cuts them off
    dbFaults, timeouts, restarts

callVars == <<place, proc, oid, mine, seen>>
allowance   == <<dbFaults, timeouts, restarts>>
vars     == <<stock, rows, callVars, oneByOne, allowance>>

Underway == {"draw", "find", "lines", "found", "look", "commit"}
Ended    == {"placed", "cancelled", "refused", "timedout", "lost"}

\* The stock of a Sku is never negative (Sku.__post_init__).
OrdersTypeOK ==
    /\ stock \in [Procs -> [Skus -> Nat]]
    /\ rows \in [Numbers -> Rows \cup {NoRow}]
    /\ place \in [ShopCalls -> {"idle"} \cup Underway \cup Ended]
    /\ proc \in [ShopCalls -> Procs \cup {NoRow}]
    /\ oid \in [ShopCalls -> Numbers \cup {0}]
    /\ mine \in [ShopCalls -> Rows \cup {NoRow}]
    /\ seen \in [ShopCalls -> Rows \cup {NoRow}]
    /\ oneByOne \in BOOLEAN
    /\ dbFaults \in 0..MaxDbFaults
    /\ timeouts \in 0..MaxTimeouts
    /\ restarts \in 0..MaxRestarts

OrdersInit ==
    /\ stock = [p \in Procs |-> Initial]
    /\ rows = [n \in Numbers |-> NoRow]
    /\ place = [c \in ShopCalls |-> "idle"]
    /\ proc = [c \in ShopCalls |-> NoRow]
    /\ oid = [c \in ShopCalls |-> 0]
    /\ mine = [c \in ShopCalls |-> NoRow]
    /\ seen = [c \in ShopCalls |-> NoRow]
    /\ oneByOne \in BOOLEAN
    /\ dbFaults = 0 /\ timeouts = 0 /\ restarts = 0

MoveTo(c, from, to) == place[c] = from /\ place' = [place EXCEPT ![c] = to]
Busy == {c \in ShopCalls : place[c] \in Underway}

\* The calls of a behaviour overlap, or come one after the other.
Room == Cardinality(Busy) < IF oneByOne THEN 1 ELSE MaxBusy

\* How many pieces of s the lines ask for.
Need(lines, s) ==
    MapThenSumSet(LAMBDA i : lines[i].qty, {i \in DOMAIN lines : lines[i].sku = s})

Minus(st, lines) == [s \in Skus |-> st[s] - Need(lines, s)]
Plus(st, lines)  == [s \in Skus |-> st[s] + Need(lines, s)]

\* deduct_stock() over the lines from first to last.
Fits(lines, st) == \A s \in Skus : Need(lines, s) <= st[s]

----------------------------------------------------------------------------
(* PlaceOrderUseCase.execute() *)

\* The items that end the loop: unknown Sku, not enough left after the items
\* before it, or a quantity OrderLine rejects.
Refused(cart, st) ==
    {i \in DOMAIN cart :
        \/ cart[i].sku \notin Skus
        \/ cart[i].qty <= 0
        \/ Need(SubSeq(cart, 1, i), cart[i].sku) > st[cart[i].sku]}

PlaceBegin(c, p, cart) ==
    /\ Room
    /\ MoveTo(c, "idle", "draw")
    /\ Refused(cart, stock[p]) = {}
    /\ stock' = [stock EXCEPT ![p] = Minus(@, cart)]
    /\ proc' = [proc EXCEPT ![c] = p]
    /\ mine' = [mine EXCEPT ![c] =
                  [buyer |-> BuyerOf[c], lines |-> cart, status |-> "CONFIRMED"]]
    /\ UNCHANGED <<rows, oid, seen, allowance>>

\* The except clause puts back the items before the refused one.  A negative
\* quantity is deducted before OrderLine rejects it, and restore_stock() then
\* refuses to take it back.
PlaceRefused(c, p, cart) ==
    /\ MoveTo(c, "idle", "refused")
    /\ Refused(cart, stock[p]) # {}
    /\ LET bad == cart[Min(Refused(cart, stock[p]))]
       IN  stock' = IF bad.sku \in Skus /\ bad.qty < 0
                      THEN [stock EXCEPT ![p][bad.sku] = @ - bad.qty] ELSE stock
    /\ UNCHANGED <<rows, proc, oid, mine, seen, allowance>>

Stored == {n \in Numbers : rows[n] # NoRow}

\* Mutant: next_order_id() counts the caller's order twice.
DrawSkipping(c) ==
    /\ MoveTo(c, "draw", "look")
    /\ oid' = [oid EXCEPT ![c] = Cardinality(Stored) + 2]
    /\ UNCHANGED <<stock, rows, proc, mine, seen, allowance>>

\* next_order_id(): the number of stored orders plus one.
DrawNumber(c) ==
    /\ MoveTo(c, "draw", "look")
    /\ oid' = [oid EXCEPT ![c] = Cardinality(Stored) + 1]
    /\ UNCHANGED <<stock, rows, proc, mine, seen, allowance>>

MixedCurrency(lines) ==
    \E i, j \in DOMAIN lines : CurrencyOf[lines[i].sku] # CurrencyOf[lines[j].sku]

IsPlacement(c) == c \in Placing

\* Order.__post_init__ rejects lines of different currencies.
PlaceInvalid(c) ==
    /\ MoveTo(c, "look", "refused")
    /\ MixedCurrency(mine[c].lines)
    /\ stock' = [stock EXCEPT ![proc[c]] = Plus(@, mine[c].lines)]
    /\ UNCHANGED <<rows, proc, oid, mine, seen, allowance>>

----------------------------------------------------------------------------
(* SqlOrderRepository.save() *)

LookUp(c) ==
    /\ MoveTo(c, "look", "commit")
    /\ IsPlacement(c) => ~MixedCurrency(mine[c].lines)
    /\ seen' = [seen EXCEPT ![c] = rows[oid[c]]]
    /\ UNCHANGED <<stock, rows, proc, oid, mine, allowance>>

\* UPDATE writes the columns in which the aggregate differs from the row that
\* was read; the order lines are replaced.
Rewritten(c) ==
    LET now == rows[oid[c]] IN
    [buyer  |-> IF mine[c].buyer # seen[c].buyer THEN mine[c].buyer ELSE now.buyer,
     status |-> IF mine[c].status # seen[c].status THEN mine[c].status ELSE now.status,
     lines  |-> mine[c].lines]

Write(c) ==
    \/ /\ seen[c] = NoRow /\ rows[oid[c]] = NoRow
       /\ rows' = [rows EXCEPT ![oid[c]] = mine[c]]
    \/ /\ seen[c] # NoRow
       /\ rows' = [rows EXCEPT ![oid[c]] = Rewritten(c)]

Commit(c) ==
    /\ MoveTo(c, "commit", IF IsPlacement(c) THEN "placed" ELSE "cancelled")
    /\ Write(c)
    /\ UNCHANGED <<stock, proc, oid, mine, seen, allowance>>

\* The except clauses.  A placement puts its pieces back.  A cancellation
\* takes them again, last line first, until a line finds too few: that
\* exception ends the compensation.
Compensate(c) ==
    LET st == stock[proc[c]]
        lines == mine[c].lines
        From(i) == SubSeq(lines, i, Len(lines))
        taken == Min({i \in 1..Len(lines) + 1 : Fits(From(i), st)})
    IN  IF IsPlacement(c) THEN Plus(st, lines) ELSE Minus(st, From(taken))

\* Mutant: no except clause.
KeepPieces(c) ==
    /\ place' = [place EXCEPT ![c] = "refused"]
    /\ UNCHANGED <<stock, rows, proc, oid, mine, seen, timeouts, restarts>>

GiveBack(c) ==
    /\ place' = [place EXCEPT ![c] = "refused"]
    /\ stock' = [stock EXCEPT ![proc[c]] = Compensate(c)]
    /\ UNCHANGED <<rows, proc, oid, mine, seen, timeouts, restarts>>

\* INSERT of a number another call has stored since: IntegrityError.
InsertFails(c) ==
    /\ place[c] = "commit" /\ seen[c] = NoRow /\ rows[oid[c]] # NoRow
    /\ GiveBack(c)
    /\ UNCHANGED dbFaults

DbFault == dbFaults < MaxDbFaults /\ dbFaults' = dbFaults + 1

\* The database raises while the number is drawn or the order is saved.
DatabaseFails(c) ==
    /\ place[c] \in {"draw", "look", "commit"}
    /\ DbFault
    /\ GiveBack(c)

----------------------------------------------------------------------------
(* CancelOrderUseCase.execute() *)

CancelBegin(c, p, n) ==
    /\ Room
    /\ MoveTo(c, "idle", "find")
    /\ proc' = [proc EXCEPT ![c] = p]
    /\ oid' = [oid EXCEPT ![c] = n]
    /\ UNCHANGED <<stock, rows, mine, seen, allowance>>

\* find_by_id() builds a fresh aggregate from the row and, read in an await of
\* their own, its lines.
FindOrder(c) ==
    /\ MoveTo(c, "find", IF rows[oid[c]] = NoRow THEN "found" ELSE "lines")
    /\ mine' = [mine EXCEPT ![c] = rows[oid[c]]]
    /\ UNCHANGED <<stock, rows, proc, oid, seen, allowance>>

FindLines(c) ==
    /\ MoveTo(c, "lines", "found")
    /\ mine' = [mine EXCEPT ![c].lines = rows[oid[c]].lines]
    /\ UNCHANGED <<stock, rows, proc, oid, seen, allowance>>

FindFails(c) ==
    /\ \E from \in {"find", "lines"} : MoveTo(c, from, "refused")
    /\ DbFault
    /\ UNCHANGED <<stock, rows, proc, oid, mine, seen, timeouts, restarts>>

\* Mutant: Order.cancel() does not look at the status.
MayCancelAgain(c) ==
    /\ mine[c] # NoRow
    /\ mine[c].buyer = BuyerOf[c]

MayCancel(c) ==
    /\ mine[c] # NoRow
    /\ mine[c].buyer = BuyerOf[c]
    /\ mine[c].status = "CONFIRMED"

CancelRefused(c) ==
    /\ ~MayCancel(c)
    /\ MoveTo(c, "found", "refused")
    /\ UNCHANGED <<stock, rows, proc, oid, mine, seen, allowance>>

\* Order.cancel(), then the stock is put back before the order is saved.
CancelRestores(c) ==
    /\ MayCancel(c)
    /\ MoveTo(c, "found", "look")
    /\ mine' = [mine EXCEPT ![c].status = "CANCELLED"]
    /\ stock' = [stock EXCEPT ![proc[c]] = Plus(@, mine[c].lines)]
    /\ UNCHANGED <<rows, proc, oid, seen, allowance>>

----------------------------------------------------------------------------
(* The tool timeout and the end of a process. *)

\* wait_for() cancels the call at an await.  CancelledError is no Exception:
\* no except clause runs.  A COMMIT under way may go through all the same.
Cancelled(c) ==
    /\ place[c] \in Underway
    /\ ~oneByOne /\ timeouts < MaxTimeouts
    /\ timeouts' = timeouts + 1
    /\ place' = [place EXCEPT ![c] = "timedout"]
    /\ UNCHANGED rows \/ (place[c] = "commit" /\ Write(c))
    /\ UNCHANGED <<stock, proc, oid, mine, seen, dbFaults, restarts>>

\* A restarted process reads the catalogue files again.
Respawn(p) ==
    /\ ~oneByOne /\ restarts < MaxRestarts
    /\ restarts' = restarts + 1
    /\ stock' = [stock EXCEPT ![p] = Initial]
    /\ place' = [c \in ShopCalls |->
                   IF place[c] \in Underway /\ proc[c] = p THEN "lost" ELSE place[c]]
    /\ UNCHANGED <<rows, proc, oid, mine, seen, dbFaults, timeouts>>

----------------------------------------------------------------------------
PlaceStep(c) ==
    \/ \E p \in Procs, cart \in Carts : PlaceBegin(c, p, cart) \/ PlaceRefused(c, p, cart)
    \/ DrawNumber(c) \/ PlaceInvalid(c)

CancelStep(c) ==
    \/ \E p \in Procs, n \in Numbers : CancelBegin(c, p, n)
    \/ FindOrder(c) \/ FindLines(c) \/ FindFails(c) \/ CancelRefused(c) \/ CancelRestores(c)

SaveStep(c) == LookUp(c) \/ Commit(c) \/ InsertFails(c) \/ DatabaseFails(c)

OrdersNext ==
    /\ \/ \E c \in Placing : PlaceStep(c)
       \/ \E c \in Cancelling : CancelStep(c)
       \/ \E c \in ShopCalls : SaveStep(c) \/ Cancelled(c)
       \/ \E p \in Procs : Respawn(p)
    /\ UNCHANGED oneByOne

OrdersSpec == OrdersInit /\ [][OrdersNext]_vars

----------------------------------------------------------------------------
(* Properties. *)

Sold(s) ==
    MapThenSumSet(LAMBDA n : Need(rows[n].lines, s),
                  {n \in Stored : rows[n].status = "CONFIRMED"})

\* Pieces a placement has taken off the stock and not yet sold or put back;
\* pieces a cancellation has put back and not yet saved count against it.
Held(s) ==
    LET moving == {c \in ShopCalls : place[c] \in {"draw", "look", "commit"}} IN
    MapThenSumSet(LAMBDA c : Need(mine[c].lines, s), moving \cap Placing)
    - MapThenSumSet(LAMBDA c : Need(mine[c].lines, s), moving \cap Cancelling)

\* The cancellations that put pieces back, or found the order cancelled.
Undoing == {c \in Cancelling : mine[c] # NoRow /\ mine[c].status = "CANCELLED"}

\* A cancellation is whole if nothing stopped it after it had put pieces back
\* and no other one put back the same pieces.
CancelsWhole ==
    /\ \A c \in Undoing : place[c] \notin {"refused", "timedout", "lost"}
    /\ \A c, d \in Undoing : oid[c] = oid[d] => c = d

\* What is confirmed, under way and left never exceeds what there was, however
\* placements interleave, fail, time out and draw the same number, and
\* cancellations join in, as long as those are whole.
NoOversell ==
    restarts = 0 /\ CancelsWhole =>
        \A p \in Procs, s \in Skus : stock[p][s] + Sold(s) + Held(s) <= Initial[s]

\* One call after the other, with any failures of the database, loses and
\* doubles no piece: what is left, sold and under way is what there was.
StockAccounted ==
    oneByOne =>
        \A p \in Procs, s \in Skus : stock[p][s] + Sold(s) + Held(s) = Initial[s]

\* The stock covers what is confirmed: exactly while calls follow each other,
\* and without overselling while they overlap.
StockCovers == StockAccounted /\ NoOversell

\* Order numbers have no gap, so the number drawn is never one that was
\* stored before: only calls that overlap can draw the same one.
NumbersDense == Stored = 1..Cardinality(Stored)

\* The inductive strengthening of NumbersDense: no more orders than placements
\* that ended, a number drawn is at most the next one, and what a call saves
\* over is stored.
Finished == {c \in Placing : place[c] \in Ended}

NumbersInv ==
    /\ NumbersDense
    /\ Cardinality(Stored) <= Cardinality(Finished)
    /\ \A c \in Placing : place[c] \in {"look", "commit"} =>
         oid[c] \in Numbers /\ oid[c] <= Cardinality(Stored) + 1
    /\ \A c \in Cancelling : place[c] \in {"find", "lines", "found"} => oid[c] \in Numbers
    /\ \A c \in Cancelling :
         \/ place[c] \in {"look", "commit"}
         \/ place[c] \in {"lines", "found"} /\ mine[c] # NoRow
         => oid[c] \in Stored
    /\ \A c \in ShopCalls : place[c] = "commit" /\ seen[c] # NoRow => oid[c] \in Stored
    /\ \A c \in ShopCalls : place[c] \in {"draw", "lines", "look", "commit"} => mine[c] # NoRow

\* One call after the other, the use cases over SQL do what the in-memory
\* repository does: every placement and cancellation happens at once, and a
\* failed one leaves nothing behind.  Overlapping calls are mapped to a book
\* that stays as it was.
Free  == [s \in Skus |-> stock[CHOOSE p \in Procs : TRUE][s] + Held(s)]

Atomic == INSTANCE OrderBook
    WITH Articles <- Skus, Supply <- Initial, Buyers <- {BuyerOf[c] : c \in ShopCalls},
         Baskets <- Carts, NoOrder <- NoRow,
         free <- IF oneByOne THEN Free ELSE Initial,
         book <- IF oneByOne THEN rows ELSE [n \in Numbers |-> NoRow]

BookPromise == Atomic!BookSpec

\* What "order numbers are unique" says: an order a buyer was told is
\* confirmed is stored under its number as it was placed.
PlacedIsStored ==
    \A c \in Placing : place[c] = "placed" =>
        /\ rows[oid[c]].buyer = mine[c].buyer
        /\ rows[oid[c]].lines = mine[c].lines
=============================================================================
