------------------------------ MODULE MCOrders ------------------------------
(* Model-checking instances of Orders. *)
EXTENDS Orders

CONSTANTS q1, q2, x1, x2, lamp, rug, Unlisted

NoCall    == {}
TwoPlace  == {q1, q2}
TwoCancel == {x1, x2}
OneProc   == {"worker"}

\* q2 belongs to another buyer than q1 and the cancellations.
TwoBuyers == [c \in {q1, q2, x1, x2} |-> IF c = q2 THEN "ben" ELSE "ann"]

MCSkus        == {lamp, rug}
MCInitial     == [s \in MCSkus |-> IF s = lamp THEN 2 ELSE 1]
OneCurrency   == [s \in MCSkus |-> "CNY"]
TwoCurrencies == [s \in MCSkus |-> IF s = lamp THEN "CNY" ELSE "USD"]

Item(s, n) == [sku |-> s, qty |-> n]
LampCart   == <<Item(lamp, 1)>>
BothCart   == <<Item(lamp, 1), Item(rug, 1)>>
TwoLamps   == <<Item(lamp, 1), Item(lamp, 1)>>
BadCart    == <<Item(lamp, 1), Item(Unlisted, 1)>>
ZeroCart   == <<Item(lamp, 1), Item(rug, 0)>>

SoundCarts == {LampCart, BothCart, TwoLamps, BadCart, ZeroCart}
LampCarts  == {LampCart}
=============================================================================
