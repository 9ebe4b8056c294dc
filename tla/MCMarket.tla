------------------------------ MODULE MCMarket ------------------------------
(***************************************************************************)
(* Small instances of Market: which requests the clients send.             *)
(***************************************************************************)
EXTENDS Market

CONSTANTS o1, o2

Order1(id, side, qty) ==
  [unit |-> "New", fault |-> "none", id |-> id, side |-> side, qty |-> qty]
Cancel1(id, side, qty) == [Order1(id, side, qty) EXCEPT !.unit = "Cancel"]
Faulty(unit, fault) == [Order1(o1, "Buy", 1) EXCEPT !.unit = unit, !.fault = fault]

\* Orders and cancels of two ids, on both sides, and every refusal.
MCRequests ==
  { Order1(o1, "Buy", 2), Order1(o1, "SellPlus", 1), Order1(o2, "Sell", 1), 
    Cancel1(o1, "Buy", 2), Cancel1(o1, "Buy", 1), Cancel1(o2, "Sell", 1),
    Cancel1(o1, "BuyMinus", 2), Cancel1(o1, "Unsupported", 1), 
    Faulty("New", "missing"), Faulty("New", "ordtype"), Faulty("New", "unroutable"),
    Faulty("Cancel", "missing"), Order1(o1, "Unsupported", 1),
    [Faulty("New", "ordtype") EXCEPT !.side = "Unsupported"] }

\* An order of an unsupported type among limit orders that rest in the book.
StallRequests == { Order1(o1, "Buy", 1), Order1(o2, "Buy", 2), Faulty("New", "ordtype") }
=============================================================================
