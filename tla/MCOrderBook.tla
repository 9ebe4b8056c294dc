---------------------------- MODULE MCOrderBook ----------------------------
(***************************************************************************)
(* A small instance of OrderBook: the orders the clients may submit.       *)
(***************************************************************************)
EXTENDS OrderBook

CONSTANTS o1, o2, o3, o4, u1, u2

Order1(id, user, side, price, qty) ==
  [id |-> id, user |-> user, side |-> side, price |-> price, qty |-> qty]

\* Both prices, both users, the four sides, partial and full fills, an order of
\* no quantity, and ids that are used again.
MCOrders ==
  { Order1(o1, u1, "Buy", 1, 1),  Order1(o1, u1, "Buy", 2, 2), Order1(o1, u2, "Sell", 2, 2),
    Order1(o2, u2, "Sell", 1, 2), Order1(o2, u1, "Buy", 2, 1), Order1(o2, u2, "Buy", 1, 2),
    Order1(o3, u1, "Sell", 1, 3), Order1(o3, u2, "SellPlus", 1, 2), Order1(o3, u1, "Sell", 2, 0),
    Order1(o4, u2, "Sell", 2, 1), Order1(o4, u1, "BuyMinus", 2, 3), Order1(o4, u2, "BuyMinus", 2, 1) }
=============================================================================
