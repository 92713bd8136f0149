------------------------------ MODULE MCStock ------------------------------
(* Small instances of Stock: two rows and one product without a row.        *)
EXTENDS Stock, TLC

CONSTANTS p1, p2, p3

MCProduct == {p1, p2, p3}
MCStocked == {p1, p2}
MCNum0 == p1 :> 2 @@ p2 :> 1

Line(p, n) == [p |-> p, num |-> n]
Basket(op, items) == [op |-> op, items |-> items]

\* Two baskets that lock both rows in opposite orders, one that names a
\* product twice, one larger than the stock, one with a missing product.
Sells ==
    { Basket("Sell", <<Line(p1, 1), Line(p2, 1)>>),
      Basket("Sell", <<Line(p2, 1), Line(p1, 1)>>),
      Basket("Sell", <<Line(p1, 1), Line(p1, 1)>>),
      Basket("Sell", <<Line(p1, 3)>>),
      Basket("Sell", <<Line(p2, 1), Line(p3, 1)>>) }

\* Every operation; the SetStock of 6 overflows the int32 bound of 7.
Mixed ==
    { Basket("Sell", <<Line(p1, 1), Line(p2, 1)>>),
      Basket("Sell", <<Line(p2, 1), Line(p1, 1)>>),
      Basket("Sell", <<Line(p2, 1), Line(p3, 1)>>),
      Basket("SetStock", <<Line(p1, 6)>>),
      Basket("SetStock", <<Line(p3, 1)>>),
      Basket("StockDetail", <<Line(p1, 0)>>),
      Basket("StockDetail", <<Line(p3, 0)>>),
      Basket("BackStock", <<Line(p1, 1)>>),
      Basket("BackStock", << >>) }

Symmetry == Permutations(Handler) \cup Permutations(Instance)
=============================================================================
