---------------------------- MODULE MCCoffeeShop ----------------------------
(* Small instances of the coffee shop.                                     *)
EXTENDS CoffeeShop, TLC

\* Jobs and tool threads are interchangeable.
Symmetry == Permutations(Jobs) \cup Permutations(Slots)

\* Units ordered: one, none, and less than none.
MCQuantities == {-1, 0, 1}

\* Halves, too much, and less than nothing.
MCPercents == {-100, 50, 150}
=============================================================================
