----------------------------- MODULE MCCheckout -----------------------------
(***************************************************************************)
(* Two requests on a cart of at most two items: "tee" may be sent by COD,  *)
(* "bat" may not, both together carry an automatic promotion.  The second  *)
(* coupon is worth more than one item.  "cod" is COD by its name,          *)
(* "courier" by its type alone.                                            *)
(***************************************************************************)
EXTENDS Checkout, TLC

MCItems == {"tee", "bat"}
MCPrice == [i \in MCItems |-> 2]
MCDiscount == [c \in Coupons |-> IF c = "small" THEN 1 ELSE 3]
MCFee == [o \in Options |-> IF o = "prepaid" THEN 0 ELSE 1]
MCSymmetry == Permutations(Requests)
=============================================================================
