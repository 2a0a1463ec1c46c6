--------------------------- MODULE MCProductPage ---------------------------
(* The shop of two products, one per page, in one category, one word that     *)
(* finds the first; the first product in three variants, the second in one    *)
(* without colour or size. The customer does two things in the shop.          *)
EXTENDS ProductPage

CONSTANTS red, blue, small, medium

MCCategoryOf == [p \in Products |-> CHOOSE c \in Categories : TRUE]
MCFound == [w \in Words |-> {1}]
MCVariantsOf == <<{[color |-> red, size |-> small], [color |-> red, size |-> medium],
                   [color |-> blue, size |-> medium]},
                  {[color |-> None, size |-> None]}>>

=============================================================================
