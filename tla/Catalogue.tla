----------------------------- MODULE Catalogue -----------------------------
(* The public catalogue: what a list request returns (products/querysets.py, *)
(* products/filters.py, lobel_store/pagination.py) while the staff archives  *)
(* and reactivates products and categories (products/services.py).           *)
EXTENDS Naturals, FiniteSets

CONSTANTS Products,    \* numbers, larger for newer: the list shows the newest first
          Categories,
          Words,       \* words a customer may search
          CategoryOf,  \* category of each product
          Found,       \* products whose name, category, collection or SKU has the word
          PAGE,        \* CATALOG_PAGE_SIZE, sent as page_size
          MAX_PAGE,    \* bound: highest page number in a URL
          None         \* no word, no filter, no reply

ASSUME CatalogueAssumption ==
  /\ Products \subseteq Nat /\ IsFiniteSet(Products)
  /\ CategoryOf \in [Products -> Categories]
  /\ Found \in [Words -> SUBSET Products]
  /\ PAGE \in Nat \ {0} /\ MAX_PAGE \in Nat \ {0}

VARIABLES active,   \* Product.is_active
          open      \* Category.is_active

catalogue == <<active, open>>

\* A price interval the wrong way round, which the shop refuses before it asks.
Inverted == "inverted"

\* The URL's parameters, once parsed: a filter is a category, or prices.
Query == [search : Words \cup {None}, filter : Categories \cup {None, Inverted}, page : 1..MAX_PAGE]

CatalogueInit == active = Products /\ open = Categories

(***************************************************************************)
(* The list request                                                        *)
(***************************************************************************)
\* product_queryset(public=True): neither variants nor stock count.
Visible == {p \in active : CategoryOf[p] \in open}

Matches(p, q) == /\ q.search = None \/ p \in Found[q.search]
                 /\ q.filter \in {None, Inverted} \/ CategoryOf[p] = q.filter

\* ceil(n / PAGE), and one page at least.
Pages(n) == IF n = 0 THEN 1 ELSE (n + PAGE - 1) \div PAGE

\* Newest first: a product's page is told by how many newer ones there are.
OnPage(found, k) == {p \in found : Cardinality({r \in found : r > p}) \div PAGE = k - 1}

\* A page beyond the last one is NotFound, as is every error of the network for the shop.
Refused == [products |-> {}, count |-> 0, error |-> TRUE]

Listed(q) ==
  LET found == {p \in Visible : Matches(p, q)} IN
  IF q.page > Pages(Cardinality(found)) THEN Refused
  ELSE [products |-> OnPage(found, q.page), count |-> Cardinality(found), error |-> FALSE]

(***************************************************************************)
(* CatalogueArchiveService. Archiving a product archives its variants too, *)
(* and reactivating it leaves them archived: left out with the variants,   *)
(* which a list without the filter of availability does not read.          *)
(***************************************************************************)
archive_product(p) == active' = active \ {p} /\ UNCHANGED open

reactivate_product(p) ==
  CategoryOf[p] \in open /\ active' = active \cup {p} /\ UNCHANGED open

archive_category(c) == open' = open \ {c} /\ UNCHANGED active

reactivate_category(c) == open' = open \cup {c} /\ UNCHANGED active

EditProducts == \E p \in Products : archive_product(p) \/ reactivate_product(p)
EditCategories == \E c \in Categories : archive_category(c) \/ reactivate_category(c)
Staff == EditProducts \/ EditCategories

=============================================================================
