----------------------------- MODULE PriceList -----------------------------
(***************************************************************************)
(* What the price list promises to whoever prices a request by it: the     *)
(* table is always the catalog's prices under the administrator's          *)
(* overrides, it changes in one step when one of the two lists does, and   *)
(* no catalog ever leaves it without a price above zero.                   *)
(***************************************************************************)
EXTENDS Integers

CONSTANTS
    Keys,       \* (provider, model)
    Rates,      \* what a token costs
    NoPrice,
    NoTable     \* before the first list is loaded

VARIABLES manual, catalog, table

priceVars == <<manual, catalog, table>>

Lists == [Keys -> Rates \cup {NoPrice}]
Empty == [k \in Keys |-> NoPrice]

\* Each manual price replaces the catalog's.
Overlay(m, c) == [k \in Keys |-> IF m[k] # NoPrice THEN m[k] ELSE c[k]]

\* Some price, and not all of them zero.
Acceptable(c) == \E k \in Keys : c[k] # NoPrice /\ c[k] > 0

PriceInit == manual = Empty /\ catalog = Empty /\ table = NoTable

SetManual ==
    /\ table # NoTable
    /\ \E m \in Lists : manual' = m
    /\ UNCHANGED catalog
    /\ table' = Overlay(manual', catalog)

SetCatalog ==
    /\ table # NoTable
    /\ \E c \in Lists : Acceptable(c) /\ catalog' = c
    /\ UNCHANGED manual
    /\ table' = Overlay(manual, catalog')

\* A start: whatever was stored, a stored catalog having been accepted once.
Restart ==
    /\ \E m \in Lists : manual' = m
    /\ \E c \in Lists : (c = Empty \/ Acceptable(c)) /\ catalog' = c
    /\ table' = Overlay(manual', catalog')

Stop == table' = NoTable /\ manual' = Empty /\ catalog' = Empty

PriceNext ==
    IF table = NoTable THEN Restart ELSE SetManual \/ SetCatalog \/ Stop

PriceListSpec == PriceInit /\ [][PriceNext]_priceVars

=============================================================================
