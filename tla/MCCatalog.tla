----------------------------- MODULE MCCatalog -----------------------------
(* Model checking of module Catalog: two clients, one name of a table of   *)
(* the catalog among the names, and pages that fill up one after another.  *)
EXTENDS Catalog, TLC

CONSTANTS a, b, ObjectRows, TableRows, ColumnRows

MCSysNames == <<"tables">>

MCNames == {"tables", "x"}

MCPageRows == [p \in Pages |-> CASE p = "objects" -> ObjectRows
                                 [] p = "tables" -> TableRows
                                 [] p = "columns" -> ColumnRows]

Symmetry == Permutations({a, b})
=============================================================================
