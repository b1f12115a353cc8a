------------------------------- MODULE Totals -------------------------------
(***************************************************************************)
(* The sum of a function of naturals with a finite domain, written as the   *)
(* number of units it holds: the unit <<k, i>> is the i-th unit of f[k].    *)
(* A sum written so is a cardinality, and the theorems about cardinalities  *)
(* prove in Ledger_proofs what an update of f does to it.                   *)
(***************************************************************************)
EXTENDS Integers, FiniteSets

Units(f) == UNION { {k} \X (1..f[k]) : k \in DOMAIN f }

Total(f) == Cardinality(Units(f))
=============================================================================
