-------------------------- MODULE TradingPartners ---------------------------
(***************************************************************************)
(* The supplier master and the deals made with suppliers: what several of    *)
(* their components promise together.  They share no state.                 *)
(***************************************************************************)
EXTENDS SupplierHierarchy, PreferredFlag, SourcingEvents, ContractLifecycle

\* The supplier master: a corporate tree, and one preferred address or account.
SuppliersAreSound == HierarchyIsSound /\ AtMostOnePreferred

\* What was awarded and what was contracted is recorded as it was decided.
DealsAreSound == AwardAgrees /\ RowsTellWhatHappened
=============================================================================
