-------------------------- MODULE MetadataService ---------------------------
(***************************************************************************)
(* The metadata engine: layouts are read through a cache, the rest by the    *)
(* pages that edit it, dependencies by a search.  They share no state.       *)
(***************************************************************************)
EXTENDS MetadataLayouts, MetadataRecords, DependencyScan

\* Layouts are served as published, the audit trail tells what there is, and circular
\* dependencies are reported.
MetadataIsKept == LayoutsAreServed /\ TrailTellsWhatThereIs /\ CyclesAreFound
=============================================================================
