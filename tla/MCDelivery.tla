----------------------------- MODULE MCDelivery -----------------------------
(***************************************************************************)
(* An instance of Delivery for TLC, under names of its own: the proofs     *)
(* about exports stand beside those about the versions of a rubric, whose  *)
(* tasks and bounds are others.                                            *)
(***************************************************************************)
CONSTANTS
  Delivered,      \* the tasks whose grades are delivered
  Experts,
  Tiers,
  MaxDeliveries,  \* bound: the version after which no export begins
  MaxExports      \* bound: exports in flight at the same time

VARIABLES rows, tier, exports, objects, deliveries

E == INSTANCE Delivery WITH Tasks <- Delivered, MaxVersions <- MaxDeliveries

ASSUME E!DeliveryAssumption

DeliverySpec == E!Spec

\* The deliveries implement the archive: whatever overlaps or crashes, the versions are
\* numbered without gaps, and what is read under one never changes (export, verify).
ArchiveSpec == E!ArchiveSpec

\* A version lacks rows of an older one only when that was committed while its own export
\* was under way (export).
LacksOnlyOverlapping == E!LacksOnlyOverlapping
==============================================================================
