CONSTANTS
  Delivered = {t1, t2}
  Experts = {e1}
  Tiers = {"junior", "senior"}
  MaxDeliveries = 2
  MaxExports = 2
SPECIFICATION DeliverySpec
INVARIANT LacksOnlyOverlapping
PROPERTY ArchiveSpec
