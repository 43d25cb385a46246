SPECIFICATION FairSpec
CONSTANTS
  j1 = j1
  j2 = j2
  j3 = j3
  msi = msi
  pe = pe
  Vendor = Vendor
  Jobs = {j1, j2, j3}
  Batches <- PairOrSingle
  Paths = {msi, pe}
  Target <- TwoOfThem
  Kind <- KindOf
  UnsignedPayload = {msi}
INVARIANTS PipelineInv DestinationWhole DumpIsFinalCms
PROPERTIES SignsAtomically JobsSettle
