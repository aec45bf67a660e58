SPECIFICATION FairSpec
CONSTANTS
  Handler = {r1, r2, r3}
  Limits = {1, 2}
  DefaultLimit = 2
  SlotTTL = 2
  HoldBounds = {1, 3}
  MaxFaults = 1
INVARIANTS CountCoversHandlers
PROPERTIES AdmissionRespectsLimit LeaksHealWhenQuiet
