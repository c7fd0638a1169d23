CONSTANTS
  Assets = {"app", "wad"}
  Versions = {"1", "2"}
  Catalogues <- MCCatalogues
  Count <- MCCount
  Sized <- OneSized
  Given = {"wad"}
  None = None
  MaxKicks = 1
  MaxEvents = 1
SPECIFICATION FairSpec
INVARIANT NeverBoth
PROPERTIES ReadsStandStill OldOnlyBySize SettlesAfterConnect LoopComesBack
