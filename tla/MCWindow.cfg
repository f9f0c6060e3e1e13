\* One window in one browser, or in two; a terminal's surface and
\* its picture; a terminal's panel.
SPECIFICATION Spec
CONSTANTS
  Crowds = {{"a"}, {"a", "b"}}
  Edges = {"left", "bottom"}
  MaxTiles = 3
  MaxTerm = 2
  MaxEdits = 2
  MaxReloads = 1
  MaxProcs = 2
  MaxSize = 2
  MaxActs = 2
  MaxBreaks = 1
  PanelRaces = {}
  Slots = 2
  AtlasMax = 2
  MaxRows = 2
  MaxEvents = 3
INVARIANTS TilesSound TilesAgree Placed InputInOrder PanelAgrees PictureTrue
PROPERTIES TilesKeep
CHECK_DEADLOCK FALSE
