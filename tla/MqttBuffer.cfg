CONSTANTS
  Header = 3
  Alignment = 2
  MinExtent = 16
  Sizes = {1, 4, 15}
  MaxChunks = 4
  MaxExts = 4
SPECIFICATION Spec
INVARIANTS TypeOK SlotsSuffice ExtentsInside ExtentsDisjoint NoLeak BufferedIsTotal
