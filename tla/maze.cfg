CONSTANTS
    Width = 5
    Height = 7
    Objects = 2
SPECIFICATION FairSpec
INVARIANTS Connected AllRoomsOpen WellFormed
PROPERTIES Generated Implements
