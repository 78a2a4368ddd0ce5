CONSTANT NONE = NONE
SPECIFICATION FairSpec
INVARIANTS WebTypeOK ListsTrue AnswersFit FilesArrive  PreparedAsShown SignedAsShown AccessHeld AccountHeld
PROPERTIES   WaitsEnd
CHECK_DEADLOCK FALSE
