CONSTANTS
    Clients = {c1}
    BigCores = 0
SPECIFICATION Spec
INVARIANTS FilesHaveATee ProbeIsUndone OpenHasATee
CHECK_DEADLOCK FALSE
