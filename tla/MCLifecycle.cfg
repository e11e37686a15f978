CONSTANT N = 2
SPECIFICATION LiveSpec
INVARIANTS TradersCovered HandlesUnshared
PROPERTY Exits
CHECK_DEADLOCK FALSE
