SPECIFICATION FairSpec
CONSTANTS
    Watchers = {w1, w2}
    Loaders = {l1}
    Callbacks = {f}
    MaxIndex = 3
CHECK_DEADLOCK FALSE
INVARIANTS TypeOK CopiesAgree OneLateNotification
PROPERTIES NoStepBack CallbacksInOrder CatchesUp
