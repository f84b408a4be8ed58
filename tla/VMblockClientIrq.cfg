SPECIFICATION Spec
CONSTANT Cnt = 4
INVARIANT CompletionsAnnounced
PROPERTY NotificationHeard
CHECK_DEADLOCK FALSE
