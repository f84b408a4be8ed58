SPECIFICATION Spec
CONSTANTS
    Clients = {c1}
    Cnt = 2
    MaxQueued = 2
INVARIANTS SubmissionsAnnounced CommandsWakeHandler
PROPERTIES CommandsHandled NextCommandRepairs
