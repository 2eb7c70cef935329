\* Two sessions that re-read the row FOR UPDATE before each transition.
SPECIFICATION Spec
CONSTANTS
    Tasks = {t1}
    Sessions = {s1, s2}
    NoSession = NoSession
    LockFirst = TRUE
    MaxEvents = 3
INVARIANTS
    TypeOK
    AuditTrailExplainsStatus
PROPERTIES
    TerminalIsFinal
