\* Two sessions that transition what session.get gave them.
SPECIFICATION Spec
CONSTANTS
    Tasks = {t1}
    Sessions = {s1, s2}
    NoSession = NoSession
    LockFirst = FALSE
    MaxEvents = 3
PROPERTIES
    TerminalIsFinal
