--------------------------- MODULE ProjectClosure ---------------------------
(***************************************************************************)
(* Closing one project while another closes it too and its agents move to  *)
(* other projects.  core/closure, infrastructure/closure.                  *)
(***************************************************************************)
EXTENDS EngineeringStage

CONSTANTS
    Team,       \* agents with tasks of the project
    Closers,    \* closures of the project, each with a session of its own
    Own         \* the one of the Engineering V1 run

ASSUME ClosureAssumption == Own \in Closers /\ Nil \notin Closers

VARIABLES
    project,    \* committed status of the project
    staff,      \* committed status of the agents
    busy,       \* agents with an active task in another project
    lock,       \* who has the project's row FOR UPDATE
    closer,     \* per closure: its step, and the agents it found busy
    held        \* closures whose session still holds the Project object

closureVars == <<project, staff, busy, lock, closer, held>>

Idle == [step |-> "idle", busy |-> {}]

InitClosure ==
    /\ project = "CLIENT_REVIEW"
    /\ staff = [a \in Team |-> "WORKING"]
    /\ busy = {} /\ lock = Nil /\ held = {}
    /\ closer = [c \in Closers |-> Idle]

\* What the closure comes back with matters to its own run only
Gives(c, outcome) == IF c = Own THEN outcome ELSE UNCHANGED returned

Leaves(c, step) == closer' = [closer EXCEPT ![c].step = step]

\* Client, QA and security approval and the delivery, as the caller vouches
Preconditions == BOOLEAN

\* Preconditions the caller vouches for, then the evidence, before any lock
Collect(c) ==
    /\ closer[c].step = "idle"
    /\ \E met \in Preconditions :
          IF met /\ project = "CLIENT_REVIEW"
          THEN /\ Leaves(c, "collected")
               /\ held' \in {held, held \union {c}}
               /\ UNCHANGED returned
          ELSE /\ Leaves(c, "ended")
               /\ Gives(c, Raise)
               /\ UNCHANGED held
    /\ UNCHANGED <<project, staff, busy, lock>>

\* Mutant: the status is not read again under the lock.
StatusBeforeLock(c) == "CLIENT_REVIEW"

\* SELECT ... FOR UPDATE waits for the lock, but fills no object the session
\* already has; then the agents that are active elsewhere are read
StatusSeen(c) == IF c \in held THEN "CLIENT_REVIEW" ELSE project

\* _active_agent_ids: agents with an active task of another project
ActiveElsewhere == busy

LockProject(c) ==
    /\ closer[c].step = "collected" /\ lock = Nil
    /\ IF StatusSeen(c) = "CLIENT_REVIEW"
       THEN /\ lock' = c
            /\ closer' = [closer EXCEPT ![c] = [step |-> "locked", busy |-> ActiveElsewhere]]
            /\ UNCHANGED returned
       ELSE /\ UNCHANGED lock            \* "project changed before closure"
            /\ Leaves(c, "ended")
            /\ Gives(c, Raise)
    /\ UNCHANGED <<project, staff, busy, held>>

\* The session commits the archived project and the released agents, or
\* rolls them back
Archive(c) ==
    /\ closer[c].step = "locked"
    /\ project' = "ARCHIVED"
    /\ staff' = [a \in Team |-> IF a \in closer[c].busy THEN staff[a] ELSE "AVAILABLE"]
    /\ Leaves(c, "closed")
    /\ lock' = Nil
    /\ Gives(c, Answer)
    /\ UNCHANGED <<busy, held>>

RollBack(c) ==
    /\ closer[c].step = "locked"
    /\ Leaves(c, "ended")
    /\ lock' = Nil
    /\ Gives(c, Raise)
    /\ UNCHANGED <<project, staff, busy, held>>

\* Another project gives an agent a task, or has its task ended
AgentMoves(a) ==
    /\ busy' = IF a \in busy THEN busy \ {a} ELSE busy \union {a}
    /\ staff' = IF a \in busy THEN staff ELSE [staff EXCEPT ![a] = "WORKING"]
    /\ UNCHANGED <<project, lock, closer, held, returned>>

CloserStep(c) == Collect(c) \/ LockProject(c) \/ Archive(c) \/ RollBack(c)

\* run is synchronous: its caller is interrupted before it or after
ClosureInterrupted ==
    /\ closer[Own].step = "idle"
    /\ Leaves(Own, "ended")
    /\ UNCHANGED <<project, staff, busy, lock, held>>

\* A closure ends the project's review once, and makes nobody available who
\* worked for another project when it looked, under its lock, and does still.
\* (A session that holds the Project object sees the status of its first read.)
ClosesOnce ==
    [][\A c \in Closers :
          closer[c].step = "locked" /\ closer'[c].step = "closed" =>
             /\ project = "CLIENT_REVIEW" \/ c \in held
             /\ \A a \in Team : staff[a] = "WORKING" /\ staff'[a] = "AVAILABLE"
                                => a \notin busy \/ a \notin closer[c].busy]_closureVars
=============================================================================
