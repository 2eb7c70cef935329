---------------------------- MODULE DeveloperAgent ----------------------------
(***************************************************************************)
(* One Developer run: preflight, the tool calls of its AgentRuntime as far *)
(* as they leave evidence, and the report derived from how the runtime     *)
(* ended and from the latest result of every required check.               *)
(* core/developer; the loop itself is module AgentRuntime.                 *)
(***************************************************************************)
EXTENDS EngineeringStage, SequencesExt

CONSTANT MaxRecords     \* _MAX_EVIDENCE_RECORDS, scaled down

ASSUME DeveloperAssumption == MaxRecords \in Nat

VARIABLE development    \* Nil, or what is required, the checks so far, how many
                        \* calls left a record, and the report

\* Required checks are distinct, and the workflow's handoff context wants one
RequiredChecks ==
    {s \in UNION {[1..n -> Profiles] : n \in 1..Cardinality(Profiles)} : IsInjective(s)}

\* The skills the registry offers, by size, and the size of the role's prompt
MaxSkillContext == 2
MaxSystemPrompt == 3
Skills == UNION {[1..n -> 1..2] : n \in 0..2}

DeveloperRequests ==
    [required : RequiredChecks, authorized : BOOLEAN, skills : Skills,
     prompt : 1..MaxSystemPrompt]

\* Role, status, scope, permissions, tools and check profiles
ValidDeveloper(q) == q.authorized

\* build_skill_context leaves out a skill that no longer fits, and goes on with
\* the next; what it took may still be too much for the prompt
SkillContext(skills) ==
    FoldLeft(LAMBDA used, size : IF used + size > MaxSkillContext THEN used ELSE used + size,
             0, skills)

PromptFits(q) == q.prompt + SkillContext(q.skills) <= MaxSystemPrompt

\* How a command profile that ran to its end is recorded
Checks == [profile : Profiles, result : {"passed", "failed", "truncated"}]

\* The checks of one profile, by their place in the order
Of(checks, p) == {i \in DOMAIN checks : checks[i].profile = p}

\* Terminal reasons of the runtime: the task is completed; a human is asked, or
\* has to approve; stagnation, a limit or the deadline; failures and audit
RuntimeEnds == {"completed", "human", "limit", "failed"}

Missing(d) == {p \in ToSet(d.required) : Of(d.checks, p) = {}}

\* A required check counts by its latest result, one that was cut by its exit
FailedLast(d) ==
    {p \in ToSet(d.required) \ Missing(d) : d.checks[Max(Of(d.checks, p))].result = "failed"}

DeveloperReport(end, d) ==
    CASE end = "human"       -> "NEEDS_HUMAN"
      [] end = "limit"       -> "BLOCKED"
      [] end = "failed"      -> "FAILED"
      [] Missing(d) # {}     -> "BLOCKED"
      [] FailedLast(d) # {}  -> "FAILED"
      [] OTHER               -> "SUCCEEDED"

DeveloperResult(end, d) == [d EXCEPT !.report = DeveloperReport(end, d)]

Developing == development # Nil /\ development.report = "none"
Developed == development # Nil /\ development.report # "none"

-----------------------------------------------------------------------------
StartDeveloper ==
    /\ development = Nil
    /\ \E q \in DeveloperRequests :
          IF ValidDeveloper(q) /\ PromptFits(q)
          THEN /\ development' = [required |-> q.required, checks |-> <<>>, records |-> 0,
                                  report |-> "none"]
               /\ UNCHANGED returned
          ELSE Raise /\ UNCHANGED development

\* A call leaves a check, or another record: a path it wrote, or the failure of
\* one that was refused or timed out.  With enough records no call leaves one.
CallTool ==
    /\ Developing /\ development.records < MaxRecords
    /\ \E left \in {<<>>} \union {<<c>> : c \in Checks} :
          development' = [development EXCEPT !.checks = @ \o left, !.records = @ + 1]
    /\ UNCHANGED returned

\* The run ends with its report, or with an error that escapes the runtime
DeveloperEnds ==
    /\ Developing
    /\ \/ /\ \E end \in RuntimeEnds :
                development' = DeveloperResult(end, development)
          /\ UNCHANGED returned
       \/ Raise /\ UNCHANGED development

Develop ==
    /\ StartDeveloper \/ CallTool \/ DeveloperEnds
    /\ UNCHANGED <<prs, work, events, lapses>>
=============================================================================
