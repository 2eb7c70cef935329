------------------------------ MODULE Planning ------------------------------
(***************************************************************************)
(* From a client specification to workstreams: document intake, the intake *)
(* analysis with its blocking-question gate, the architecture proposal and *)
(* the domain decomposition.  core/intake, core/architecture,              *)
(* core/domain_decomposition.  Each analysis is one provider call.         *)
(***************************************************************************)
EXTENDS EngineeringStage

CONSTANTS
    Domains,        \* architecture domains, lower-cased
    Workstreams,    \* workstream identifiers
    Unknown,        \* an identifier of no workstream
    MaxPerDomain    \* _MAX_WORKSTREAMS_PER_DOMAIN, scaled down

ASSUME PlanningAssumption ==
    /\ IsFiniteSet(Domains) /\ IsFiniteSet(Workstreams)
    /\ Unknown \notin Workstreams
    /\ MaxPerDomain \in Nat

VARIABLES
    specification,  \* "none", or "text" once a specification is submitted
    intake,         \* the IntakeResult, or Nil
    architecture,   \* the ArchitectureResult, or Nil
    plan            \* the DomainDecomposition, or Nil

planningVars == <<specification, intake, architecture, plan>>

InitPlanning ==
    /\ specification = "none"
    /\ intake = Nil /\ architecture = Nil /\ plan = Nil

-----------------------------------------------------------------------------
Documents == [typed : BOOLEAN, restricted : BOOLEAN, consented : BOOLEAN]

\* The contract of ClientDocument: a supported type that matches the file
\* name, not restricted, and processing explicitly approved.
Acceptable(d) == d.typed /\ ~d.restricted /\ d.consented

\* How the isolated converter ends: the child's exit code, its bounded output
\* and the deadline after which its process group is killed.
Conversions == {"markdown", "injection", "oversized", "failed", "timeout"}

SubmitText ==
    /\ specification = "none"
    /\ specification' = "text"
    /\ UNCHANGED <<intake, architecture, plan, returned, work, events, lapses>>

\* ingest_document: nothing but clean Markdown reaches the analyzer.
IngestDocument ==
    /\ specification = "none"
    /\ \E d \in Documents, c \in Conversions :
          IF Acceptable(d) /\ c = "markdown"
          THEN specification' = "text" /\ UNCHANGED returned
          ELSE Raise /\ UNCHANGED specification
    /\ UNCHANGED <<intake, architecture, plan, work, events, lapses>>

-----------------------------------------------------------------------------
\* One provider call: a proposal, or what became of it instead
Replies == {"proposal"} \union ProviderFailures

QuestionClasses == {"BLOCKING", "IMPORTANT", "OPTIONAL"}

Intakes == [questions : SUBSET QuestionClasses, canStart : BOOLEAN]

\* build_intake_result: readiness is derived, never taken from the provider.
IntakeResult(questions) ==
    [questions |-> questions, canStart |-> "BLOCKING" \notin questions]

AnalyzeSpecification ==
    /\ specification = "text" /\ intake = Nil
    /\ \E reply \in Replies, questions \in SUBSET QuestionClasses :
          IF reply = "proposal"
          THEN intake' = IntakeResult(questions) /\ Answer
          ELSE Raise /\ UNCHANGED intake
    /\ UNCHANGED <<specification, architecture, plan, work, events, lapses>>

\* What a request for a provider carries, as the scan of all its texts finds it
Evidence == {"clean", "secret", "oversized"}

\* Only evidence without an obvious secret leaves for the provider, and only
\* as much of it as a request may hold: nothing is cut.
Sendable(evidence) == evidence = "clean"

\* An architecture proposal: its domains, whether it admits missing
\* information, and whether options, selection, recommendation, stack and ADR
\* draft agree.
Proposals == [domains : (SUBSET Domains) \ {{}}, missing : BOOLEAN,
              consistent : BOOLEAN]

\* Mutant: what the client was asked is the intake's business only.
MissingInformationOfProvider(proposal) ==
    IF proposal.missing THEN {"PROVIDER"} ELSE {}

\* _merge_missing_information: the client's IMPORTANT questions are missing
\* information too, whatever the provider says.
MissingInformation(proposal) ==
    (intake.questions \intersect {"IMPORTANT"})
        \union (IF proposal.missing THEN {"PROVIDER"} ELSE {})

ArchitectureResult(proposal, missing) ==
    [domains |-> proposal.domains,
     status  |-> IF missing = {} THEN "PROPOSED" ELSE "NEEDS_HUMAN"]

AnalyzeArchitecture ==
    /\ intake # Nil /\ architecture = Nil
    /\ \E evidence \in Evidence, reply \in Replies, p \in Proposals :
          IF intake.canStart /\ Sendable(evidence) /\ reply = "proposal" /\ p.consistent
          THEN architecture' = ArchitectureResult(p, MissingInformation(p))
               /\ Answer
          ELSE Raise /\ UNCHANGED architecture
    /\ UNCHANGED <<specification, intake, plan, work, events, lapses>>

-----------------------------------------------------------------------------
Decompositions ==
    UNION { [ids -> [sources : (SUBSET Domains) \ {{}},
                     dependencies : SUBSET (Workstreams \union {Unknown})]]
            : ids \in (SUBSET Workstreams) \ {{}} }

\* The loop of require_valid_dependency_graph: a workstream is resolved once
\* everything it depends on is; the graph is acyclic iff all are in the end.
ResolvedAfter(d) ==
    LET resolved[n \in 0..Cardinality(DOMAIN d)] ==
            IF n = 0 THEN {}
            ELSE {w \in DOMAIN d : d[w].dependencies \subseteq resolved[n - 1]}
    IN  resolved[Cardinality(DOMAIN d)]

ValidWorkstreams(d) ==
    /\ \A w \in DOMAIN d : w \notin d[w].dependencies
    /\ \A w \in DOMAIN d : d[w].dependencies \subseteq DOMAIN d
    /\ \A s \in Domains :
          Cardinality({w \in DOMAIN d : s \in d[w].sources}) <= MaxPerDomain
    /\ ResolvedAfter(d) = DOMAIN d

\* Every approved domain is covered and nothing else is.
CoversDomains(d, approved) == UNION {d[w].sources : w \in DOMAIN d} = approved

DecomposeDomains ==
    /\ architecture # Nil /\ plan = Nil
    /\ \E evidence \in Evidence, reply \in Replies, d \in Decompositions :
          IF /\ intake.canStart /\ architecture.status = "PROPOSED"
             /\ Sendable(evidence) /\ reply = "proposal"
             /\ ValidWorkstreams(d)
             /\ CoversDomains(d, architecture.domains)
          THEN plan' = d /\ Answer
          ELSE Raise /\ UNCHANGED plan
    /\ UNCHANGED <<specification, intake, architecture, work, events, lapses>>

-----------------------------------------------------------------------------
\* A set that would have to be started before itself.
Circular(ws) == ws # {} /\ \A w \in ws : plan[w].dependencies \intersect ws # {}

\* Work is planned only once the client owes no blocking or important answer,
\* and what is planned can be started: the three stages take one decision
\* together (intake gate, escalation of missing information, refusal of an
\* unsettled architecture), no set of workstreams waits for itself and no
\* approved domain is left without one.
PlanIsSettled ==
    plan # Nil =>
        /\ intake.questions \subseteq {"OPTIONAL"}
        /\ \A ws \in SUBSET DOMAIN plan : ~Circular(ws)
        /\ \A s \in architecture.domains :
              \E w \in DOMAIN plan : s \in plan[w].sources
=============================================================================
