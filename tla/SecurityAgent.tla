---------------------------- MODULE SecurityAgent ----------------------------
(***************************************************************************)
(* One independent Security assessment: preflight, local redaction of the  *)
(* source, one scanner run, one provider call, and the gate.               *)
(* core/security.                                                          *)
(***************************************************************************)
EXTENDS EngineeringStage

CONSTANT MaxFindings    \* _MAX_FINDINGS, scaled down

ASSUME SecurityAssumption == MaxFindings \in Nat \ {0}

\* What the scanner printed about one place: something severe in the source
\* under review or elsewhere, or an item the adapter cannot convert (a missing
\* text, an absolute path, a line that is no number).
Items == {"severe", "elsewhere", "malformed"}

Outputs == UNION {[1..n -> Items] : n \in 0..(MaxFindings + 1)}

SecurityRequests ==
    [secrets : 0..(MaxFindings + 1),   \* credentials in the diff and the files
     short : BOOLEAN,                  \* one is shorter than what replaces it
     output : Outputs, cut : BOOLEAN,  \* the scanner's, and whether it was cut
     trusted : BOOLEAN]                \* the suite is one the caller trusts

\* sanitize_security_source: a confirmed finding for each credential up to the
\* limit; the text is cut where replacing them made it longer
Sanitized(q) ==
    [findings |-> IF q.secrets > MaxFindings THEN MaxFindings ELSE q.secrets,
     complete |-> q.secrets <= MaxFindings /\ ~(q.secrets > 0 /\ q.short)]

\* Mutant: findings beyond the limit are dropped in silence.
ReportWithoutLimit(q) ==
    LET read == {i \in DOMAIN q.output : i <= MaxFindings}
    IN  [findings  |-> {q.output[i] : i \in read} \ {"malformed"},
         complete  |-> ~q.cut,
         truncated |-> q.cut]

\* The adapter converts the first items and drops what it cannot convert.
\* The exit code is not part of the report.
ScannerReport(q) ==
    LET read == {i \in DOMAIN q.output : i <= MaxFindings}
    IN  [findings  |-> {q.output[i] : i \in read} \ {"malformed"},
         complete  |-> ~q.cut,
         truncated |-> q.cut \/ Len(q.output) > MaxFindings]

\* Security requires a QA result that PASSED, of this run, and its own tests
ValidSecurity == work.QA = "PASSED"

\* A credential in the source, or a confirmed severe finding: one of a trusted
\* suite at a place that exists.  Everything else is only suspected.
Vetoed(q) ==
    \/ Sanitized(q).findings > 0
    \/ q.trusted /\ "severe" \in ScannerReport(q).findings

\* Findings and reasons for doubt, the provider's included
Doubts(q, opinion) ==
    \/ ~Sanitized(q).complete
    \/ ~ScannerReport(q).complete
    \/ ScannerReport(q).truncated
    \/ ~q.trusted
    \/ ScannerReport(q).findings # {}
    \/ opinion # "pass"

SecurityVerdict(q, opinion) ==
    IF Vetoed(q) THEN "BLOCK" ELSE IF Doubts(q, opinion) THEN "WARN" ELSE "PASS"

Secure(q, opinion) ==
    /\ Judged("SECURITY", SecurityVerdict(q, opinion), q)
    /\ Complete("SECURITY", SecurityVerdict(q, opinion), Nil)

Security ==
    /\ \/ /\ ValidSecurity
          /\ \E q \in SecurityRequests, opinion \in {"pass", "object", "unsure"} :
                Secure(q, opinion)
       \/ \* invalid scope, a credential in the task's text, no scanner report or
          \* one that repeats the source, ProviderFailures, the deadline
          Raise /\ UNCHANGED <<work, events, lapses>>
    /\ UNCHANGED prs
=============================================================================
