---------------------- MODULE EngineeringStages_proofs ----------------------
(***************************************************************************)
(* Proofs about what the stages of the engineering flow rest on: a plan    *)
(* that can be started, a scheduler whose two records agree, and verdicts  *)
(* that stand on their evidence.  What loops compute is shown by induction *)
(* on the naturals, in the form that a set with 0 and with the successor   *)
(* of each of its numbers has them all.                                    *)
(***************************************************************************)
EXTENDS EngineeringV1_proofs, WellFoundedInduction

\* Every set of naturals that is not empty has a least number.
LEMMA LeastNumber ==
    ASSUME NEW T, T \subseteq Nat, T # {}
    PROVE  \E m \in T : \A n \in T : m <= n
<1> DEFINE R == OpToRel(<, Nat)
<1>1. IsWellFoundedOn(R, Nat) BY NatLessThanWellFounded
<1>2. \A x, y \in Nat : x < y => <<x, y>> \in R BY DEF OpToRel
<1> HIDE DEF R
<1>3. PICK m \in T : \A y \in T : ~(<<y, m>> \in R) BY <1>1, WFMin
<1>4. \A y \in T : ~(y < m) BY <1>2, <1>3
<1>5. \A y \in T : m <= y
    <2> TAKE y \in T
    <2>1. m \in Nat /\ y \in Nat OBVIOUS
    <2> QED BY <1>4, <2>1
<1> QED BY <1>5

\* Induction on the naturals.
LEMMA Induction ==
    ASSUME NEW S, 0 \in S, \A n \in Nat : n \in S => n + 1 \in S
    PROVE  Nat \subseteq S
<1> DEFINE T == Nat \ S
<1>1. SUFFICES ASSUME T # {} PROVE FALSE OBVIOUS
<1>2. PICK m \in T : \A n \in T : m <= n BY <1>1, LeastNumber
<1>3. m # 0 /\ m - 1 \in Nat /\ m - 1 \notin T BY <1>2
<1> QED BY <1>2, <1>3

-----------------------------------------------------------------------------
\* What is resolved after n passes of require_valid_dependency_graph
Resolution(d, r, n) ==
    r = [k \in 0..n |-> IF k = 0 THEN {}
                        ELSE {w \in DOMAIN d : d[w].dependencies \subseteq r[k - 1]}]

\* What each pass resolves.
LEMMA ResolutionSteps ==
    ASSUME NEW d, NEW r, NEW n \in Nat, Resolution(d, r, n)
    PROVE  /\ r[0] = {}
           /\ \A k \in 0..n : k # 0 =>
                 r[k] = {w \in DOMAIN d : d[w].dependencies \subseteq r[k - 1]}
<1>1. PICK g : g = [j \in 0..n |-> IF j = 0 THEN {}
                                   ELSE {w \in DOMAIN d : d[w].dependencies \subseteq r[j - 1]}]
    OBVIOUS
<1>2. r = g BY <1>1 DEF Resolution
<1>3. g[0] = {} BY <1>1
<1>4. ASSUME NEW k \in 0..n, k # 0
      PROVE  g[k] = {w \in DOMAIN d : d[w].dependencies \subseteq r[k - 1]}
    BY <1>1, <1>4
<1> QED BY <1>2, <1>3, <1>4

\* The passes are defined for every number of them.
LEMMA ResolutionExists ==
    ASSUME NEW d, NEW n \in Nat
    PROVE  \E r : Resolution(d, r, n)
<1> DEFINE S == {m \in Nat : \E r : Resolution(d, r, m)}
<1>1. 0 \in S
    <2> DEFINE r == [k \in 0..0 |-> {}]
    <2>1. Resolution(d, r, 0) BY DEF Resolution
    <2> QED BY <2>1
<1>2. ASSUME NEW m \in Nat, m \in S PROVE m + 1 \in S
    <2>1. PICK r : Resolution(d, r, m) BY <1>2
    <2>2. /\ r[0] = {}
          /\ \A k \in 0..m : k # 0 =>
                r[k] = {w \in DOMAIN d : d[w].dependencies \subseteq r[k - 1]}
        BY <2>1, ResolutionSteps
    <2> DEFINE q == [k \in 0..(m + 1) |-> IF k = 0 THEN {}
                         ELSE {w \in DOMAIN d : d[w].dependencies \subseteq r[k - 1]}]
    <2>3. \A k \in 0..m : q[k] = r[k]
        <3> TAKE k \in 0..m
        <3>1. r[k] = IF k = 0 THEN {}
                     ELSE {w \in DOMAIN d : d[w].dependencies \subseteq r[k - 1]}
            BY <2>2
        <3>2. k \in 0..(m + 1) OBVIOUS
        <3> QED BY <3>1, <3>2
    <2>4. \A k \in 0..(m + 1) : k # 0 => k - 1 \in 0..m OBVIOUS
    <2>5. q = [k \in 0..(m + 1) |-> IF k = 0 THEN {}
                         ELSE {w \in DOMAIN d : d[w].dependencies \subseteq q[k - 1]}]
        BY <2>3, <2>4
    <2>6. Resolution(d, q, m + 1) BY <2>5 DEF Resolution
    <2> QED BY <2>6
<1> HIDE DEF S
<1>3. Nat \subseteq S BY <1>1, <1>2, Induction
<1> QED BY <1>3 DEF S

\* A set that waits for itself is never resolved, so no graph that passes has one.
LEMMA ResolvedIsAcyclic ==
    ASSUME NEW d, IsFiniteSet(DOMAIN d), NEW ws \in SUBSET DOMAIN d, ws # {},
           \A w \in ws : d[w].dependencies \intersect ws # {}
    PROVE  ResolvedAfter(d) # DOMAIN d
<1>1. PICK N \in Nat : N = Cardinality(DOMAIN d) BY FS_CardinalityType
<1> DEFINE r == CHOOSE r : Resolution(d, r, N)
<1>2. Resolution(d, r, N) BY ResolutionExists
<1>3. ResolvedAfter(d) = r[N] BY <1>1 DEF ResolvedAfter, Resolution
<1> HIDE DEF r
<1>4. /\ r[0] = {}
      /\ \A k \in 0..N : k # 0 =>
            r[k] = {w \in DOMAIN d : d[w].dependencies \subseteq r[k - 1]}
    BY <1>2, ResolutionSteps
<1> DEFINE S == {k \in Nat : k <= N => r[k] \intersect ws = {}}
<1>5. 0 \in S BY <1>4
<1>6. ASSUME NEW k \in Nat, k \in S PROVE k + 1 \in S
    <2>1. SUFFICES ASSUME k + 1 <= N, NEW w \in r[k + 1], w \in ws PROVE FALSE OBVIOUS
    <2>2. k + 1 \in 0..N /\ k + 1 # 0 /\ (k + 1) - 1 = k /\ k <= N BY <2>1
    <2>3. d[w].dependencies \subseteq r[k] BY <1>4, <2>1, <2>2
    <2>4. r[k] \intersect ws = {} BY <1>6, <2>2
    <2> QED BY <2>1, <2>3, <2>4
<1> HIDE DEF S
<1>7. Nat \subseteq S BY <1>5, <1>6, Induction
<1>8. r[N] \intersect ws = {} BY <1>7 DEF S
<1> QED BY <1>3, <1>8

\* What a pass resolves stays resolved by the next one.
LEMMA ResolutionGrows ==
    ASSUME NEW d, NEW r, NEW N \in Nat, Resolution(d, r, N), NEW j \in 0..N, j + 1 <= N
    PROVE  r[j] \subseteq r[j + 1]
<1>1. /\ r[0] = {}
      /\ \A k \in 0..N : k # 0 =>
            r[k] = {w \in DOMAIN d : d[w].dependencies \subseteq r[k - 1]}
    BY ResolutionSteps
<1> DEFINE S == {k \in Nat : k + 1 <= N => r[k] \subseteq r[k + 1]}
<1>2. 0 \in S BY <1>1
<1>3. ASSUME NEW k \in Nat, k \in S PROVE k + 1 \in S
    <2>1. SUFFICES ASSUME (k + 1) + 1 <= N, NEW w \in r[k + 1]
                   PROVE  w \in r[(k + 1) + 1]
        OBVIOUS
    <2>2. /\ k + 1 \in 0..N /\ k + 1 # 0 /\ (k + 1) - 1 = k
          /\ (k + 1) + 1 \in 0..N /\ (k + 1) + 1 # 0 /\ ((k + 1) + 1) - 1 = k + 1
        BY <2>1
    <2>3. w \in DOMAIN d /\ d[w].dependencies \subseteq r[k] BY <1>1, <2>1, <2>2
    <2>4. r[k] \subseteq r[k + 1] BY <1>3, <2>1
    <2>5. d[w].dependencies \subseteq r[k + 1] BY <2>3, <2>4
    <2> QED BY <1>1, <2>2, <2>3, <2>5
<1> HIDE DEF S
<1>4. j \in S BY <1>2, <1>3, Induction
<1> QED BY <1>4 DEF S

\* A pass that resolves nothing new is followed by none that does.
LEMMA ResolutionSettles ==
    ASSUME NEW d, NEW r, NEW N \in Nat, Resolution(d, r, N),
           NEW j \in 0..N, j + 1 <= N, r[j + 1] = r[j]
    PROVE  r[N] = r[j]
<1>1. \A k \in 0..N : k # 0 =>
         r[k] = {w \in DOMAIN d : d[w].dependencies \subseteq r[k - 1]}
    BY ResolutionSteps
<1> DEFINE S == {k \in Nat : j + k <= N => r[j + k] = r[j]}
<1>2. 0 \in S OBVIOUS
<1>3. ASSUME NEW k \in Nat, k \in S PROVE k + 1 \in S
    <2>1. SUFFICES ASSUME j + (k + 1) <= N PROVE r[j + (k + 1)] = r[j] OBVIOUS
    <2>2. /\ j + (k + 1) \in 0..N /\ j + (k + 1) # 0 /\ (j + (k + 1)) - 1 = j + k
          /\ j + 1 \in 0..N /\ j + 1 # 0 /\ (j + 1) - 1 = j
        BY <2>1
    <2>3. r[j + k] = r[j] BY <1>3, <2>1
    <2>4. r[j + (k + 1)] = {w \in DOMAIN d : d[w].dependencies \subseteq r[j]}
        BY <1>1, <2>2, <2>3
    <2>5. r[j + 1] = {w \in DOMAIN d : d[w].dependencies \subseteq r[j]} BY <1>1, <2>2
    <2> QED BY <2>4, <2>5
<1> HIDE DEF S
<1>4. N - j \in S BY <1>2, <1>3, Induction
<1> QED BY <1>4 DEF S

\* As long as every pass resolves something new, n passes resolve n workstreams.
LEMMA ResolutionCounts ==
    ASSUME NEW d, IsFiniteSet(DOMAIN d), NEW r, NEW N \in Nat, Resolution(d, r, N),
           \A j \in 0..N : j + 1 <= N => r[j + 1] # r[j]
    PROVE  Cardinality(r[N]) >= N
<1>1. /\ r[0] = {}
      /\ \A k \in 0..N : k # 0 =>
            r[k] = {w \in DOMAIN d : d[w].dependencies \subseteq r[k - 1]}
    BY ResolutionSteps
<1>2. \A k \in 0..N : r[k] \subseteq DOMAIN d BY <1>1
<1>3. \A k \in 0..N : IsFiniteSet(r[k]) /\ Cardinality(r[k]) \in Nat
    BY <1>2, FS_Subset, FS_CardinalityType
<1> DEFINE S == {k \in Nat : k <= N => Cardinality(r[k]) >= k}
<1>4. 0 \in S BY <1>1, FS_EmptySet
<1>5. ASSUME NEW k \in Nat, k \in S PROVE k + 1 \in S
    <2>1. SUFFICES ASSUME k + 1 <= N PROVE Cardinality(r[k + 1]) >= k + 1 OBVIOUS
    <2>2. k \in 0..N /\ k + 1 \in 0..N BY <2>1
    <2>3. r[k] \subseteq r[k + 1] /\ r[k] # r[k + 1] BY <2>1, <2>2, ResolutionGrows
    <2>4. /\ Cardinality(r[k]) <= Cardinality(r[k + 1])
          /\ Cardinality(r[k]) # Cardinality(r[k + 1])
        BY <1>3, <2>2, <2>3, FS_Subset
    <2>5. Cardinality(r[k]) >= k BY <1>5, <2>2
    <2>6. Cardinality(r[k]) \in Nat /\ Cardinality(r[k + 1]) \in Nat BY <1>3, <2>2
    <2> QED BY <2>4, <2>5, <2>6
<1> HIDE DEF S
<1>6. N \in S BY <1>4, <1>5, Induction
<1> QED BY <1>6 DEF S

\* What is never resolved waits for itself.
LEMMA UnresolvedIsCircular ==
    ASSUME NEW d, IsFiniteSet(DOMAIN d),
           \A w \in DOMAIN d : d[w].dependencies \subseteq DOMAIN d,
           ResolvedAfter(d) # DOMAIN d
    PROVE  \E ws \in SUBSET DOMAIN d :
              ws # {} /\ \A w \in ws : d[w].dependencies \intersect ws # {}
<1>1. PICK N \in Nat : N = Cardinality(DOMAIN d) BY FS_CardinalityType
<1> DEFINE r == CHOOSE r : Resolution(d, r, N)
<1>2. Resolution(d, r, N) BY ResolutionExists
<1>3. r[N] # DOMAIN d BY <1>1 DEF ResolvedAfter, Resolution
<1> HIDE DEF r
<1>4. /\ r[0] = {}
      /\ \A k \in 0..N : k # 0 =>
            r[k] = {w \in DOMAIN d : d[w].dependencies \subseteq r[k - 1]}
    BY <1>2, ResolutionSteps
<1>5. r[N] \subseteq DOMAIN d BY <1>4
<1>6. PICK j \in 0..N : j + 1 <= N /\ r[j + 1] = r[j]
    <2>1. SUFFICES ASSUME \A j \in 0..N : j + 1 <= N => r[j + 1] # r[j] PROVE FALSE
        OBVIOUS
    <2>2. Cardinality(r[N]) >= N BY <1>2, <2>1, ResolutionCounts
    <2>3. Cardinality(r[N]) <= N /\ Cardinality(r[N]) \in Nat
        BY <1>1, <1>5, FS_Subset, FS_CardinalityType
    <2>4. Cardinality(r[N]) = Cardinality(DOMAIN d) BY <1>1, <2>2, <2>3
    <2> QED BY <1>3, <1>5, <2>4, FS_Subset
<1>7. r[N] = r[j] BY <1>2, <1>6, ResolutionSettles
<1> DEFINE ws == DOMAIN d \ r[j]
<1>8. ws # {} BY <1>3, <1>5, <1>7
<1>9. ASSUME NEW w \in ws PROVE d[w].dependencies \intersect ws # {}
    <2>1. j + 1 \in 0..N /\ j + 1 # 0 /\ (j + 1) - 1 = j BY <1>6
    <2>2. r[j] = {v \in DOMAIN d : d[v].dependencies \subseteq r[j]} BY <1>4, <1>6, <2>1
    <2>3. ~(d[w].dependencies \subseteq r[j]) BY <1>9, <2>2
    <2> QED BY <1>9, <2>3
<1> QED BY <1>8, <1>9

\* require_valid_dependency_graph accepts exactly the graphs in which no set of
\* workstreams waits for itself, however many workstreams there are.
THEOREM GraphCheckIsExact ==
    ASSUME NEW d, IsFiniteSet(DOMAIN d),
           \A w \in DOMAIN d : d[w].dependencies \subseteq DOMAIN d
    PROVE  ResolvedAfter(d) = DOMAIN d
              <=> \A ws \in SUBSET DOMAIN d : ws # {} =>
                     \E w \in ws : d[w].dependencies \intersect ws = {}
<1>1. ASSUME ResolvedAfter(d) = DOMAIN d, NEW ws \in SUBSET DOMAIN d, ws # {}
      PROVE  \E w \in ws : d[w].dependencies \intersect ws = {}
    BY <1>1, ResolvedIsAcyclic
<1>2. ASSUME ResolvedAfter(d) # DOMAIN d
      PROVE  \E ws \in SUBSET DOMAIN d :
                ws # {} /\ \A w \in ws : d[w].dependencies \intersect ws # {}
    BY <1>2, UnresolvedIsCircular
<1> QED BY <1>1, <1>2

-----------------------------------------------------------------------------
\* What each analysis left rests on the one before it
PlanInv ==
    /\ intake # Nil =>
          intake \in Intakes /\ intake.canStart = ("BLOCKING" \notin intake.questions)
    /\ architecture # Nil =>
          /\ intake # Nil
          /\ architecture.status = "PROPOSED" =>
                intake.questions \intersect {"IMPORTANT"} = {}
    /\ plan # Nil =>
          /\ architecture # Nil /\ architecture.status = "PROPOSED" /\ intake.canStart
          /\ IsFiniteSet(DOMAIN plan)
          /\ ValidWorkstreams(plan) /\ CoversDomains(plan, architecture.domains)

\* The intake is new, and nothing has been made of it yet.
LEMMA AnalysisStep ==
    ASSUME PlanInv, AnalyzeSpecification
    PROVE  PlanInv'
<1>1. intake = Nil /\ architecture = Nil /\ plan = Nil BY DEF AnalyzeSpecification, PlanInv
<1>2. architecture' = Nil /\ plan' = Nil BY <1>1 DEF AnalyzeSpecification
<1>3. PICK questions \in SUBSET QuestionClasses :
          intake' = IntakeResult(questions) \/ UNCHANGED intake
    BY DEF AnalyzeSpecification
<1>4. CASE intake' = IntakeResult(questions)
    <2>1. /\ IntakeResult(questions) \in Intakes
          /\ IntakeResult(questions).canStart
                = ("BLOCKING" \notin IntakeResult(questions).questions)
        BY DEF IntakeResult, Intakes
    <2> QED BY <1>2, <1>4, <2>1 DEF PlanInv, Intakes, QuestionClasses
<1>5. CASE UNCHANGED intake BY <1>1, <1>2, <1>5 DEF PlanInv
<1> QED BY <1>3, <1>4, <1>5

\* An architecture that needs no human rests on an intake that can start.
LEMMA ArchitectureStep ==
    ASSUME PlanInv, AnalyzeArchitecture
    PROVE  PlanInv'
<1>1. intake # Nil /\ intake \in Intakes /\ architecture = Nil /\ plan = Nil
    BY DEF AnalyzeArchitecture, PlanInv
<1>2. UNCHANGED <<intake, plan>> BY DEF AnalyzeArchitecture
<1>3. PICK p \in Proposals :
          architecture' = ArchitectureResult(p, MissingInformation(p)) \/ UNCHANGED architecture
    BY DEF AnalyzeArchitecture
<1>4. CASE architecture' = ArchitectureResult(p, MissingInformation(p))
    <2>1. architecture'.status = "PROPOSED" => MissingInformation(p) = {}
        BY <1>4 DEF ArchitectureResult
    <2>2. architecture'.status = "PROPOSED" => intake.questions \intersect {"IMPORTANT"} = {}
        BY <2>1 DEF MissingInformation
    <2> QED BY <1>1, <1>2, <2>2 DEF PlanInv, Intakes, QuestionClasses
<1>5. CASE UNCHANGED architecture
    BY <1>1, <1>2, <1>5 DEF PlanInv, Intakes, QuestionClasses
<1> QED BY <1>3, <1>4, <1>5

\* A decomposition is kept only after its checks.
LEMMA DecompositionStep ==
    ASSUME PlanInv, DecomposeDomains
    PROVE  PlanInv'
<1>1. architecture # Nil /\ plan = Nil /\ UNCHANGED <<intake, architecture>>
    BY DEF DecomposeDomains
<1>2. PICK d \in Decompositions :
          \/ /\ intake.canStart /\ architecture.status = "PROPOSED"
             /\ ValidWorkstreams(d) /\ CoversDomains(d, architecture.domains)
             /\ plan' = d
          \/ UNCHANGED plan
    BY DEF DecomposeDomains
<1>3. CASE plan' = d /\ intake.canStart /\ architecture.status = "PROPOSED"
           /\ ValidWorkstreams(d) /\ CoversDomains(d, architecture.domains)
    <2>1. IsFiniteSet(DOMAIN d)
        <3>1. DOMAIN d \subseteq Workstreams BY DEF Decompositions
        <3> QED BY <3>1, PlanningAssumption, FS_Subset
    <2>2. ValidWorkstreams(plan)' /\ CoversDomains(plan, architecture.domains)'
        BY <1>1, <1>3 DEF ValidWorkstreams, CoversDomains, ResolvedAfter
    <2> QED BY <1>1, <1>3, <2>1, <2>2 DEF PlanInv, Intakes, QuestionClasses
<1>4. CASE UNCHANGED plan
    BY <1>1, <1>4 DEF PlanInv, Intakes, QuestionClasses, ValidWorkstreams, CoversDomains
<1> QED BY <1>2, <1>3, <1>4

\* No step of the flow breaks the planning invariant.
LEMMA PlanNext ==
    ASSUME PlanInv, [Next]_vars
    PROVE  PlanInv'
<1>1. ASSUME UNCHANGED <<intake, architecture, plan>> PROVE PlanInv'
    BY <1>1 DEF PlanInv, Intakes, QuestionClasses, ValidWorkstreams, CoversDomains
<1>2. CASE PlanningStage
    <2>1. CASE SubmitText \/ IngestDocument BY <1>1, <2>1 DEF SubmitText, IngestDocument
    <2> QED BY <1>2, <2>1, AnalysisStep, ArchitectureStep, DecompositionStep DEF PlanningStage
<1>3. CASE StagePassed
    <2>1. \/ intake' = Nil /\ architecture' = Nil /\ plan' = Nil
          \/ UNCHANGED <<intake, architecture, plan>>
        BY <1>3 DEF StagePassed, planningVars
    <2>2. ASSUME intake' = Nil, architecture' = Nil, plan' = Nil PROVE PlanInv'
        BY <2>2 DEF PlanInv
    <2> QED BY <1>1, <2>1, <2>2
<1>4. CASE StaffingStage \/ DeveloperStage \/ DeliveryStage \/ RoleStage \/ MergeStage
              \/ RemoteStep \/ ClosureStage \/ OtherStage
    BY <1>1, <1>4 DEF StaffingStage, DeveloperStage, DeliveryStage, RoleStage, MergeStage,
                      RemoteStep, ClosureStage, OtherStage, planningVars
<1>5. CASE StageBlocked \/ StageRaised \/ Interrupted
    BY <1>1, <1>5 DEF StageBlocked, StageRaised, Interrupted, planningVars
<1>6. CASE UNCHANGED vars BY <1>1, <1>6 DEF vars, planningVars
<1> QED BY <1>2, <1>3, <1>4, <1>5, <1>6 DEF Next

\* The planning invariant is enough for what a plan promises.
LEMMA PlanInvSettles == PlanInv => PlanIsSettled
<1> SUFFICES ASSUME PlanInv, plan # Nil PROVE
        /\ intake.questions \subseteq {"OPTIONAL"}
        /\ \A ws \in SUBSET DOMAIN plan : ~Circular(ws)
        /\ \A s \in architecture.domains : \E w \in DOMAIN plan : s \in plan[w].sources
    BY DEF PlanIsSettled
<1>1. /\ intake \in Intakes /\ "BLOCKING" \notin intake.questions
      /\ "IMPORTANT" \notin intake.questions
      /\ IsFiniteSet(DOMAIN plan) /\ ValidWorkstreams(plan)
      /\ CoversDomains(plan, architecture.domains)
    BY DEF PlanInv
<1>2. intake.questions \subseteq {"OPTIONAL"} BY <1>1 DEF Intakes, QuestionClasses
<1>3. ASSUME NEW ws \in SUBSET DOMAIN plan, Circular(ws) PROVE FALSE
    BY <1>1, <1>3, ResolvedIsAcyclic DEF Circular, ValidWorkstreams
<1>4. \A s \in architecture.domains : \E w \in DOMAIN plan : s \in plan[w].sources
    BY <1>1 DEF CoversDomains
<1> QED BY <1>2, <1>3, <1>4

\* Intake, architecture and decomposition: work is planned only on answered
\* questions, what is planned covers the approved domains, and no set of
\* workstreams waits for itself.
THEOREM PlansAreSettled == Spec => []PlanIsSettled
<1>1. Init => PlanInv BY DEF Init, InitPlanning, PlanInv
<1>2. PlanInv /\ [Next]_vars => PlanInv' BY PlanNext
<1>3. PlanInv => PlanIsSettled BY PlanInvSettles
<1> QED BY <1>1, <1>2, <1>3, PTL DEF Spec

-----------------------------------------------------------------------------
\* The scheduler's two records, of any state of a scheduling pass: every entry
\* has its place as its number, what an agent is held for is its active entry,
\* and every active entry is what its agent is held for.
Ledger(st) ==
    /\ st.active \in [Agents -> Assignments \union {Nil}]
    /\ st.history \in Seq(Assignments)
    /\ \A i \in DOMAIN st.history : st.history[i].id = i - 1
    /\ \A a \in Agents : st.active[a] # Nil =>
          /\ st.active[a].agent = a /\ st.active[a].status = "ACTIVE"
          /\ \E i \in DOMAIN st.history : st.history[i] = st.active[a]
    /\ \A i \in DOMAIN st.history :
          st.history[i].status = "ACTIVE" => st.active[st.history[i].agent] = st.history[i]

SchedulerState == [active |-> active, history |-> history]

\* The best of some ranks is one of them.
LEMMA BestIsRanked ==
    ASSUME NEW ranks, ranks \subseteq DOMAIN RankedAgents, ranks # {}
    PROVE  Min(ranks) \in ranks /\ RankedAgents[Min(ranks)] \in Agents
<1>1. ranks \subseteq Nat BY StaffingAssumption
<1>2. \E m \in ranks : \A n \in ranks : m <= n BY <1>1, LeastNumber
<1>3. Min(ranks) \in ranks BY <1>2 DEF Min
<1> QED BY <1>3, StaffingAssumption

\* An agent that is free gets one assignment in both records.
LEMMA AssignKeeps ==
    ASSUME NEW st, Ledger(st), NEW n \in DOMAIN RankedRequests,
           NEW ranks, ranks \subseteq DOMAIN RankedAgents, ranks # {},
           \A i \in ranks : st.active[RankedAgents[i]] = Nil
    PROVE  Ledger(Assign(st, RankedRequests[n], ranks))
<1>1. PICK a \in Agents : a = RankedAgents[Min(ranks)] /\ st.active[a] = Nil
    BY BestIsRanked
<1>2. PICK h \in Seq(Assignments) : h = st.history BY DEF Ledger
<1>3. PICK act \in [Agents -> Assignments \union {Nil}] : act = st.active BY DEF Ledger
<1> DEFINE new == Assignment(a, RankedRequests[n], Len(h))
           act2 == [act EXCEPT ![a] = new]
           h2 == Append(h, new)
<1>4. RankedRequests[n].project \in Projects /\ RankedRequests[n].task \in Tasks
    BY DEF Projects, Tasks
<1>5. /\ new \in Assignments /\ new.agent = a /\ new.id = Len(h) /\ new.status = "ACTIVE"
    BY <1>2, <1>4 DEF Assignment, Assignments
<1>6. Assign(st, RankedRequests[n], ranks) = [active |-> act2, history |-> h2]
    BY <1>1, <1>2, <1>3, <1>5 DEF Assign
<1>7. \A b \in Agents : act[b] # Nil =>
          /\ act[b].agent = b /\ act[b].status = "ACTIVE"
          /\ \E i \in DOMAIN h : h[i] = act[b]
    BY <1>2, <1>3 DEF Ledger
<1>8. \A i \in DOMAIN h : h[i].id = i - 1 /\ h[i] \in Assignments
                          /\ (h[i].status = "ACTIVE" => act[h[i].agent] = h[i])
    BY <1>2, <1>3 DEF Ledger
<1> HIDE DEF new
<1>9. /\ Len(h) \in Nat /\ DOMAIN h = 1..Len(h) /\ DOMAIN h2 = 1..(Len(h) + 1)
      /\ \A i \in 1..Len(h) : h2[i] = h[i]
      /\ h2[Len(h) + 1] = new /\ h2 \in Seq(Assignments)
    BY <1>5
<1>10. /\ act2 \in [Agents -> Assignments \union {Nil}] /\ act2[a] = new
       /\ \A b \in Agents \ {a} : act2[b] = act[b]
    BY <1>5
<1> HIDE DEF act2, h2
<1>11. \A i \in DOMAIN h2 : h2[i].id = i - 1 BY <1>5, <1>8, <1>9
<1>12. ASSUME NEW b \in Agents, act2[b] # Nil
       PROVE  /\ act2[b].agent = b /\ act2[b].status = "ACTIVE"
              /\ \E i \in DOMAIN h2 : h2[i] = act2[b]
    <2>1. CASE b = a
        <3>1. Len(h) + 1 \in DOMAIN h2 BY <1>9
        <3> QED BY <1>5, <1>9, <1>10, <2>1, <3>1
    <2>2. CASE b # a
        <3>1. act2[b] = act[b] BY <1>10, <2>2
        <3>2. PICK i \in DOMAIN h : h[i] = act[b] BY <1>7, <1>12, <3>1
        <3>3. i \in DOMAIN h2 /\ h2[i] = h[i] BY <1>9
        <3> QED BY <1>7, <1>12, <3>1, <3>2, <3>3
    <2> QED BY <2>1, <2>2
<1>13. ASSUME NEW i \in DOMAIN h2, h2[i].status = "ACTIVE"
       PROVE  act2[h2[i].agent] = h2[i]
    <2>1. CASE i = Len(h) + 1 BY <1>5, <1>9, <1>10, <2>1
    <2>2. CASE i # Len(h) + 1
        <3>1. i \in DOMAIN h /\ h2[i] = h[i] BY <1>9, <2>2
        <3>2. act[h[i].agent] = h[i] /\ h[i] \in Assignments /\ h[i].agent \in Agents
            BY <1>8, <1>13, <3>1 DEF Assignments
        <3>3. h[i].agent # a BY <1>1, <1>3, <3>2, StaffingAssumption
        <3> QED BY <1>10, <3>1, <3>2, <3>3
    <2> QED BY <2>1, <2>2
<1>14. Ledger([active |-> act2, history |-> h2])
    BY <1>9, <1>10, <1>11, <1>12, <1>13 DEF Ledger
<1> QED BY <1>6, <1>14

\* One request of a pass keeps the ledger.
LEMMA PlaceKeeps ==
    ASSUME NEW st, Ledger(st), NEW n \in DOMAIN RankedRequests, NEW reasons
    PROVE  Ledger(Place(st, RankedRequests[n], reasons))
<1> DEFINE free == {i \in Matches(reasons) : RankedAgents[i] \notin Claimed(st.active)}
<1>1. CASE free = {} BY <1>1 DEF Place
<1>2. CASE free # {}
    <2>1. free \subseteq DOMAIN RankedAgents BY DEF Matches
    <2>2. \A i \in free : st.active[RankedAgents[i]] = Nil
        <3> TAKE i \in free
        <3>1. RankedAgents[i] \in Agents BY <2>1, StaffingAssumption
        <3> QED BY <3>1 DEF Claimed
    <2>3. Place(st, RankedRequests[n], reasons) = Assign(st, RankedRequests[n], free)
        BY <1>2 DEF Place
    <2> HIDE DEF free
    <2> QED BY <1>2, <2>1, <2>2, <2>3, AssignKeeps
<1> QED BY <1>1, <1>2

\* The states of a pass over the wanted requests
Pass(f, wanted, reasons, N) ==
    f = [n \in 0..N |->
            IF n = 0 THEN [active |-> active, history |-> history]
            ELSE IF n \notin wanted THEN f[n - 1]
            ELSE Place(f[n - 1], RankedRequests[n], reasons[RankedRequests[n].project])]

\* The values of the recursive function of a scheduling pass.
LEMMA PassSteps ==
    ASSUME NEW f, NEW wanted, NEW reasons, NEW N \in Nat, Pass(f, wanted, reasons, N)
    PROVE  /\ f[0] = [active |-> active, history |-> history]
           /\ \A n \in 0..N : n # 0 =>
                 f[n] = IF n \notin wanted THEN f[n - 1]
                        ELSE Place(f[n - 1], RankedRequests[n], reasons[RankedRequests[n].project])
<1>1. PICK g : g = [n \in 0..N |->
            IF n = 0 THEN [active |-> active, history |-> history]
            ELSE IF n \notin wanted THEN f[n - 1]
            ELSE Place(f[n - 1], RankedRequests[n], reasons[RankedRequests[n].project])]
    OBVIOUS
<1>2. f = g BY <1>1 DEF Pass
<1>3. g[0] = [active |-> active, history |-> history] BY <1>1
<1>4. ASSUME NEW n \in 0..N, n # 0
      PROVE  g[n] = IF n \notin wanted THEN f[n - 1]
                    ELSE Place(f[n - 1], RankedRequests[n], reasons[RankedRequests[n].project])
    BY <1>1, <1>4
<1> QED BY <1>2, <1>3, <1>4

\* The states of a pass are defined for any number of requests.
LEMMA PassExists ==
    ASSUME NEW wanted, NEW reasons, NEW N \in Nat
    PROVE  \E f : Pass(f, wanted, reasons, N)
<1> DEFINE S == {m \in Nat : \E f : Pass(f, wanted, reasons, m)}
<1>1. 0 \in S
    <2> DEFINE f == [n \in 0..0 |-> [active |-> active, history |-> history]]
    <2>1. Pass(f, wanted, reasons, 0) BY DEF Pass
    <2> QED BY <2>1
<1>2. ASSUME NEW m \in Nat, m \in S PROVE m + 1 \in S
    <2>1. PICK f : Pass(f, wanted, reasons, m) BY <1>2
    <2>2. /\ f[0] = [active |-> active, history |-> history]
          /\ \A n \in 0..m : n # 0 =>
                f[n] = IF n \notin wanted THEN f[n - 1]
                       ELSE Place(f[n - 1], RankedRequests[n], reasons[RankedRequests[n].project])
        BY <2>1, PassSteps
    <2> DEFINE g == [n \in 0..(m + 1) |->
                       IF n = 0 THEN [active |-> active, history |-> history]
                       ELSE IF n \notin wanted THEN f[n - 1]
                       ELSE Place(f[n - 1], RankedRequests[n], reasons[RankedRequests[n].project])]
    <2>3. \A n \in 0..m : g[n] = f[n]
        <3> TAKE n \in 0..m
        <3>1. f[n] = IF n = 0 THEN [active |-> active, history |-> history]
                     ELSE IF n \notin wanted THEN f[n - 1]
                     ELSE Place(f[n - 1], RankedRequests[n], reasons[RankedRequests[n].project])
            BY <2>2
        <3>2. n \in 0..(m + 1) OBVIOUS
        <3> QED BY <3>1, <3>2
    <2>4. \A n \in 0..(m + 1) : n # 0 => n - 1 \in 0..m OBVIOUS
    <2>5. g = [n \in 0..(m + 1) |->
                 IF n = 0 THEN [active |-> active, history |-> history]
                 ELSE IF n \notin wanted THEN g[n - 1]
                 ELSE Place(g[n - 1], RankedRequests[n], reasons[RankedRequests[n].project])]
        BY <2>3, <2>4
    <2>6. Pass(g, wanted, reasons, m + 1) BY <2>5 DEF Pass
    <2> QED BY <2>6
<1> HIDE DEF S
<1>3. Nat \subseteq S BY <1>1, <1>2, Induction
<1> QED BY <1>3 DEF S

\* A whole pass keeps the ledger.
LEMMA ScheduleStep ==
    ASSUME Ledger(SchedulerState), Schedule
    PROVE  Ledger(SchedulerState)'
<1>1. PICK N \in Nat : N = Len(RankedRequests) /\ DOMAIN RankedRequests = 1..N
    BY StaffingAssumption
<1>2. PICK wanted \in SUBSET DOMAIN RankedRequests,
           reasons \in [Projects -> [Agents -> Rejections]] :
        LET f == CHOOSE f : Pass(f, wanted, reasons, N)
        IN  active' = f[N].active /\ history' = f[N].history
    <2>1. PICK wanted \in SUBSET DOMAIN RankedRequests,
               reasons \in [Projects -> [Agents -> Rejections]] :
            LET after[n \in 0..Len(RankedRequests)] ==
                    IF n = 0 THEN [active |-> active, history |-> history]
                    ELSE IF n \notin wanted THEN after[n - 1]
                    ELSE Place(after[n - 1], RankedRequests[n],
                               reasons[RankedRequests[n].project])
                placed == after[Len(RankedRequests)]
            IN  active' = placed.active /\ history' = placed.history
        BY Zenon DEF Schedule
    <2>2. LET f == CHOOSE f : Pass(f, wanted, reasons, N)
          IN  active' = f[N].active /\ history' = f[N].history
        BY <1>1, <2>1 DEF Pass
    <2> QED BY <2>2
<1> DEFINE f == CHOOSE f : Pass(f, wanted, reasons, N)
<1>3. Pass(f, wanted, reasons, N) BY PassExists
<1>4. active' = f[N].active /\ history' = f[N].history BY <1>2
<1> HIDE DEF f
<1>5. /\ f[0] = [active |-> active, history |-> history]
      /\ \A n \in 0..N : n # 0 =>
            f[n] = IF n \notin wanted THEN f[n - 1]
                   ELSE Place(f[n - 1], RankedRequests[n], reasons[RankedRequests[n].project])
    BY <1>3, PassSteps
<1> DEFINE S == {n \in Nat : n <= N => Ledger(f[n])}
<1>6. 0 \in S BY <1>5 DEF SchedulerState
<1>7. ASSUME NEW n \in Nat, n \in S PROVE n + 1 \in S
    <2>1. SUFFICES ASSUME n + 1 <= N PROVE Ledger(f[n + 1]) OBVIOUS
    <2>2. n + 1 \in 0..N /\ n + 1 # 0 /\ (n + 1) - 1 = n /\ n + 1 \in DOMAIN RankedRequests
        BY <1>1, <2>1
    <2>3. Ledger(f[n]) BY <1>7, <2>1
    <2>4. f[n + 1] = IF n + 1 \notin wanted THEN f[n]
                     ELSE Place(f[n], RankedRequests[n + 1], reasons[RankedRequests[n + 1].project])
        BY <1>5, <2>2
    <2>5. CASE n + 1 \notin wanted BY <2>3, <2>4, <2>5
    <2>6. CASE n + 1 \in wanted
        <3>1. Ledger(Place(f[n], RankedRequests[n + 1], reasons[RankedRequests[n + 1].project]))
            BY <2>2, <2>3, PlaceKeeps
        <3> QED BY <2>4, <2>6, <3>1
    <2> QED BY <2>5, <2>6
<1> HIDE DEF S
<1>8. Nat \subseteq S BY <1>6, <1>7, Induction
<1>9. Ledger(f[N]) BY <1>8 DEF S
<1> QED BY <1>4, <1>9 DEF Ledger, SchedulerState, Assignments

\* A release ends the same assignments in both records.
LEMMA ReleaseStep ==
    ASSUME Ledger(SchedulerState), NEW p, ReleaseProject(p)
    PROVE  Ledger(SchedulerState)'
<1> DEFINE freed == {a \in Agents : active[a] # Nil /\ active[a].project = p}
<1>1. /\ active' = [a \in Agents |-> IF a \in freed THEN Nil ELSE active[a]]
      /\ history' = [i \in DOMAIN history |->
              IF \E a \in freed : active[a] = history[i]
              THEN [history[i] EXCEPT !.status = "RELEASED"] ELSE history[i]]
    BY DEF ReleaseProject
<1>2. /\ active \in [Agents -> Assignments \union {Nil}]
      /\ history \in Seq(Assignments)
      /\ \A i \in DOMAIN history : history[i].id = i - 1 /\ history[i] \in Assignments
      /\ \A a \in Agents : active[a] # Nil =>
            /\ active[a].agent = a /\ active[a].status = "ACTIVE"
            /\ \E i \in DOMAIN history : history[i] = active[a]
      /\ \A i \in DOMAIN history :
            history[i].status = "ACTIVE" => active[history[i].agent] = history[i]
    BY DEF Ledger, SchedulerState
<1> HIDE DEF freed
<1>3. \A i \in DOMAIN history :
          IF \E a \in freed : active[a] = history[i]
          THEN /\ history'[i] \in Assignments /\ history'[i].id = i - 1
               /\ history'[i].status = "RELEASED"
          ELSE history'[i] = history[i]
    <2> TAKE i \in DOMAIN history
    <2>1. CASE \E a \in freed : active[a] = history[i]
        <3>1. PICK h \in Assignments : h = history[i] /\ h.id = i - 1 BY <1>2
        <3>2. history'[i] = [h EXCEPT !.status = "RELEASED"] BY <1>1, <2>1, <3>1
        <3>3. /\ [h EXCEPT !.status = "RELEASED"] \in Assignments
              /\ [h EXCEPT !.status = "RELEASED"].id = i - 1
              /\ [h EXCEPT !.status = "RELEASED"].status = "RELEASED"
            BY <3>1 DEF Assignments
        <3> QED BY <2>1, <3>2, <3>3
    <2>2. CASE ~\E a \in freed : active[a] = history[i] BY <1>1, <2>2
    <2> QED BY <2>1, <2>2
<1>4. /\ history' \in Seq(Assignments) /\ DOMAIN history' = DOMAIN history
    <2>1. DOMAIN history = 1..Len(history) /\ Len(history) \in Nat BY <1>2
    <2>2. \A i \in DOMAIN history : history'[i] \in Assignments BY <1>2, <1>3
    <2>3. history' = [i \in 1..Len(history) |-> history'[i]] BY <1>1, <2>1
    <2> QED BY <2>1, <2>2, <2>3
<1>5. active' \in [Agents -> Assignments \union {Nil}] BY <1>1, <1>2
<1>6. \A i \in DOMAIN history' : history'[i].id = i - 1 BY <1>2, <1>3, <1>4
<1>7. ASSUME NEW a \in Agents, active'[a] # Nil
      PROVE  /\ active'[a].agent = a /\ active'[a].status = "ACTIVE"
             /\ \E i \in DOMAIN history' : history'[i] = active'[a]
    <2>1. a \notin freed /\ active'[a] = active[a] /\ active[a] # Nil BY <1>1, <1>7
    <2>2. PICK i \in DOMAIN history : history[i] = active[a] BY <1>2, <2>1
    <2>3. ~\E b \in freed : active[b] = history[i]
        <3>1. SUFFICES ASSUME NEW b \in freed, active[b] = history[i] PROVE FALSE OBVIOUS
        <3>2. b \in Agents /\ active[b] # Nil BY DEF freed
        <3>3. b = a BY <1>2, <2>1, <2>2, <3>1, <3>2
        <3> QED BY <2>1, <3>3
    <2>4. history'[i] = history[i] BY <1>3, <2>3
    <2> QED BY <1>2, <1>4, <2>1, <2>2, <2>4
<1>8. ASSUME NEW i \in DOMAIN history', history'[i].status = "ACTIVE"
      PROVE  active'[history'[i].agent] = history'[i]
    <2>1. i \in DOMAIN history BY <1>4
    <2>2. ~(\E a \in freed : active[a] = history[i]) /\ history'[i] = history[i]
        BY <1>3, <1>8, <2>1
    <2>3. /\ active[history[i].agent] = history[i] /\ history[i].agent \in Agents
        BY <1>2, <1>8, <2>1, <2>2 DEF Assignments
    <2>4. history[i].agent \notin freed BY <2>2, <2>3
    <2> QED BY <1>1, <2>2, <2>3, <2>4
<1> QED BY <1>4, <1>5, <1>6, <1>7, <1>8 DEF Ledger, SchedulerState, Assignments

\* No step of the flow breaks the ledger.
LEMMA LedgerNext ==
    ASSUME Ledger(SchedulerState), [Next]_vars
    PROVE  Ledger(SchedulerState)'
<1>1. ASSUME UNCHANGED <<active, history>> PROVE Ledger(SchedulerState)'
    BY <1>1 DEF Ledger, SchedulerState, Assignments
<1>2. CASE StaffingStage
    <2>1. CASE StaffingDone BY <1>1, <2>1 DEF StaffingDone
    <2> QED BY <1>2, <2>1, ScheduleStep, ReleaseStep DEF StaffingStage
<1>3. CASE StagePassed
    <2>1. \/ active' = [a \in Agents |-> Nil] /\ history' = <<>>
          \/ UNCHANGED <<active, history>>
        BY <1>3 DEF StagePassed, staffingVars
    <2>2. ASSUME active' = [a \in Agents |-> Nil], history' = <<>>
          PROVE  Ledger(SchedulerState)'
        BY <2>2 DEF Ledger, SchedulerState, Assignments
    <2> QED BY <1>1, <2>1, <2>2
<1>4. CASE PlanningStage \/ DeveloperStage \/ DeliveryStage \/ RoleStage \/ MergeStage
              \/ RemoteStep \/ ClosureStage \/ OtherStage
    BY <1>1, <1>4 DEF PlanningStage, DeveloperStage, DeliveryStage, RoleStage, MergeStage,
                      RemoteStep, ClosureStage, OtherStage, staffingVars
<1>5. CASE StageBlocked \/ StageRaised \/ Interrupted
    BY <1>1, <1>5 DEF StageBlocked, StageRaised, Interrupted, staffingVars
<1>6. CASE UNCHANGED vars BY <1>1, <1>6 DEF vars, staffingVars
<1> QED BY <1>2, <1>3, <1>4, <1>5, <1>6 DEF Next

\* The ledger is empty at first.
LEMMA InitLedger == Init => Ledger(SchedulerState)
BY DEF Init, InitStaffing, Ledger, SchedulerState, Assignments

\* The ledger is enough for the property.
LEMMA LedgerIsEnough == Ledger(SchedulerState) => LedgerAgrees
<1> SUFFICES ASSUME Ledger(SchedulerState) PROVE LedgerAgrees OBVIOUS
<1>1. /\ \A i \in DOMAIN history : history[i].id = i - 1
      /\ \A a \in Agents : active[a] # Nil =>
            \E i \in DOMAIN history : history[i] = active[a]
      /\ \A i \in DOMAIN history :
            history[i].status = "ACTIVE" => active[history[i].agent] = history[i]
      /\ history \in Seq(Assignments)
    BY DEF Ledger, SchedulerState
<1>2. ASSUME NEW i \in DOMAIN history, NEW j \in DOMAIN history, i # j,
             history[i].status = "ACTIVE", history[j].status = "ACTIVE",
             history[i].agent = history[j].agent
      PROVE  FALSE
    <2>1. history[i] = history[j] BY <1>1, <1>2
    <2>2. i - 1 = j - 1 /\ i \in Int /\ j \in Int BY <1>1, <2>1
    <2> QED BY <1>2, <2>2
<1> QED BY <1>1, <1>2 DEF LedgerAgrees

\* ProjectScheduler: the history and the active assignments agree after any
\* number of passes over any requests, and of releases between them.
THEOREM LedgersAgree == Spec => []LedgerAgrees
<1>1. Init => Ledger(SchedulerState) BY InitLedger
<1>2. Ledger(SchedulerState) /\ [Next]_vars => Ledger(SchedulerState)' BY LedgerNext
<1>3. Ledger(SchedulerState) => LedgerAgrees BY LedgerIsEnough
<1> QED BY <1>1, <1>2, <1>3, PTL DEF Spec

-----------------------------------------------------------------------------
\* A verdict is there only from the stage that gives it to the end of the
\* Security stage, and evidence only with the verdict of its stage
VerdictInv ==
    /\ VerdictsRestOnEvidence
    /\ work = [k \in Kinds \union {"evidence"} |-> work[k]]
    /\ stage # 11 => work.SECURITY = Nil
    /\ stage \notin 10..11 => work.QA = Nil
    /\ stage \notin 9..11 => work.REVIEWER = Nil /\ work.evidence = Nil
    /\ stage = 10 /\ work.evidence # Nil => work.QA # Nil
    /\ stage = 11 /\ work.evidence # Nil => work.SECURITY # Nil

\* The stages of the role agents
LEMMA RoleStages ==
    /\ \A s \in Stages : StageOrder[s] = "CODE_CHANGE" <=> s = 7
    /\ \A s \in Stages : StageOrder[s] = "TEST_EXECUTION" <=> s = 8
    /\ \A s \in Stages : StageOrder[s] = "INDEPENDENT_REVIEW" <=> s = 9
    /\ \A s \in Stages : StageOrder[s] = "QA" <=> s = 10
    /\ \A s \in Stages : StageOrder[s] = "SECURITY" <=> s = 11
BY OrderFacts DEF StageOrder

\* A step that leaves the verdicts alone, and the Developer's report too while
\* evidence rests on it, keeps the invariant.
LEMMA VerdictFrame ==
    ASSUME VerdictInv, UNCHANGED <<work, stage>>, UNCHANGED development \/ work.evidence = Nil
    PROVE  VerdictInv'
<1>1. VerdictsRestOnEvidence'
    <2>1. CASE UNCHANGED development BY <2>1 DEF VerdictInv, VerdictsRestOnEvidence
    <2>2. CASE work.evidence = Nil BY <2>2 DEF VerdictInv, VerdictsRestOnEvidence
    <2> QED BY <2>1, <2>2
<1> QED BY <1>1 DEF VerdictInv, Kinds

\* An APPROVED review has the evidence its gate asks for.
LEMMA ReviewStep ==
    ASSUME VerdictInv, Review, stage = 9, stage' = stage
    PROVE  VerdictInv'
<1>1. work.QA = Nil /\ work.SECURITY = Nil /\ UNCHANGED development
    BY DEF VerdictInv, Review
<1>2. CASE UNCHANGED work BY <1>1, <1>2, VerdictFrame
<1>3. ASSUME NEW q \in ReviewRequests, NEW reply,
             Judged("REVIEWER", ReviewVerdict(q, reply), q)
      PROVE  VerdictInv'
    <2>1. PICK v : v = ReviewVerdict(q, reply) OBVIOUS
    <2>2. /\ work'.REVIEWER = v /\ work'.evidence = q
          /\ work'.QA = Nil /\ work'.SECURITY = Nil
          /\ work' = [k \in Kinds \union {"evidence"} |-> work'[k]]
        BY <1>1, <1>3, <2>1 DEF VerdictInv, Judged, Kinds
    <2>3. ASSUME v = "APPROVED"
          PROVE  /\ q.independent /\ development.report = "SUCCEEDED"
                 /\ \A p \in ToSet(development.required) :
                       {c.result : c \in {x \in ToSet(development.checks) : x.profile = p}}
                          = {"passed"}
        <3>1. /\ q.independent /\ development.report = "SUCCEEDED" /\ ~ChecksBlock
            BY <2>1, <2>3 DEF ReviewVerdict, ReviewBlocked
        <3>2. ASSUME NEW p \in ToSet(development.required)
              PROVE  {c.result : c \in {x \in ToSet(development.checks) : x.profile = p}}
                          = {"passed"}
            <4>1. /\ Cardinality(Of(development.checks, p)) = 1
                  /\ \A i \in Of(development.checks, p) : development.checks[i].result = "passed"
                BY <3>1 DEF ChecksBlock
            <4>2. Of(development.checks, p) # {}
                <5>1. SUFFICES ASSUME Of(development.checks, p) = {} PROVE FALSE OBVIOUS
                <5> QED BY <4>1, <5>1, FS_EmptySet
            <4>3. ToSet(development.checks)
                     = {development.checks[i] : i \in DOMAIN development.checks}
                BY DEF ToSet
            <4>4. \A i \in Of(development.checks, p) :
                     i \in DOMAIN development.checks /\ development.checks[i].profile = p
                BY DEF Of
            <4>5. \A x \in ToSet(development.checks) : x.profile = p => x.result = "passed"
                BY <4>1, <4>3 DEF Of
            <4>6. \E x \in ToSet(development.checks) : x.profile = p
                BY <4>2, <4>3, <4>4
            <4> QED BY <4>5, <4>6
        <3> QED BY <3>1, <3>2
    <2>4. v # "PASSED" /\ "PASSED" # Nil /\ Nil # "PASS"
        BY <2>1, StageAssumption DEF ReviewVerdict, Verdicts
    <2>5. VerdictsRestOnEvidence' BY <1>1, <2>2, <2>3, <2>4 DEF VerdictsRestOnEvidence
    <2> QED BY <2>2, <2>5 DEF VerdictInv, Kinds
<1> QED BY <1>2, <1>3 DEF Review

\* A PASSED of QA rests on its own tests, and on the APPROVED review it was given.
LEMMA QAStep ==
    ASSUME VerdictInv, QA, UNCHANGED development, stage = 10, stage' = stage
    PROVE  VerdictInv'
<1>1. work.SECURITY = Nil BY DEF VerdictInv
<1>2. CASE UNCHANGED work BY <1>2, VerdictFrame
<1>3. ASSUME NEW q \in QARequests, ValidQA(q), NEW runs \in TestRuns(q.required),
             NEW p \in QAProposals, Assess(q, runs, p)
      PROVE  VerdictInv'
    <2>1. PICK v : v = QAVerdict(q, runs, p) OBVIOUS
    <2>2. PICK e : e = [runs |-> runs, cites |-> p.criterion.cites] OBVIOUS
    <2>3. /\ work'.QA = v /\ work'.evidence = e /\ work'.REVIEWER = "APPROVED"
          /\ work'.SECURITY = Nil
          /\ work' = [k \in Kinds \union {"evidence"} |-> work'[k]]
        BY <1>1, <1>3, <2>1, <2>2 DEF VerdictInv, Assess, Judged, Kinds, ValidQA
    <2>4. ASSUME v = "PASSED"
          PROVE  /\ \A t \in DOMAIN e.runs : e.runs[t] = "passed"
                 /\ e.cites # {} /\ e.cites \subseteq DOMAIN e.runs
        <3>1. ~QABlocked(q, runs, p) BY <2>1, <2>4 DEF QAVerdict
        <3>2. /\ Succeeded(runs) = q.required /\ p.criterion.cites # {}
              /\ p.criterion.cites \subseteq Succeeded(runs)
            BY <3>1 DEF QABlocked
        <3>3. DOMAIN runs = q.required BY DEF TestRuns
        <3> QED BY <2>2, <3>2, <3>3 DEF Succeeded
    <2>5. v \in {"PASSED", "FAILED"} /\ v # Nil
        BY <2>1, StageAssumption DEF QAVerdict, Verdicts
    <2>6. VerdictsRestOnEvidence' BY <2>3, <2>4, <2>5 DEF VerdictsRestOnEvidence
    <2> QED BY <2>3, <2>5, <2>6 DEF VerdictInv, Kinds
<1> QED BY <1>2, <1>3 DEF QA, QARefuses

\* A verdict of Security rests on its scan, and on the PASSED it was given.
LEMMA SecurityStep ==
    ASSUME VerdictInv, Security, UNCHANGED development, stage = 11, stage' = stage
    PROVE  VerdictInv'
<1>1. CASE UNCHANGED work BY <1>1, VerdictFrame
<1>2. ASSUME ValidSecurity, NEW q \in SecurityRequests, NEW opinion, Secure(q, opinion)
      PROVE  VerdictInv'
    <2>1. PICK v : v = SecurityVerdict(q, opinion) OBVIOUS
    <2>2. work.QA = "PASSED" /\ work.REVIEWER = "APPROVED"
        BY <1>2 DEF ValidSecurity, VerdictInv, VerdictsRestOnEvidence
    <2>3. /\ work'.SECURITY = v /\ work'.evidence = q /\ work'.QA = "PASSED"
          /\ work'.REVIEWER = "APPROVED"
          /\ work' = [k \in Kinds \union {"evidence"} |-> work'[k]]
        BY <1>2, <2>1, <2>2 DEF VerdictInv, Secure, Judged, Kinds
    <2>4. /\ q.secrets \in Nat /\ q.output \in Outputs /\ MaxFindings \in Nat \ {0}
        BY SecurityAssumption DEF SecurityRequests
    <2>5. PICK n \in 0..(MaxFindings + 1) : q.output \in [1..n -> Items]
        BY <2>4 DEF Outputs
    <2>6. Len(q.output) = n /\ DOMAIN q.output = 1..n BY <2>5
    <2>7. ASSUME v = "PASS"
          PROVE  /\ q.secrets = 0 /\ q.trusted /\ ~q.cut
                 /\ ToSet(q.output) \subseteq {"malformed"}
                 /\ Len(q.output) <= MaxFindings
        <3>1. ~Vetoed(q) /\ ~Doubts(q, opinion) BY <2>1, <2>7 DEF SecurityVerdict
        <3>2. q.secrets = 0
            BY <2>4, <3>1 DEF Vetoed, Sanitized
        <3>3. /\ q.trusted /\ ~q.cut /\ ~(Len(q.output) > MaxFindings)
              /\ ScannerReport(q).findings = {}
            BY <3>1 DEF Doubts, ScannerReport
        <3>4. n <= MaxFindings BY <2>4, <2>5, <2>6, <3>3
        <3>5. \A i \in DOMAIN q.output : q.output[i] = "malformed"
            <4>1. {q.output[i] : i \in {j \in DOMAIN q.output : j <= MaxFindings}}
                     \ {"malformed"} = {}
                BY <3>3 DEF ScannerReport
            <4>2. \A i \in DOMAIN q.output : i <= MaxFindings BY <2>4, <2>6, <3>4
            <4> QED BY <4>1, <4>2
        <3> QED BY <2>6, <3>2, <3>3, <3>4, <3>5 DEF ToSet
    <2>8. ASSUME v = "BLOCK" PROVE q.secrets > 0 \/ "severe" \in ToSet(q.output)
        <3>1. Vetoed(q) BY <2>1, <2>8 DEF SecurityVerdict
        <3>2. CASE Sanitized(q).findings > 0 BY <2>4, <3>2 DEF Sanitized
        <3>3. CASE "severe" \in ScannerReport(q).findings BY <3>3 DEF ScannerReport, ToSet
        <3> QED BY <3>1, <3>2, <3>3 DEF Vetoed
    <2>9. v # Nil BY <2>1, StageAssumption DEF SecurityVerdict, Verdicts
    <2>10. VerdictsRestOnEvidence' BY <2>3, <2>7, <2>8, <2>9 DEF VerdictsRestOnEvidence
    <2> QED BY <2>3, <2>9, <2>10 DEF VerdictInv, Kinds
<1> QED BY <1>1, <1>2 DEF Security

\* No step of the flow breaks the verdicts.
LEMMA VerdictNext ==
    ASSUME stage \in Stages, VerdictInv, [Next]_vars
    PROVE  VerdictInv'
<1>1. CASE PlanningStage
    <2>1. stage \notin 9..11 /\ stage' = stage /\ UNCHANGED development
        BY <1>1, RoleStages DEF PlanningStage, Active, StageOrder, engineeringVars
    <2>2. UNCHANGED work
        BY <1>1 DEF PlanningStage, SubmitText, IngestDocument, AnalyzeSpecification,
                    AnalyzeArchitecture, DecomposeDomains
    <2> QED BY <2>1, <2>2, VerdictFrame
<1>2. CASE StaffingStage
    <2>1. stage' = stage /\ UNCHANGED development BY <1>2 DEF StaffingStage, engineeringVars
    <2>2. UNCHANGED work BY <1>2 DEF StaffingStage, Schedule, ReleaseProject, StaffingDone
    <2> QED BY <2>1, <2>2, VerdictFrame
<1>3. CASE DeveloperStage
    <2>1. stage = 7 /\ stage' = stage /\ UNCHANGED work
        BY <1>3, RoleStages DEF DeveloperStage, Active, engineeringVars, Develop
    <2>2. work.evidence = Nil BY <2>1 DEF VerdictInv
    <2> QED BY <2>1, <2>2, VerdictFrame
<1>4. CASE DeliveryStage
    <2>1. stage' = stage /\ UNCHANGED <<work, development>>
        BY <1>4 DEF DeliveryStage, engineeringVars, ValidateDelivery, OpenPullRequest,
                    RecordRow, LeaveOut
    <2> QED BY <2>1, VerdictFrame
<1>5. CASE RoleStage
    <2>1. stage' = stage BY <1>5 DEF RoleStage, engineeringVars
    <2>2. CASE Active("INDEPENDENT_REVIEW") /\ Review
        BY <2>1, <2>2, RoleStages, ReviewStep DEF Active
    <2>3. CASE Active("QA") /\ QA /\ UNCHANGED development
        BY <2>1, <2>3, RoleStages, QAStep DEF Active
    <2>4. CASE Active("SECURITY") /\ Security /\ UNCHANGED development
        BY <2>1, <2>4, RoleStages, SecurityStep DEF Active
    <2> QED BY <1>5, <2>2, <2>3, <2>4 DEF RoleStage
<1>6. CASE MergeStage
    <2>1. stage' = stage /\ UNCHANGED <<work, development>>
        BY <1>6 DEF MergeStage, engineeringVars, MergeStep, CallMerge, ReadBack, ListChecks,
                    AnswerTooLate, MergeSucceeds, MergeFails
    <2> QED BY <2>1, VerdictFrame
<1>7. CASE RemoteStep
    <2>1. stage' = stage /\ UNCHANGED <<work, development>>
        BY <1>7 DEF RemoteStep, engineeringVars, GitHubAnswers, SomeonePushes
    <2> QED BY <2>1, VerdictFrame
<1>8. CASE ClosureStage \/ OtherStage
    <2>1. stage' = stage /\ UNCHANGED <<work, development>>
        BY <1>8 DEF ClosureStage, OtherStage, engineeringVars
    <2> QED BY <2>1, VerdictFrame
<1>9. CASE StagePassed
    <2>1. /\ stage' \in {stage, stage + 1} /\ stage \in 1..17
        BY <1>9, OrderFacts DEF StagePassed, AuditFails
    <2>2. CASE stage = 11 /\ stage' # stage
        <3>1. StageOrder[stage] = "SECURITY" BY <2>2, OrderFacts
        <3>2. work' = NoWork BY <1>9, <2>2, <3>1 DEF StagePassed
        <3>3. /\ work'.SECURITY = Nil /\ work'.QA = Nil /\ work'.REVIEWER = Nil
              /\ work'.evidence = Nil
              /\ work' = [k \in Kinds \union {"evidence"} |-> work'[k]]
            BY <3>2 DEF NoWork, Kinds
        <3>4. Nil # "PASSED" BY StageAssumption DEF Verdicts
        <3>5. VerdictsRestOnEvidence' BY <3>3, <3>4 DEF VerdictsRestOnEvidence
        <3> QED BY <3>3, <3>5 DEF VerdictInv, Kinds
    <2>3. CASE ~(stage = 11 /\ stage' # stage)
        <3>1. work' = [work EXCEPT !.evidence = Nil]
            BY <1>9, <2>1, <2>3, RoleStages DEF StagePassed, Stages
        <3>2. /\ work'.SECURITY = work.SECURITY /\ work'.QA = work.QA
              /\ work'.REVIEWER = work.REVIEWER /\ work'.evidence = Nil
              /\ work' = [k \in Kinds \union {"evidence"} |-> work'[k]]
            BY <3>1 DEF VerdictInv, Kinds
        <3>3. VerdictsRestOnEvidence' BY <3>2 DEF VerdictInv, VerdictsRestOnEvidence
        <3>4. /\ stage # 11 => work.SECURITY = Nil
              /\ stage \notin 10..11 => work.QA = Nil
              /\ stage \notin 9..11 => work.REVIEWER = Nil
            BY DEF VerdictInv
        <3>5. /\ stage' # 11 => work'.SECURITY = Nil
              /\ stage' \notin 10..11 => work'.QA = Nil
              /\ stage' \notin 9..11 => work'.REVIEWER = Nil
            BY <2>1, <2>3, <3>2, <3>4
        <3> QED BY <3>2, <3>3, <3>5 DEF VerdictInv, Kinds
    <2> QED BY <2>2, <2>3
<1>10. CASE StageBlocked \/ StageRaised
    <2>1. stage' = stage /\ UNCHANGED <<work, development>>
        BY <1>10 DEF StageBlocked, StageRaised, EndsWith, AuditFails, stageVars
    <2> QED BY <2>1, VerdictFrame
<1>11. CASE Interrupted
    <2>1. stage' = stage /\ UNCHANGED <<work, development>>
        BY <1>11 DEF Interrupted, EndsWith, AuditFails, stageVars
    <2> QED BY <2>1, VerdictFrame
<1>12. CASE UNCHANGED vars
    BY <1>12, VerdictFrame DEF vars, stageVars, engineeringVars
<1> QED BY <1>1, <1>2, <1>3, <1>4, <1>5, <1>6, <1>7, <1>8, <1>9, <1>10, <1>11, <1>12 DEF Next

\* There are no verdicts at first.
LEMMA InitVerdicts == Init => VerdictInv
<1> SUFFICES ASSUME Init PROVE VerdictInv OBVIOUS
<1>1. work = NoWork /\ stage = 1 BY DEF Init
<1>2. /\ work.SECURITY = Nil /\ work.QA = Nil /\ work.REVIEWER = Nil /\ work.evidence = Nil
      /\ work = [k \in Kinds \union {"evidence"} |-> work[k]]
    BY <1>1 DEF NoWork, Kinds
<1>3. Nil # "PASSED" BY StageAssumption DEF Verdicts
<1>4. VerdictsRestOnEvidence BY <1>2, <1>3 DEF VerdictsRestOnEvidence
<1> QED BY <1>1, <1>2, <1>4 DEF VerdictInv

\* Reviewer, QA and Security: each verdict of a run rests on its evidence and
\* on the verdict before it, whatever the providers propose, for any number of
\* test profiles and of findings.
THEOREM VerdictsRest == Spec => []VerdictsRestOnEvidence
<1>1. Init => VerdictInv BY InitVerdicts
<1>2. IInv /\ VerdictInv /\ [Next]_vars => VerdictInv'
    BY VerdictNext DEF IInv, TrailInv
<1>3. VerdictInv => VerdictsRestOnEvidence BY DEF VerdictInv
<1> QED BY <1>1, <1>2, <1>3, Invariance, PTL DEF Spec

-----------------------------------------------------------------------------
\* What a stage operation comes back with, and the Developer's run: its required
\* checks, the checks so far, each of which left a record, and the report
Returns == {"none", "passed", "blocked", "raised"}

Developments ==
    [required : RequiredChecks, checks : Seq(Checks), records : 0..MaxRecords,
     report : {"none", "SUCCEEDED", "FAILED", "BLOCKED", "NEEDS_HUMAN"}]

DevelopmentInv ==
    development # Nil =>
        development \in Developments /\ Len(development.checks) <= development.records

\* What the invariants above leave open of the types
RestTypeOK ==
    /\ returned \in Returns
    /\ DevelopmentInv
    /\ PlanningTypeOK
    /\ Len(history) <= MaxHistory
    /\ \A e \in events : e.kind \in Kinds /\ e.head \in Heads \union {Nil}
    /\ lapses \in 0..MaxLapses
    /\ prs \in [Heads -> TestEvidence \union {Nil}]
    /\ DOMAIN rows = Heads
    /\ mergeAudit \subseteq {"STARTED", "SUCCEEDED", "BLOCKED", "FAILED"}
    /\ project \in {"CLIENT_REVIEW", "ARCHIVED"}
    /\ staff \in [Team -> {"WORKING", "AVAILABLE"}]
    /\ held \subseteq Closers
    /\ lock \in Closers \union {Nil}

TypeInv == IInv /\ PlanInv /\ Ledger(SchedulerState) /\ RestTypeOK

\* Every operation comes back with one of its answers.
LEMMA ReturnsStep ==
    ASSUME returned \in Returns, [Next]_vars
    PROVE  returned' \in Returns
<1>1. CASE PlanningStage
    BY <1>1 DEF PlanningStage, SubmitText, IngestDocument, AnalyzeSpecification,
                AnalyzeArchitecture, DecomposeDomains, Answer, Raise, Returns
<1>2. CASE StaffingStage
    BY <1>2 DEF StaffingStage, Schedule, ReleaseProject, StaffingDone, Answer, Returns
<1>3. CASE DeveloperStage
    BY <1>3 DEF DeveloperStage, Develop, StartDeveloper, CallTool, DeveloperEnds, Raise, Returns
<1>4. CASE DeliveryStage
    BY <1>4 DEF DeliveryStage, ValidateDelivery, OpenPullRequest, RecordRow, LeaveOut, Answer,
                Raise, Returns
<1>5. CASE RoleStage
    BY <1>5 DEF RoleStage, Review, QA, QARefuses, Assess, Security, Secure, Complete, Answer,
                Raise, Returns
<1>6. CASE MergeStage
    BY <1>6 DEF MergeStage, MergeStep, CallMerge, ReadBack, ListChecks, AnswerTooLate,
                MergeSucceeds, MergeFails, Blocked, Answer, Raise, Returns
<1>7. CASE RemoteStep BY <1>7 DEF RemoteStep, GitHubAnswers, SomeonePushes
<1>8. CASE ClosureStage
    <2>1. ASSUME NEW c, CloserStep(c) PROVE returned' \in Returns
        BY <2>1 DEF CloserStep, Collect, LockProject, Archive, RollBack, Gives, Answer, Raise,
                    Returns
    <2> QED BY <1>8, <2>1 DEF ClosureStage, AgentMoves
<1>9. CASE OtherStage BY <1>9 DEF OtherStage, Answer, Raise, Returns
<1>10. CASE StagePassed BY <1>10 DEF StagePassed, Returns
<1>11. CASE StageBlocked \/ StageRaised \/ Interrupted
    BY <1>11 DEF StageBlocked, StageRaised, Interrupted, stageVars
<1>12. CASE UNCHANGED vars BY <1>12 DEF vars, stageVars
<1> QED BY <1>1, <1>2, <1>3, <1>4, <1>5, <1>6, <1>7, <1>8, <1>9, <1>10, <1>11, <1>12 DEF Next

\* A Developer run collects checks, each with its record, and reports once.
LEMMA DevelopmentStep ==
    ASSUME DevelopmentInv, [Next]_vars
    PROVE  DevelopmentInv'
<1>1. ASSUME UNCHANGED development PROVE DevelopmentInv'
    BY <1>1 DEF DevelopmentInv, Developments
<1>2. MaxRecords \in Nat BY DeveloperAssumption
<1>3. CASE StartDeveloper
    <2>1. CASE UNCHANGED development BY <1>1, <2>1
    <2>2. ASSUME NEW q \in DeveloperRequests,
                 development' = [required |-> q.required, checks |-> <<>>, records |-> 0,
                                 report |-> "none"]
          PROVE  DevelopmentInv'
        <3>1. q.required \in RequiredChecks BY DEF DeveloperRequests
        <3>2. development' \in Developments BY <1>2, <2>2, <3>1 DEF Developments
        <3>3. Len(development'.checks) <= development'.records BY <2>2
        <3> QED BY <3>2, <3>3 DEF DevelopmentInv, Developments
    <2> QED BY <1>3, <2>1, <2>2 DEF StartDeveloper
<1>4. CASE CallTool
    <2>1. PICK d \in Developments : d = development /\ Len(d.checks) <= d.records
                                    /\ d.records < MaxRecords
        BY <1>4 DEF CallTool, Developing, DevelopmentInv
    <2>2. PICK left \in {<<>>} \union {<<c>> : c \in Checks} :
              development' = [d EXCEPT !.checks = @ \o left, !.records = @ + 1]
        BY <1>4, <2>1 DEF CallTool
    <2>3. d.checks \in Seq(Checks) /\ d.records \in 0..MaxRecords BY DEF Developments
    <2>4. left \in Seq(Checks) /\ Len(left) <= 1
        <3>1. CASE left = <<>> BY <3>1
        <3>2. ASSUME NEW c \in Checks, left = <<c>> PROVE left \in Seq(Checks) /\ Len(left) <= 1
            BY <3>2
        <3>3. left = <<>> \/ \E c \in Checks : left = <<c>> OBVIOUS
        <3> QED BY <3>1, <3>2, <3>3
    <2>5. d.checks \o left \in Seq(Checks) /\ Len(d.checks \o left) <= d.records + 1
        BY <1>2, <2>1, <2>3, <2>4
    <2>6. d.records + 1 \in 0..MaxRecords BY <1>2, <2>1, <2>3
    <2>7. PICK cs \in Seq(Checks) : cs = d.checks \o left /\ Len(cs) <= d.records + 1 BY <2>5
    <2>8. development' = [d EXCEPT !.checks = cs, !.records = d.records + 1] BY <2>2, <2>7
    <2>9. /\ development' \in Developments /\ development'.checks = cs
          /\ development'.records = d.records + 1
        BY <2>6, <2>8 DEF Developments
    <2> QED BY <2>7, <2>9 DEF DevelopmentInv, Developments
<1>5. CASE DeveloperEnds
    <2>1. CASE UNCHANGED development BY <1>1, <2>1
    <2>2. ASSUME NEW end \in RuntimeEnds, development' = DeveloperResult(end, development)
          PROVE  DevelopmentInv'
        <3>1. PICK d \in Developments : d = development /\ Len(d.checks) <= d.records
            BY <1>5 DEF DeveloperEnds, Developing, DevelopmentInv
        <3>2. PICK report : report = DeveloperReport(end, d) OBVIOUS
        <3>3. report \in {"none", "SUCCEEDED", "FAILED", "BLOCKED", "NEEDS_HUMAN"}
            BY <3>2 DEF DeveloperReport, RuntimeEnds
        <3>4. development' = [d EXCEPT !.report = report]
            BY <2>2, <3>1, <3>2 DEF DeveloperResult
        <3>5. /\ development' \in Developments /\ development'.checks = d.checks
              /\ development'.records = d.records
            BY <3>3, <3>4 DEF Developments
        <3> QED BY <3>1, <3>5 DEF DevelopmentInv, Developments
    <2> QED BY <1>5, <2>1, <2>2 DEF DeveloperEnds
<1>6. CASE StagePassed
    <2>1. development' = Nil \/ UNCHANGED development BY <1>6 DEF StagePassed
    <2> QED BY <1>1, <2>1 DEF DevelopmentInv, Developments
<1>7. CASE PlanningStage \/ StaffingStage \/ DeliveryStage \/ MergeStage \/ RemoteStep
              \/ ClosureStage \/ OtherStage \/ StageBlocked \/ StageRaised \/ Interrupted
    BY <1>1, <1>7 DEF PlanningStage, StaffingStage, DeliveryStage, MergeStage, RemoteStep,
                      ClosureStage, OtherStage, StageBlocked, StageRaised, Interrupted
<1>8. CASE RoleStage BY <1>1, <1>8 DEF RoleStage, Review
<1>9. CASE UNCHANGED vars BY <1>1, <1>9 DEF vars
<1> QED BY <1>3, <1>4, <1>5, <1>6, <1>7, <1>8, <1>9 DEF Next, DeveloperStage, Develop

\* What the planning stages leave has its type.
LEMMA PlanningTypesStep ==
    ASSUME PlanningTypeOK, PlanInv', [Next]_vars
    PROVE  PlanningTypeOK'
<1>1. intake' = Nil \/ intake' \in Intakes BY DEF PlanInv, Intakes, QuestionClasses
<1>2. ASSUME UNCHANGED <<specification, architecture, plan>> PROVE PlanningTypeOK'
    BY <1>1, <1>2 DEF PlanningTypeOK, Intakes, QuestionClasses
<1>3. CASE PlanningStage
    <2>1. specification' \in {"none", "text"}
        BY <1>3 DEF PlanningTypeOK, PlanningStage, SubmitText, IngestDocument,
                    AnalyzeSpecification, AnalyzeArchitecture, DecomposeDomains
    <2>2. architecture' = Nil \/ architecture' \in
              [domains : SUBSET Domains, status : {"PROPOSED", "NEEDS_HUMAN"}]
        <3>1. CASE UNCHANGED architecture BY <3>1 DEF PlanningTypeOK
        <3>2. ASSUME NEW p \in Proposals, NEW missing,
                     architecture' = ArchitectureResult(p, missing)
              PROVE  architecture' \in
                         [domains : SUBSET Domains, status : {"PROPOSED", "NEEDS_HUMAN"}]
            BY <3>2 DEF ArchitectureResult, Proposals
        <3> QED BY <1>3, <3>1, <3>2 DEF PlanningStage, SubmitText, IngestDocument,
                    AnalyzeSpecification, AnalyzeArchitecture, DecomposeDomains
    <2>3. plan' = Nil \/ DOMAIN plan' \subseteq Workstreams
        <3>1. CASE UNCHANGED plan BY <3>1 DEF PlanningTypeOK
        <3>2. ASSUME NEW d \in Decompositions, plan' = d PROVE DOMAIN plan' \subseteq Workstreams
            BY <3>2 DEF Decompositions
        <3> QED BY <1>3, <3>1, <3>2 DEF PlanningStage, SubmitText, IngestDocument,
                    AnalyzeSpecification, AnalyzeArchitecture, DecomposeDomains
    <2> QED BY <1>1, <2>1, <2>2, <2>3 DEF PlanningTypeOK, Intakes, QuestionClasses
<1>4. CASE StagePassed
    <2>1. \/ specification' = "none" /\ architecture' = Nil /\ plan' = Nil
          \/ UNCHANGED <<specification, architecture, plan>>
        BY <1>4 DEF StagePassed, planningVars
    <2> QED BY <1>1, <1>2, <2>1 DEF PlanningTypeOK, Intakes, QuestionClasses
<1>5. CASE StaffingStage \/ DeveloperStage \/ DeliveryStage \/ RoleStage \/ MergeStage
              \/ RemoteStep \/ ClosureStage \/ OtherStage
    BY <1>2, <1>5 DEF StaffingStage, DeveloperStage, DeliveryStage, RoleStage, MergeStage,
                      RemoteStep, ClosureStage, OtherStage, planningVars
<1>6. CASE StageBlocked \/ StageRaised \/ Interrupted
    BY <1>2, <1>6 DEF StageBlocked, StageRaised, Interrupted, planningVars
<1>7. CASE UNCHANGED vars BY <1>2, <1>7 DEF vars, planningVars
<1> QED BY <1>3, <1>4, <1>5, <1>6, <1>7 DEF Next

\* The history stays within its bound: a pass that would exceed it does not happen.
LEMMA HistoryStep ==
    ASSUME history \in Seq(Assignments), Len(history) <= MaxHistory, [Next]_vars
    PROVE  Len(history') <= MaxHistory
<1>1. MaxHistory \in Nat BY StaffingAssumption
<1>2. CASE UNCHANGED history BY <1>2
<1>3. CASE Schedule
    <2>1. \E placed : Len(placed.history) <= MaxHistory /\ history' = placed.history
        BY <1>3, Zenon DEF Schedule
    <2> QED BY <2>1
<1>4. ASSUME NEW p, ReleaseProject(p) PROVE Len(history') <= MaxHistory
    <2>1. DOMAIN history' = DOMAIN history BY <1>4 DEF ReleaseProject
    <2>2. DOMAIN history = 1..Len(history) /\ Len(history) \in Nat OBVIOUS
    <2>3. Len(history') = Len(history)
        <3>1. history' = [i \in 1..Len(history) |-> history'[i]]
            BY <1>4, <2>2 DEF ReleaseProject
        <3> QED BY <2>2, <3>1
    <2> QED BY <2>3
<1>5. CASE StaffingStage BY <1>2, <1>3, <1>4, <1>5 DEF StaffingStage, StaffingDone
<1>6. CASE StagePassed
    <2>1. history' = <<>> \/ UNCHANGED history BY <1>6 DEF StagePassed, staffingVars
    <2> QED BY <1>1, <1>2, <2>1
<1>7. CASE PlanningStage \/ DeveloperStage \/ DeliveryStage \/ RoleStage \/ MergeStage
              \/ RemoteStep \/ ClosureStage \/ OtherStage
    BY <1>2, <1>7 DEF PlanningStage, DeveloperStage, DeliveryStage, RoleStage, MergeStage,
                      RemoteStep, ClosureStage, OtherStage, staffingVars
<1>8. CASE StageBlocked \/ StageRaised \/ Interrupted \/ UNCHANGED vars
    BY <1>2, <1>8 DEF StageBlocked, StageRaised, Interrupted, vars, staffingVars
<1> QED BY <1>5, <1>6, <1>7, <1>8 DEF Next

\* The closure's rows keep their types.
LEMMA ClosureTypesStep ==
    ASSUME project \in {"CLIENT_REVIEW", "ARCHIVED"},
           staff \in [Team -> {"WORKING", "AVAILABLE"}],
           held \subseteq Closers, lock \in Closers \union {Nil}, [Next]_vars
    PROVE  /\ project' \in {"CLIENT_REVIEW", "ARCHIVED"}
           /\ staff' \in [Team -> {"WORKING", "AVAILABLE"}]
           /\ held' \subseteq Closers /\ lock' \in Closers \union {Nil}
<1>1. CASE UNCHANGED <<project, staff, held, lock>> BY <1>1
<1>2. ASSUME NEW c \in Closers, CloserStep(c)
      PROVE  /\ project' \in {"CLIENT_REVIEW", "ARCHIVED"}
             /\ staff' \in [Team -> {"WORKING", "AVAILABLE"}]
             /\ held' \subseteq Closers /\ lock' \in Closers \union {Nil}
    <2>1. CASE Collect(c) BY <2>1 DEF Collect
    <2>2. CASE LockProject(c) BY <2>2 DEF LockProject
    <2>3. CASE Archive(c) BY <2>3 DEF Archive
    <2>4. CASE RollBack(c) BY <2>4 DEF RollBack
    <2> QED BY <1>2, <2>1, <2>2, <2>3, <2>4 DEF CloserStep
<1>3. CASE ClosureStage
    <2>1. ASSUME NEW a \in Team, AgentMoves(a)
          PROVE  /\ UNCHANGED <<project, held, lock>>
                 /\ staff' \in [Team -> {"WORKING", "AVAILABLE"}]
        BY <2>1 DEF AgentMoves
    <2> QED BY <1>2, <1>3, <2>1, ClosureAssumption DEF ClosureStage
<1>4. CASE PlanningStage \/ StaffingStage \/ DeveloperStage \/ DeliveryStage \/ RoleStage
              \/ MergeStage \/ RemoteStep \/ OtherStage \/ StagePassed \/ StageBlocked
              \/ StageRaised
    BY <1>1, <1>4 DEF PlanningStage, StaffingStage, DeveloperStage, DeliveryStage, RoleStage,
                      MergeStage, RemoteStep, OtherStage, StagePassed, StageBlocked, StageRaised,
                      closureVars
<1>5. CASE Interrupted BY <1>1, <1>5 DEF Interrupted, ClosureInterrupted, closureVars
<1>6. CASE UNCHANGED vars BY <1>1, <1>6 DEF vars, closureVars
<1> QED BY <1>3, <1>4, <1>5, <1>6 DEF Next

\* What the delivery accumulates: events of the role workflows, the caller's
\* lapses, pull requests, rows, and the outcomes of the merge
DeliveryRest ==
    /\ \A e \in events : e.kind \in Kinds /\ e.head \in Heads \union {Nil}
    /\ lapses \in 0..MaxLapses
    /\ prs \in [Heads -> TestEvidence \union {Nil}]
    /\ DOMAIN rows = Heads
    /\ mergeAudit \subseteq {"STARTED", "SUCCEEDED", "BLOCKED", "FAILED"}

\* A counted lapse stays within the bound.
LEMMA LapseCounted ==
    ASSUME lapses \in 0..MaxLapses, NEW wrong, Lapse(wrong)
    PROVE  lapses' \in 0..MaxLapses
BY StageAssumption DEF Lapse

\* The end of a role workflow adds an event of its own kind, or none.
LEMMA CompleteTypes ==
    ASSUME DeliveryRest, UNCHANGED <<prs, rows, mergeAudit>>, NEW kind \in Kinds, NEW decision,
           NEW tests, Complete(kind, decision, tests)
    PROVE  DeliveryRest'
<1>1. CASE UNCHANGED <<events, lapses>> BY <1>1 DEF DeliveryRest, TestEvidence, Heads, Kinds
<1>2. ASSUME NEW head \in Bindings, Lapse(head = Nil),
             events' = events \union
                {[kind |-> kind, head |-> head, decision |-> decision, tests |-> tests]}
      PROVE  DeliveryRest'
    <2>1. head \in Heads \union {Nil} BY DEF Bindings, Heads
    <2>2. lapses' \in 0..MaxLapses BY <1>2, LapseCounted DEF DeliveryRest
    <2>3. \A e \in events' : e.kind \in Kinds /\ e.head \in Heads \union {Nil}
        BY <1>2, <2>1 DEF DeliveryRest
    <2> QED BY <2>2, <2>3 DEF DeliveryRest, TestEvidence, Heads, Kinds
<1> QED BY <1>1, <1>2 DEF Complete

\* Validation, the pull request and its rows.
LEMMA DeliverySteps ==
    ASSUME DeliveryRest, UNCHANGED mergeAudit,
           \/ ValidateDelivery \/ OpenPullRequest
           \/ \E k \in RowKinds : RecordRow(k) \/ LeaveOut(k)
    PROVE  DeliveryRest'
<1>1. CASE ValidateDelivery
    <2>1. lapses' \in 0..MaxLapses
        BY <1>1, LapseCounted DEF ValidateDelivery, DeliveryRest
    <2> QED BY <1>1, <2>1 DEF ValidateDelivery, DeliveryRest, TestEvidence, Heads, Kinds
<1>2. CASE OpenPullRequest
    <2>1. lapses' \in 0..MaxLapses /\ UNCHANGED <<rows, events>>
        BY <1>2, LapseCounted DEF OpenPullRequest, DeliveryRest
    <2>2. prs' \in [Heads -> TestEvidence \union {Nil}]
        BY <1>2 DEF OpenPullRequest, DeliveryRest
    <2> QED BY <2>1, <2>2 DEF DeliveryRest, TestEvidence, Heads, Kinds
<1>3. ASSUME NEW k \in RowKinds, RecordRow(k) \/ LeaveOut(k) PROVE DeliveryRest'
    <2>1. PICK row : rows' = [rows EXCEPT ![NewHead][k] = row]
        BY <1>3 DEF RecordRow, LeaveOut
    <2>2. lapses' \in 0..MaxLapses
        BY <1>3, LapseCounted DEF RecordRow, LeaveOut, DeliveryRest
    <2>3. DOMAIN rows' = Heads BY <2>1 DEF DeliveryRest
    <2>4. UNCHANGED <<prs, events>> BY <1>3 DEF RecordRow, LeaveOut
    <2> QED BY <2>2, <2>3, <2>4 DEF DeliveryRest, TestEvidence, Heads, Kinds
<1> QED BY <1>1, <1>2, <1>3

\* No step of the flow leaves the types of the delivery.
LEMMA DeliveryTypesStep ==
    ASSUME DeliveryRest, [Next]_vars
    PROVE  DeliveryRest'
<1>1. ASSUME UNCHANGED <<events, lapses, prs, rows, mergeAudit>> PROVE DeliveryRest'
    BY <1>1 DEF DeliveryRest, TestEvidence, Heads, Kinds
<1>2. CASE PlanningStage
    BY <1>1, <1>2 DEF PlanningStage, SubmitText, IngestDocument, AnalyzeSpecification,
           AnalyzeArchitecture, DecomposeDomains, pullRequestVars, mergeVars
<1>3. CASE StaffingStage
    <2>1. UNCHANGED <<events, lapses>>
        BY <1>3 DEF StaffingStage, Schedule, ReleaseProject, StaffingDone
    <2>2. UNCHANGED <<prs, rows, mergeAudit>>
        BY <1>3 DEF StaffingStage, pullRequestVars, mergeVars
    <2> QED BY <1>1, <2>1, <2>2
<1>4. CASE DeveloperStage
    BY <1>1, <1>4 DEF DeveloperStage, Develop, pullRequestVars, mergeVars
<1>5. CASE DeliveryStage BY <1>5, DeliverySteps DEF DeliveryStage, mergeVars
<1>6. CASE RoleStage
    <2>1. UNCHANGED <<prs, rows, mergeAudit>>
        BY <1>6 DEF RoleStage, Review, QA, Security, pullRequestVars, mergeVars
    <2>2. \/ UNCHANGED <<events, lapses>>
          \/ \E kind \in Kinds : \E decision, tests : Complete(kind, decision, tests)
        <3>1. "REVIEWER" \in Kinds /\ "QA" \in Kinds /\ "SECURITY" \in Kinds BY DEF Kinds
        <3>2. CASE Review BY <3>1, <3>2 DEF Review
        <3>3. CASE QA BY <3>1, <3>3 DEF QA, QARefuses, Assess
        <3>4. CASE Security BY <3>1, <3>4 DEF Security, Secure
        <3> QED BY <1>6, <3>2, <3>3, <3>4 DEF RoleStage
    <2>3. CASE UNCHANGED <<events, lapses>> BY <1>1, <2>1, <2>3
    <2> QED BY <2>1, <2>2, <2>3, CompleteTypes
<1>7. CASE MergeStage
    <2>1. UNCHANGED <<events, prs, rows>>
        BY <1>7 DEF MergeStage, MergeStep, CallMerge, ReadBack, ListChecks, AnswerTooLate,
                    MergeSucceeds, MergeFails, pullRequestVars
    <2>2. lapses' \in 0..MaxLapses
        BY <1>7, LapseCounted DEF MergeStage, MergeStep, CallMerge, ReadBack, ListChecks,
              AnswerTooLate, MergeSucceeds, MergeFails, DeliveryRest
    <2>3. mergeAudit' \subseteq {"STARTED", "SUCCEEDED", "BLOCKED", "FAILED"}
        BY <1>7 DEF MergeStage, MergeStep, CallMerge, ReadBack, ListChecks,
              AnswerTooLate, MergeSucceeds, MergeFails, Blocked, Audits, DeliveryRest
    <2> QED BY <2>1, <2>2, <2>3 DEF DeliveryRest, TestEvidence, Heads, Kinds
<1>8. CASE RemoteStep
    BY <1>1, <1>8 DEF RemoteStep, GitHubAnswers, SomeonePushes, pullRequestVars
<1>9. CASE ClosureStage \/ OtherStage
    BY <1>1, <1>9 DEF ClosureStage, OtherStage, pullRequestVars, mergeVars
<1>10. CASE StagePassed
    <2>1. CASE UNCHANGED <<pullRequestVars, prs, events, lapses, mergeVars>>
        BY <1>1, <2>1 DEF pullRequestVars, mergeVars
    <2>2. CASE /\ lapses' = 0 /\ events' = {} /\ mergeAudit' = {}
               /\ prs' = [h \in Heads |-> Nil] /\ rows' = [h \in Heads |-> NoRows]
        BY <2>2, StageAssumption DEF DeliveryRest, TestEvidence, Heads, Kinds
    <2> QED BY <1>10, <2>1, <2>2 DEF StagePassed
<1>11. CASE StageBlocked \/ StageRaised
    BY <1>1, <1>11 DEF StageBlocked, StageRaised, stageVars, pullRequestVars, mergeVars
<1>12. CASE Interrupted
    <2>1. UNCHANGED <<events, lapses, prs, rows>>
        BY <1>12 DEF Interrupted, stageVars, pullRequestVars
    <2>2. UNCHANGED mergeAudit BY <1>12 DEF Interrupted, MergeInterrupted, mergeVars
    <2> QED BY <1>1, <2>1, <2>2
<1>13. CASE UNCHANGED vars BY <1>1, <1>13 DEF vars, stageVars, pullRequestVars, mergeVars
<1> QED BY <1>2, <1>3, <1>4, <1>5, <1>6, <1>7, <1>8, <1>9, <1>10, <1>11, <1>12, <1>13 DEF Next

\* All types together are kept by every step,
LEMMA TypesNext ==
    ASSUME TypeInv, [Next]_vars
    PROVE  TypeInv'
<1>1. IInv' BY TrailNext, MergeNext, ClosureNext DEF TypeInv, IInv, TrailInv
<1>2. PlanInv' BY PlanNext DEF TypeInv
<1>3. Ledger(SchedulerState)' BY LedgerNext DEF TypeInv
<1>4. returned' \in Returns BY ReturnsStep DEF TypeInv, RestTypeOK
<1>5. DevelopmentInv' BY DevelopmentStep DEF TypeInv, RestTypeOK
<1>6. PlanningTypeOK' BY <1>2, PlanningTypesStep DEF TypeInv, RestTypeOK
<1>7. Len(history') <= MaxHistory
    BY HistoryStep DEF TypeInv, RestTypeOK, Ledger, SchedulerState
<1>8. DeliveryRest' BY DeliveryTypesStep DEF TypeInv, RestTypeOK, DeliveryRest
<1>9. /\ project' \in {"CLIENT_REVIEW", "ARCHIVED"}
      /\ staff' \in [Team -> {"WORKING", "AVAILABLE"}]
      /\ held' \subseteq Closers /\ lock' \in Closers \union {Nil}
    BY ClosureTypesStep DEF TypeInv, RestTypeOK
<1>10. RestTypeOK'
    BY <1>4, <1>5, <1>6, <1>7, <1>8, <1>9 DEF RestTypeOK, DeliveryRest, Returns
<1> QED BY <1>1, <1>2, <1>3, <1>10 DEF TypeInv

\* hold at first,
LEMMA InitTypes == Init => TypeInv
<1> SUFFICES ASSUME Init PROVE TypeInv OBVIOUS
<1>1. IInv BY InitHolds
<1>2. PlanInv BY DEF Init, InitPlanning, PlanInv
<1>3. Ledger(SchedulerState) BY InitLedger
<1>4. returned \in Returns /\ DevelopmentInv BY DEF Init, Returns, DevelopmentInv
<1>5. PlanningTypeOK BY DEF Init, InitPlanning, PlanningTypeOK
<1>6. Len(history) <= MaxHistory BY StaffingAssumption DEF Init, InitStaffing
<1>7. \A e \in events : e.kind \in Kinds /\ e.head \in Heads \union {Nil}
    BY DEF Init, InitPullRequests, EarlierEvents, Heads
<1>8. EarlierTests \in TestEvidence
    <2>1. Profiles # {} BY StageAssumption
    <2>2. Profiles \in SUBSET Profiles /\ Profiles \notin {{}} BY <2>1
    <2>3. PICK names \in (SUBSET Profiles) \ {{}} : names = Profiles BY <2>2
    <2> QED BY <2>3 DEF EarlierTests, TestEvidence
<1>9. lapses \in 0..MaxLapses /\ DOMAIN rows = Heads
    BY StageAssumption DEF Init, InitPullRequests
<1>10. prs \in [Heads -> TestEvidence \union {Nil}] BY <1>8 DEF Init, InitPullRequests
<1>11. mergeAudit = {} BY DEF Init, InitMerge
<1>12. /\ project \in {"CLIENT_REVIEW", "ARCHIVED"}
       /\ staff \in [Team -> {"WORKING", "AVAILABLE"}]
       /\ held \subseteq Closers /\ lock \in Closers \union {Nil}
    BY DEF Init, InitClosure
<1>13. RestTypeOK BY <1>4, <1>5, <1>6, <1>7, <1>9, <1>10, <1>11, <1>12 DEF RestTypeOK
<1> QED BY <1>1, <1>2, <1>3, <1>13 DEF TypeInv

\* and are those of the modules.
LEMMA TypesAreEnough == TypeInv => TypeOK
<1> SUFFICES ASSUME TypeInv PROVE TypeOK OBVIOUS
<1>1. IInv /\ Ledger(SchedulerState) /\ RestTypeOK BY DEF TypeInv
<1>2. DevelopmentTypeOK
    <2>1. SUFFICES ASSUME development # Nil PROVE DevelopmentTypeOK BY DEF DevelopmentTypeOK
    <2>2. PICK d \in Developments : d = development /\ Len(d.checks) <= d.records
        BY <1>1, <2>1 DEF RestTypeOK, DevelopmentInv
    <2>3. /\ d.required \in RequiredChecks /\ d.checks \in Seq(Checks)
          /\ d.records \in 0..MaxRecords
          /\ d.report \in {"none", "SUCCEEDED", "FAILED", "BLOCKED", "NEEDS_HUMAN"}
        BY DEF Developments
    <2>4. ToSet(d.checks) \subseteq Checks BY <2>3 DEF ToSet
    <2>5. d.records <= MaxRecords BY <2>3
    <2> QED BY <2>2, <2>3, <2>4, <2>5 DEF DevelopmentTypeOK
<1>3. StaffingTypeOK
    <2>1. /\ active \in [Agents -> Assignments \union {Nil}] /\ history \in Seq(Assignments)
          /\ \A i \in DOMAIN history : history[i].id = i - 1
        BY <1>1 DEF Ledger, SchedulerState
    <2>2. \A i \in DOMAIN history : history[i] \in Assignments BY <2>1
    <2>3. \A i \in DOMAIN history : history[i].agent \in Agents BY <2>2 DEF Assignments
    <2>4. DOMAIN active = Agents BY <2>1
    <2> QED BY <1>1, <2>1, <2>3, <2>4 DEF StaffingTypeOK, RestTypeOK
<1>4. DeliveryTypeOK
    <2>1. validated \subseteq Heads /\ remote \in RemotePullRequests /\ call \in MergeCalls
        BY <1>1 DEF IInv, MergeInv, MergeTypeOK
    <2>2. call.step \in {"none", "started", "gated", "sent", "answered", "abandoned", "ended"}
        BY <2>1 DEF MergeCalls
    <2>3. \A h \in Heads : prs[h] = Nil \/ prs[h] \in TestEvidence BY <1>1 DEF RestTypeOK
    <2>4. DOMAIN prs = Heads BY <1>1 DEF RestTypeOK
    <2> QED BY <1>1, <2>1, <2>2, <2>3, <2>4 DEF DeliveryTypeOK, RestTypeOK
<1>5. ClosureTypeOK BY <1>1 DEF ClosureTypeOK, IInv, ClosureInv, CloserStates, RestTypeOK
<1>6. stage \in Stages /\ outcome \in Outcomes BY <1>1 DEF IInv, TrailInv
<1>7. returned \in {"none", "passed", "blocked", "raised"} /\ PlanningTypeOK
    BY <1>1 DEF RestTypeOK, Returns
<1> QED BY <1>2, <1>3, <1>4, <1>5, <1>6, <1>7 DEF TypeOK

\* The whole flow keeps its types: bounded evidence, one report, a history with
\* its numbers, pull requests and rows per head, a lock with one holder.
THEOREM TypeCorrect == Spec => []TypeOK
BY InitTypes, TypesNext, TypesAreEnough, PTL DEF Spec
=============================================================================
