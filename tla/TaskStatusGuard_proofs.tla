------------------------ MODULE TaskStatusGuard_proofs ------------------------
(***************************************************************************)
(* Proofs about TaskStatusGuard, for every set of tasks and sessions: if   *)
(* every caller re-reads the row FOR UPDATE before it changes the task,    *)
(* the committed audit chain explains the status of every task, and a      *)
(* terminal status is final.                                               *)
(***************************************************************************)
EXTENDS TaskStatusGuard, SequenceTheorems, TLAPS

\* Where a chain of audit events that starts at status "from" leads
EndOf(chain, from) == IF chain = <<>> THEN from ELSE Last(chain)[2]

\* The chain starts at "from" and follows approved edges, one from another.
Walk(chain, from) ==
    \A i \in 1 .. Len(chain) :
        /\ chain[i][1] = (IF i = 1 THEN from ELSE chain[i - 1][2])
        /\ CanTransition(chain[i][1], chain[i][2])

\* What is committed: every status is where its audit chain leads.
CommittedWalk ==
    \A t \in Tasks : Walk(log[t], "BACKLOG") /\ row[t] = EndOf(log[t], "BACKLOG")

\* A session with an authorization or an uncommitted write holds the row lock.
WritersHoldLock ==
    \A s \in Sessions, t \in Tasks :
        auth[s][t] # <<>> \/ flushed[s][t] # <<>> => lock[t] = s

\* What the holder of the row lock has loaded is not stale.
HoldersAreFresh ==
    \A s \in Sessions, t \in Tasks : lock[t] = s => loaded[s][t] = Visible(s, t)

\* What is flushed goes on from the committed status.
FlushedWalk == \A s \in Sessions, t \in Tasks : Walk(flushed[s][t], row[t])

\* A pending authorization is a chain of approved edges, whatever its start.
AuthorizedWalk ==
    \A s \in Sessions, t \in Tasks :
        auth[s][t] # <<>> => Walk(auth[s][t], Head(auth[s][t])[1])

\* What relates rows, locks and chains, as long as callers lock first
ChainsOK ==
    /\ CommittedWalk /\ WritersHoldLock /\ HoldersAreFresh
    /\ FlushedWalk /\ AuthorizedWalk

\* The inductive invariant
IInv == TypeOK /\ ChainsOK

-----------------------------------------------------------------------------
\* What the graph says

\* No approved edge leaves a terminal status.
LEMMA TerminalHasNoEdge ==
    ASSUME NEW from \in Terminal, NEW to
    PROVE  ~CanTransition(from, to)
<1>1. from \in TaskStatus BY DEF Terminal, TaskStatus
<1>2. WorkEdges[from] = {} BY <1>1 DEF WorkEdges, Terminal
<1>3. AllowedTransitions[from] = {} BY <1>1, <1>2 DEF AllowedTransitions
<1> QED BY <1>3 DEF CanTransition

\* Chains of audit events are sequences of pairs of statuses.
LEMMA Chains ==
    ASSUME NEW chain \in Seq(Edge)
    PROVE  /\ Len(chain) \in Nat
           /\ \A i \in 1 .. Len(chain) : chain[i] \in Edge /\ chain[i][1] \in TaskStatus
                                                           /\ chain[i][2] \in TaskStatus
           /\ chain # <<>> => /\ Len(chain) \in Nat \ {0}
                              /\ Head(chain) = chain[1]
                              /\ Last(chain) = chain[Len(chain)]
                              /\ Last(chain)[2] \in TaskStatus
BY DEF Edge, Last

\* A chain that goes on where another ends makes one chain with it.
LEMMA WalksConcatenate ==
    ASSUME NEW a \in Seq(Edge), NEW b \in Seq(Edge), NEW from,
           Walk(a, from), Walk(b, EndOf(a, from))
    PROVE  /\ Walk(a \o b, from)
           /\ EndOf(a \o b, from) = EndOf(b, EndOf(a, from))
<1> DEFINE c == a \o b
<1>1. /\ c \in Seq(Edge)
      /\ Len(c) = Len(a) + Len(b)
      /\ \A i \in 1 .. Len(a) : c[i] = a[i]
      /\ \A i \in 1 .. Len(b) : c[Len(a) + i] = b[i]
    OBVIOUS
<1>2. Len(a) \in Nat /\ Len(b) \in Nat OBVIOUS
<1>3. Walk(c, from)
    <2> SUFFICES ASSUME NEW i \in 1 .. Len(c)
                 PROVE  /\ c[i][1] = (IF i = 1 THEN from ELSE c[i - 1][2])
                        /\ CanTransition(c[i][1], c[i][2])
        BY DEF Walk
    <2>1. CASE i \in 1 .. Len(a)
        <3>1. c[i] = a[i] BY <1>1, <2>1
        <3>2. i # 1 => c[i - 1] = a[i - 1] BY <1>1, <1>2, <2>1
        <3>3. /\ a[i][1] = (IF i = 1 THEN from ELSE a[i - 1][2])
              /\ CanTransition(a[i][1], a[i][2])
            BY <2>1 DEF Walk
        <3> QED BY <3>1, <3>2, <3>3
    <2>2. CASE i = Len(a) + 1
        <3>1. c[i] = b[1] BY <1>1, <1>2, <2>2
        <3>2. /\ b[1][1] = EndOf(a, from)
              /\ CanTransition(b[1][1], b[1][2])
            BY <1>1, <1>2, <2>2 DEF Walk
        <3>3. EndOf(a, from) = (IF i = 1 THEN from ELSE c[i - 1][2])
            BY <1>1, <1>2, <2>2 DEF EndOf, Last
        <3> QED BY <3>1, <3>2, <3>3
    <2>3. CASE i \notin 1 .. Len(a) /\ i # Len(a) + 1
        <3> DEFINE j == i - Len(a)
        <3>1. j \in 1 .. Len(b) /\ j # 1 /\ j - 1 \in 1 .. Len(b) /\ i # 1
            BY <1>1, <1>2, <2>3
        <3>2. c[i] = b[j] /\ c[i - 1] = b[j - 1]
            <4>1. i = Len(a) + j /\ i - 1 = Len(a) + (j - 1) BY <1>2, <3>1
            <4> HIDE DEF c, j
            <4> QED BY <1>1, <3>1, <4>1
        <3>3. b[j][1] = b[j - 1][2] /\ CanTransition(b[j][1], b[j][2])
            BY <3>1 DEF Walk
        <3> QED BY <3>1, <3>2, <3>3
    <2> QED BY <2>1, <2>2, <2>3
<1>4. EndOf(c, from) = EndOf(b, EndOf(a, from))
    <2>1. CASE b = <<>>
        BY <1>1, <2>1 DEF EndOf
    <2>2. CASE b # <<>>
        <3>1. Len(b) \in 1 .. Len(b) /\ c # <<>> BY <1>1, <1>2, <2>2
        <3>2. Last(c) = Last(b) BY <1>1, <3>1 DEF Last
        <3> QED BY <2>2, <3>1, <3>2 DEF EndOf
    <2> QED BY <2>1, <2>2
<1> QED BY <1>3, <1>4

\* One approved edge from where a chain ends makes it one longer.
LEMMA WalksAppend ==
    ASSUME NEW a \in Seq(Edge), NEW from, NEW e \in Edge,
           Walk(a, from), e[1] = EndOf(a, from), CanTransition(e[1], e[2])
    PROVE  Walk(Append(a, e), from)
<1> DEFINE b == <<e>>
<1>1. b \in Seq(Edge) /\ Len(b) = 1 /\ b[1] = e OBVIOUS
<1>2. Walk(b, EndOf(a, from))
    <2>1. \A i \in 1 .. 1 : i = 1 OBVIOUS
    <2> HIDE DEF b
    <2> QED BY <1>1, <2>1 DEF Walk
<1>3. Append(a, e) = a \o b OBVIOUS
<1> HIDE DEF b
<1> QED BY <1>1, <1>2, <1>3, WalksConcatenate

\* What a session reads is where its flushed chain leads.
LEMMA VisibleIsEnd ==
    ASSUME NEW s, NEW t
    PROVE  Visible(s, t) = EndOf(flushed[s][t], row[t])
BY DEF Visible, EndOf

-----------------------------------------------------------------------------
\* Types, which need no locking discipline

\* A session reads statuses only.
LEMMA VisibleIsStatus ==
    ASSUME TypeOK, NEW s \in Sessions, NEW t \in Tasks
    PROVE  Visible(s, t) \in TaskStatus
BY Chains DEF TypeOK, Visible

\* Every step of a session keeps the types, locked or not.
LEMMA NextKeepsTypes ==
    ASSUME TypeOK, [Next]_vars
    PROVE  TypeOK'
<1> USE GuardAssumption DEF TypeOK
<1>1. <<>> \in Seq(Edge) OBVIOUS
<1>2. [t \in Tasks |-> <<>>] \in [Tasks -> Seq(Edge)] BY <1>1
<1>3. [t \in Tasks |-> NotLoaded] \in [Tasks -> TaskStatus \cup {NotLoaded}] OBVIOUS
<1>4. CASE UNCHANGED vars BY <1>4 DEF vars
<1>5. ASSUME NEW s \in Sessions, NEW t \in Tasks, Get(s, t) \/ GetForUpdate(s, t)
      PROVE  TypeOK'
    <2>1. Visible(s, t) \in TaskStatus BY VisibleIsStatus
    <2>2. CASE Get(s, t) BY <2>1, <2>2 DEF Get
    <2>3. CASE GetForUpdate(s, t) BY <2>1, <2>3 DEF GetForUpdate
    <2> QED BY <1>5, <2>2, <2>3
<1>6. ASSUME NEW s \in Sessions, NEW t \in Tasks, NEW value \in TaskStatus,
             Transition(s, t, value)
      PROVE  TypeOK'
    <2> DEFINE edge == <<memory[s][t], value>>
    <2>1. edge \in Edge /\ auth[s][t] \in Seq(Edge) BY <1>6 DEF Transition, Edge
    <2>2. Append(auth[s][t], edge) \in Seq(Edge) BY <2>1
    <2>3. auth' \in [Sessions -> [Tasks -> Seq(Edge)]] BY <1>6, <2>2 DEF Transition
    <2> HIDE DEF edge
    <2> QED BY <1>6, <2>3 DEF Transition
<1>7. ASSUME NEW s \in Sessions, NEW t \in Tasks, NEW value \in TaskStatus,
             Assign(s, t, value)
      PROVE  TypeOK'
    BY <1>7 DEF Assign
<1>8. ASSUME NEW s \in Sessions, FlushEffect(s)
      PROVE  /\ loaded' \in [Sessions -> [Tasks -> TaskStatus \cup {NotLoaded}]]
             /\ memory' \in [Sessions -> [Tasks -> TaskStatus \cup {NotLoaded}]]
             /\ auth' \in [Sessions -> [Tasks -> Seq(Edge)]]
    BY <1>2, <1>8 DEF FlushEffect
<1>9. \A s \in Sessions, t \in Tasks : flushed[s][t] \o auth[s][t] \in Seq(Edge)
    <2> TAKE s \in Sessions, t \in Tasks
    <2>1. flushed[s][t] \in Seq(Edge) /\ auth[s][t] \in Seq(Edge) OBVIOUS
    <2> QED BY <2>1
<1>10. ASSUME NEW s \in Sessions, Flush(s) PROVE TypeOK'
    <2>1. [t \in Tasks |-> flushed[s][t] \o auth[s][t]] \in [Tasks -> Seq(Edge)] BY <1>9
    <2>2. flushed' \in [Sessions -> [Tasks -> Seq(Edge)]] BY <1>10, <2>1 DEF Flush
    <2> QED BY <1>8, <1>10, <2>2 DEF Flush
<1>11. ASSUME NEW s \in Sessions, Commit(s) PROVE TypeOK'
    <2>1. ASSUME NEW t \in Tasks
          PROVE  (IF Dirty(s, t) THEN memory[s][t] ELSE Visible(s, t)) \in TaskStatus
        <3>1. Dirty(s, t) => Explains(auth[s][t], loaded[s][t], memory[s][t])
            BY <1>11 DEF Commit, FlushEffect, FlushAllowed
        <3>2. Dirty(s, t) => memory[s][t] \in TaskStatus
            <4>1. auth[s][t] \in Seq(Edge) OBVIOUS
            <4> QED BY <3>1, <4>1, Chains DEF Explains
        <3> QED BY <3>2, VisibleIsStatus
    <2>2. row' \in [Tasks -> TaskStatus] BY <1>11, <2>1 DEF Commit
    <2>3. ASSUME NEW t \in Tasks PROVE log[t] \o flushed[s][t] \o auth[s][t] \in Seq(Edge)
        <3>1. \A a, b, c \in Seq(Edge) : a \o b \o c \in Seq(Edge) OBVIOUS
        <3>2. log[t] \in Seq(Edge) /\ flushed[s][t] \in Seq(Edge) /\ auth[s][t] \in Seq(Edge)
            OBVIOUS
        <3> QED BY <3>1, <3>2
    <2>4. log' \in [Tasks -> Seq(Edge)] BY <1>11, <2>3 DEF Commit
    <2>5. flushed' \in [Sessions -> [Tasks -> Seq(Edge)]] BY <1>2, <1>11 DEF Commit
    <2>6. lock' \in [Tasks -> Sessions \cup {NoSession}] BY <1>11 DEF Commit
    <2>7. FlushEffect(s) BY <1>11 DEF Commit
    <2> QED BY <1>8, <2>2, <2>4, <2>5, <2>6, <2>7
<1>12. ASSUME NEW s \in Sessions, Rollback(s) PROVE TypeOK'
    BY <1>2, <1>3, <1>12 DEF Rollback
<1> QED BY <1>4, <1>5, <1>6, <1>7, <1>10, <1>11, <1>12 DEF Next

-----------------------------------------------------------------------------
\* What a flush the guard allows may write

\* A change the guard lets through goes on from the committed status, over
\* approved edges, to the value in memory, under the row lock; and what is not
\* changed is not authorized.
LEMMA AllowedFlushExplained ==
    ASSUME IInv, NEW s \in Sessions, NEW t \in Tasks, FlushAllowed(s)
    PROVE  /\ Dirty(s, t) => lock[t] = s
           /\ ~Dirty(s, t) => auth[s][t] = <<>>
           /\ flushed[s][t] \o auth[s][t] \in Seq(Edge)
           /\ Walk(flushed[s][t] \o auth[s][t], row[t])
           /\ EndOf(flushed[s][t] \o auth[s][t], row[t])
                 = (IF Dirty(s, t) THEN memory[s][t] ELSE Visible(s, t))
           /\ Dirty(s, t) => memory[s][t] \in TaskStatus
<1>1. flushed[s][t] \in Seq(Edge) /\ auth[s][t] \in Seq(Edge)
    BY DEF IInv, TypeOK
<1>2. Walk(flushed[s][t], row[t]) BY DEF IInv, ChainsOK, FlushedWalk
<1>3. CASE Dirty(s, t)
    <2>1. Explains(auth[s][t], loaded[s][t], memory[s][t])
        BY <1>3 DEF FlushAllowed
    <2>2. /\ auth[s][t] # <<>>
          /\ Head(auth[s][t])[1] = loaded[s][t]
          /\ Last(auth[s][t])[2] = memory[s][t]
        BY <2>1 DEF Explains
    <2>3. lock[t] = s BY <2>2 DEF IInv, ChainsOK, WritersHoldLock
    <2>4. loaded[s][t] = EndOf(flushed[s][t], row[t])
        BY <2>3, VisibleIsEnd DEF IInv, ChainsOK, HoldersAreFresh
    <2>5. Walk(auth[s][t], EndOf(flushed[s][t], row[t]))
        BY <2>2, <2>4 DEF IInv, ChainsOK, AuthorizedWalk
    <2>6. EndOf(auth[s][t], EndOf(flushed[s][t], row[t])) = memory[s][t]
        BY <2>2 DEF EndOf
    <2>7. memory[s][t] \in TaskStatus BY <1>1, <2>2, Chains
    <2> QED BY <1>1, <1>2, <1>3, <2>3, <2>5, <2>6, <2>7, WalksConcatenate
<1>4. CASE ~Dirty(s, t)
    <2>1. auth[s][t] = <<>> BY <1>4 DEF FlushAllowed
    <2>2. flushed[s][t] \o auth[s][t] = flushed[s][t] BY <1>1, <2>1
    <2> QED BY <1>1, <1>2, <1>4, <2>1, <2>2, VisibleIsEnd
<1> QED BY <1>3, <1>4

\* A session that does not hold a row's lock writes nothing to it.
LEMMA OthersWriteNothing ==
    ASSUME IInv, NEW s \in Sessions, NEW t \in Tasks, FlushAllowed(s), lock[t] # s
    PROVE  /\ ~Dirty(s, t) /\ Visible(s, t) = row[t]
           /\ flushed[s][t] = <<>> /\ auth[s][t] = <<>>
<1>1. flushed[s][t] = <<>> /\ auth[s][t] = <<>> BY DEF IInv, ChainsOK, WritersHoldLock
<1> QED BY <1>1, AllowedFlushExplained DEF Visible

-----------------------------------------------------------------------------
\* The inductive invariant

\* A new row is at the start of its chain, and no session knows of it.
LEMMA InitEstablishes == Init => IInv
<1> SUFFICES ASSUME Init PROVE IInv OBVIOUS
<1> USE GuardAssumption DEF Init
<1>1. <<>> \in Seq(Edge) /\ Len(<<>>) = 0 OBVIOUS
<1>2. TypeOK BY <1>1 DEF TypeOK, TaskStatus
<1>3. \A from : Walk(<<>>, from) BY <1>1 DEF Walk
<1>4. CommittedWalk BY <1>3 DEF CommittedWalk, EndOf
<1>5. WritersHoldLock BY DEF WritersHoldLock
<1>6. HoldersAreFresh BY DEF HoldersAreFresh
<1>7. FlushedWalk BY <1>3 DEF FlushedWalk
<1>8. AuthorizedWalk BY DEF AuthorizedWalk
<1> QED BY <1>2, <1>4, <1>5, <1>6, <1>7, <1>8 DEF IInv, ChainsOK

\* Reading a row loads what the session may see of it.
LEMMA GetPreserves ==
    ASSUME IInv, NEW s \in Sessions, NEW t \in Tasks, Get(s, t)
    PROVE  ChainsOK'
<1> USE DEF IInv, ChainsOK, Get
<1>1. CommittedWalk' BY DEF CommittedWalk
<1>2. WritersHoldLock' BY DEF WritersHoldLock
<1>3. \A r \in Sessions, u \in Tasks : Visible(r, u)' = Visible(r, u)
    BY DEF Visible
<1>4. \A r \in Sessions, u \in Tasks :
          loaded'[r][u] = (IF r = s /\ u = t THEN Visible(s, t) ELSE loaded[r][u])
    BY DEF TypeOK
<1>5. HoldersAreFresh' BY <1>3, <1>4 DEF HoldersAreFresh
<1>6. FlushedWalk' BY DEF FlushedWalk
<1>7. AuthorizedWalk' BY DEF AuthorizedWalk
<1> QED BY <1>1, <1>2, <1>5, <1>6, <1>7

\* Locking a row re-reads it.
LEMMA GetForUpdatePreserves ==
    ASSUME IInv, NEW s \in Sessions, NEW t \in Tasks, GetForUpdate(s, t)
    PROVE  ChainsOK'
<1> USE GuardAssumption DEF IInv, ChainsOK, GetForUpdate
<1>1. CommittedWalk' BY DEF CommittedWalk
<1>2. \A u \in Tasks : lock'[u] = IF u = t THEN s ELSE lock[u] BY DEF TypeOK
<1>3. WritersHoldLock' BY <1>2 DEF WritersHoldLock, Free
<1>4. \A r \in Sessions, u \in Tasks : Visible(r, u)' = Visible(r, u)
    BY DEF Visible
<1>5. \A r \in Sessions, u \in Tasks :
          loaded'[r][u] = (IF r = s /\ u = t THEN Visible(s, t) ELSE loaded[r][u])
    BY DEF TypeOK
<1>6. HoldersAreFresh' BY <1>2, <1>4, <1>5 DEF HoldersAreFresh
<1>7. FlushedWalk' BY DEF FlushedWalk
<1>8. AuthorizedWalk' BY DEF AuthorizedWalk
<1> QED BY <1>1, <1>3, <1>6, <1>7, <1>8

\* A transition adds one approved edge to the authorization of a locked row.
LEMMA TransitionPreserves ==
    ASSUME IInv, LockFirst, NEW s \in Sessions, NEW t \in Tasks,
           NEW target \in TaskStatus, Transition(s, t, target)
    PROVE  ChainsOK'
<1> USE DEF IInv, ChainsOK, Transition
<1> DEFINE edge == <<memory[s][t], target>>
<1>1. memory[s][t] \in TaskStatus /\ edge \in Edge /\ auth[s][t] \in Seq(Edge)
    BY DEF TypeOK, Edge
<1>2. Append(auth[s][t], edge) \in Seq(Edge) /\ Append(auth[s][t], edge) # <<>>
    BY <1>1
<1>3. \A r \in Sessions, u \in Tasks :
          auth'[r][u] = (IF r = s /\ u = t THEN Append(auth[s][t], edge) ELSE auth[r][u])
    BY DEF TypeOK
<1>4. auth' \in [Sessions -> [Tasks -> Seq(Edge)]]
    BY <1>2 DEF TypeOK
<1>5. CommittedWalk' BY DEF CommittedWalk
<1>6. lock[t] = s BY DEF MayTransition
<1>7. WritersHoldLock' BY <1>3, <1>6 DEF WritersHoldLock
<1>8. HoldersAreFresh' BY DEF HoldersAreFresh, Visible
<1>9. FlushedWalk' BY DEF FlushedWalk
<1>10. Walk(Append(auth[s][t], edge), Head(Append(auth[s][t], edge))[1])
    <2>1. edge[1] = memory[s][t] /\ edge[2] = target OBVIOUS
    <2>2. CanTransition(edge[1], edge[2]) BY <2>1
    <2> HIDE DEF edge
    <2>3. CASE auth[s][t] = <<>>
        <3> DEFINE c == Append(auth[s][t], edge)
        <3>1. Len(c) = 1 /\ c[1] = edge /\ Head(c) = edge BY <1>1, <2>3
        <3>2. \A i \in 1 .. 1 : i = 1 OBVIOUS
        <3> HIDE DEF c
        <3>3. Walk(c, Head(c)[1]) BY <2>2, <3>1, <3>2 DEF Walk
        <3> QED BY <3>3 DEF c
    <2>4. CASE auth[s][t] # <<>>
        <3>1. Walk(auth[s][t], Head(auth[s][t])[1]) BY <2>4 DEF AuthorizedWalk
        <3>2. Head(Append(auth[s][t], edge)) = Head(auth[s][t]) BY <1>1, <2>4
        <3>3. edge[1] = EndOf(auth[s][t], Head(auth[s][t])[1])
            BY <2>1, <2>4 DEF EndOf
        <3> QED BY <1>1, <2>2, <3>1, <3>2, <3>3, WalksAppend
    <2> QED BY <2>3, <2>4
<1> HIDE DEF edge
<1>11. AuthorizedWalk'
    <2> SUFFICES ASSUME NEW r \in Sessions, NEW u \in Tasks, auth'[r][u] # <<>>
                 PROVE  Walk(auth'[r][u], Head(auth'[r][u])[1])
        BY DEF AuthorizedWalk
    <2>1. CASE r = s /\ u = t
        <3>1. auth'[r][u] = Append(auth[s][t], edge) BY <1>3, <2>1
        <3> QED BY <1>10, <3>1
    <2>2. CASE ~(r = s /\ u = t)
        <3>1. auth'[r][u] = auth[r][u] BY <1>3, <2>2
        <3> QED BY <3>1 DEF AuthorizedWalk
    <2> QED BY <2>1, <2>2
<1> QED BY <1>5, <1>7, <1>8, <1>9, <1>11

\* Assigning the attribute changes memory only.
LEMMA AssignPreserves ==
    ASSUME IInv, NEW s \in Sessions, NEW t \in Tasks, NEW value \in TaskStatus,
           Assign(s, t, value)
    PROVE  ChainsOK'
<1> USE DEF IInv, ChainsOK, Assign
<1>1. CommittedWalk' BY DEF CommittedWalk
<1>2. WritersHoldLock' BY DEF WritersHoldLock
<1>3. HoldersAreFresh' BY DEF HoldersAreFresh, Visible
<1>4. FlushedWalk' BY DEF FlushedWalk
<1>5. AuthorizedWalk' BY DEF AuthorizedWalk
<1> QED BY <1>1, <1>2, <1>3, <1>4, <1>5

\* What an accepted flush does to the session: the authorizations are used up,
\* and what is in memory counts as loaded.
LEMMA FlushEffectFrame ==
    ASSUME IInv, NEW s \in Sessions, FlushEffect(s)
    PROVE  /\ \A r \in Sessions, t \in Tasks :
                 loaded'[r][t] = (IF r = s THEN memory[s][t] ELSE loaded[r][t])
           /\ \A r \in Sessions, t \in Tasks :
                 auth'[r][t] = (IF r = s THEN <<>> ELSE auth[r][t])
           /\ loaded' \in [Sessions -> [Tasks -> TaskStatus \cup {NotLoaded}]]
           /\ memory' \in [Sessions -> [Tasks -> TaskStatus \cup {NotLoaded}]]
           /\ auth' \in [Sessions -> [Tasks -> Seq(Edge)]]
<1> USE DEF IInv, TypeOK, FlushEffect
<1>1. <<>> \in Seq(Edge) OBVIOUS
<1>2. [t \in Tasks |-> <<>>] \in [Tasks -> Seq(Edge)] BY <1>1
<1>3. auth' \in [Sessions -> [Tasks -> Seq(Edge)]] BY <1>2
<1>4. loaded' \in [Sessions -> [Tasks -> TaskStatus \cup {NotLoaded}]] OBVIOUS
<1>5. \A r \in Sessions, t \in Tasks :
          loaded'[r][t] = (IF r = s THEN memory[s][t] ELSE loaded[r][t])
    OBVIOUS
<1>6. \A r \in Sessions, t \in Tasks :
          auth'[r][t] = (IF r = s THEN <<>> ELSE auth[r][t])
    OBVIOUS
<1> QED BY <1>3, <1>4, <1>5, <1>6

\* A flush moves the authorized chain behind what was flushed before.
LEMMA FlushPreserves ==
    ASSUME IInv, NEW s \in Sessions, Flush(s)
    PROVE  ChainsOK'
<1> USE GuardAssumption DEF IInv, ChainsOK
<1> DEFINE chain(t) == flushed[s][t] \o auth[s][t]
<1>1. FlushEffect(s) /\ FlushAllowed(s) /\ UNCHANGED <<row, log>>
    BY DEF Flush, FlushEffect
<1>2. \A t \in Tasks :
          /\ chain(t) \in Seq(Edge)
          /\ Walk(chain(t), row[t])
          /\ EndOf(chain(t), row[t]) = (IF Dirty(s, t) THEN memory[s][t] ELSE Visible(s, t))
          /\ Dirty(s, t) => lock[t] = s
          /\ lock[t] # s => chain(t) = <<>>
    <2> TAKE t \in Tasks
    <2>1. lock[t] # s => chain(t) = <<>> BY <1>1, OthersWriteNothing
    <2> QED BY <1>1, <2>1, AllowedFlushExplained
<1>3. lock' = lock
    <2>1. \A t \in Tasks : lock'[t] = lock[t] BY <1>2 DEF Flush
    <2>2. lock' = [t \in Tasks |-> lock[t]] BY <1>2 DEF Flush
    <2> QED BY <2>2 DEF TypeOK
<1>4. /\ \A r \in Sessions, t \in Tasks :
             flushed'[r][t] = (IF r = s THEN chain(t) ELSE flushed[r][t])
      /\ flushed' \in [Sessions -> [Tasks -> Seq(Edge)]]
    <2>1. flushed' = [flushed EXCEPT ![s] = [t \in Tasks |-> chain(t)]]
        BY DEF Flush, TypeOK
    <2>2. [t \in Tasks |-> chain(t)] \in [Tasks -> Seq(Edge)] BY <1>2
    <2> HIDE DEF chain
    <2> QED BY <2>1, <2>2 DEF TypeOK
<1> HIDE DEF chain
<1>5. CommittedWalk' BY <1>1 DEF CommittedWalk
<1>6. WritersHoldLock'
    <2> SUFFICES ASSUME NEW r \in Sessions, NEW t \in Tasks,
                        auth'[r][t] # <<>> \/ flushed'[r][t] # <<>>
                 PROVE  lock[t] = r
        BY <1>3 DEF WritersHoldLock
    <2>1. CASE r = s
        <3>1. auth'[r][t] = <<>> BY <1>1, <2>1, FlushEffectFrame
        <3>2. chain(t) # <<>> BY <1>4, <2>1, <3>1
        <3> QED BY <1>2, <2>1, <3>2
    <2>2. CASE r # s
        <3>1. auth'[r][t] = auth[r][t] BY <1>1, <2>2, FlushEffectFrame
        <3>2. flushed'[r][t] = flushed[r][t] BY <1>4, <2>2
        <3> QED BY <3>1, <3>2 DEF WritersHoldLock
    <2> QED BY <2>1, <2>2
<1>7. HoldersAreFresh'
    <2> SUFFICES ASSUME NEW r \in Sessions, NEW t \in Tasks, lock[t] = r
                 PROVE  loaded'[r][t] = Visible(r, t)'
        BY <1>3 DEF HoldersAreFresh
    <2>1. Visible(r, t)' = EndOf(flushed'[r][t], row[t]) BY <1>1 DEF Visible, EndOf
    <2>2. CASE r # s
        <3>1. loaded[r][t] = EndOf(flushed[r][t], row[t])
            BY VisibleIsEnd DEF HoldersAreFresh
        <3>2. loaded'[r][t] = loaded[r][t] BY <1>1, <2>2, FlushEffectFrame
        <3> QED BY <1>4, <2>1, <2>2, <3>1, <3>2
    <2>3. CASE r = s
        <3>1. Visible(s, t)' = (IF Dirty(s, t) THEN memory[s][t] ELSE Visible(s, t))
            BY <1>2, <1>4, <2>1, <2>3
        <3>2. loaded[s][t] = Visible(s, t) BY <2>3 DEF HoldersAreFresh
        <3>3. loaded'[s][t] = memory[s][t] BY <1>1, FlushEffectFrame
        <3> QED BY <2>3, <3>1, <3>2, <3>3 DEF Dirty
    <2> QED BY <2>2, <2>3
<1>8. FlushedWalk'
    <2> SUFFICES ASSUME NEW r \in Sessions, NEW t \in Tasks
                 PROVE  Walk(flushed'[r][t], row[t])
        BY <1>1 DEF FlushedWalk
    <2>1. CASE r = s
        <3>1. flushed'[r][t] = chain(t) BY <1>4, <2>1
        <3> QED BY <1>2, <3>1
    <2>2. CASE r # s
        <3>1. flushed'[r][t] = flushed[r][t] BY <1>4, <2>2
        <3> QED BY <3>1 DEF FlushedWalk
    <2> QED BY <2>1, <2>2
<1>9. AuthorizedWalk'
    <2> SUFFICES ASSUME NEW r \in Sessions, NEW t \in Tasks, auth'[r][t] # <<>>
                 PROVE  Walk(auth'[r][t], Head(auth'[r][t])[1])
        BY DEF AuthorizedWalk
    <2>1. auth'[r][t] = auth[r][t] BY <1>1, FlushEffectFrame
    <2> QED BY <2>1 DEF AuthorizedWalk
<1> QED BY <1>5, <1>6, <1>7, <1>8, <1>9

\* A commit appends the session's chains to the log, and its row changes are
\* where those chains lead.
LEMMA CommitWrites ==
    ASSUME IInv, NEW s \in Sessions, Commit(s), NEW t \in Tasks
    PROVE  LET chain == flushed[s][t] \o auth[s][t]
           IN  /\ chain \in Seq(Edge)
               /\ Walk(chain, row[t])
               /\ row'[t] = EndOf(chain, row[t])
               /\ row'[t] \in TaskStatus
               /\ log'[t] = log[t] \o chain
               /\ lock[t] # s => chain = <<>>
<1> DEFINE chain == flushed[s][t] \o auth[s][t]
<1>1. FlushAllowed(s) BY DEF Commit, FlushEffect
<1>2. /\ flushed[s][t] \in Seq(Edge) /\ auth[s][t] \in Seq(Edge)
      /\ log[t] \in Seq(Edge) /\ row[t] \in TaskStatus
    BY DEF IInv, TypeOK
<1>3. /\ chain \in Seq(Edge)
      /\ Walk(chain, row[t])
      /\ EndOf(chain, row[t]) = (IF Dirty(s, t) THEN memory[s][t] ELSE Visible(s, t))
    BY <1>1, AllowedFlushExplained
<1>4. row'[t] = EndOf(chain, row[t]) BY <1>3 DEF Commit
<1>5. log'[t] = log[t] \o flushed[s][t] \o auth[s][t] BY DEF Commit
<1>6. log'[t] = log[t] \o chain
    <2>1. \A a, b, c \in Seq(Edge) : (a \o b) \o c = a \o (b \o c)
        BY ConcatAssociative
    <2> QED BY <1>2, <1>5, <2>1, Zenon
<1>7. lock[t] # s => chain = <<>> BY <1>1, OthersWriteNothing
<1> HIDE DEF chain
<1>8. EndOf(chain, row[t]) \in TaskStatus BY <1>2, <1>3, Chains DEF EndOf
<1> QED BY <1>3, <1>4, <1>6, <1>7, <1>8 DEF chain

\* A commit keeps the invariant, for the others too: their rows it left alone.
LEMMA CommitPreserves ==
    ASSUME IInv, NEW s \in Sessions, Commit(s)
    PROVE  ChainsOK'
<1> USE GuardAssumption DEF IInv, ChainsOK
<1> DEFINE chain(t) == flushed[s][t] \o auth[s][t]
<1>1. \A t \in Tasks :
          /\ chain(t) \in Seq(Edge)
          /\ Walk(chain(t), row[t])
          /\ row'[t] = EndOf(chain(t), row[t])
          /\ row'[t] \in TaskStatus
          /\ log'[t] = log[t] \o chain(t)
          /\ lock[t] # s => chain(t) = <<>>
    BY CommitWrites
<1> HIDE DEF chain
<1>2. FlushEffect(s) BY DEF Commit
<1>3. /\ \A r \in Sessions, t \in Tasks :
             flushed'[r][t] = (IF r = s THEN <<>> ELSE flushed[r][t])
      /\ flushed' \in [Sessions -> [Tasks -> Seq(Edge)]]
    <2>1. <<>> \in Seq(Edge) OBVIOUS
    <2>2. [t \in Tasks |-> <<>>] \in [Tasks -> Seq(Edge)] BY <2>1
    <2>3. flushed' = [flushed EXCEPT ![s] = [t \in Tasks |-> <<>>]] BY DEF Commit
    <2> QED BY <2>2, <2>3 DEF TypeOK
<1>4. \A t \in Tasks : lock'[t] = IF lock[t] = s THEN NoSession ELSE lock[t]
    BY DEF Commit
<1>5. \A t \in Tasks : log[t] \in Seq(Edge) BY DEF TypeOK
<1>6. CommittedWalk'
    <2> SUFFICES ASSUME NEW t \in Tasks
                 PROVE  Walk(log'[t], "BACKLOG") /\ row'[t] = EndOf(log'[t], "BACKLOG")
        BY DEF CommittedWalk, Walk, EndOf
    <2>1. Walk(log[t], "BACKLOG") /\ row[t] = EndOf(log[t], "BACKLOG")
        BY DEF CommittedWalk
    <2>2. Walk(chain(t), EndOf(log[t], "BACKLOG")) BY <1>1, <2>1
    <2>3. log[t] \in Seq(Edge) /\ chain(t) \in Seq(Edge) BY <1>1, <1>5
    <2>4. /\ Walk(log[t] \o chain(t), "BACKLOG")
          /\ EndOf(log[t] \o chain(t), "BACKLOG") = EndOf(chain(t), EndOf(log[t], "BACKLOG"))
        BY <2>1, <2>2, <2>3, WalksConcatenate
    <2> QED BY <1>1, <2>1, <2>4
<1>7. WritersHoldLock'
    <2> SUFFICES ASSUME NEW r \in Sessions, NEW t \in Tasks,
                        auth'[r][t] # <<>> \/ flushed'[r][t] # <<>>
                 PROVE  lock'[t] = r
        BY DEF WritersHoldLock
    <2>1. r # s BY <1>2, <1>3, FlushEffectFrame
    <2>2. auth[r][t] # <<>> \/ flushed[r][t] # <<>>
        BY <1>2, <1>3, <2>1, FlushEffectFrame
    <2>3. lock[t] = r BY <2>2 DEF WritersHoldLock
    <2> QED BY <1>4, <2>1, <2>3
<1>8. \A r \in Sessions, t \in Tasks : lock[t] = r /\ r # s => row'[t] = row[t]
    BY <1>1 DEF EndOf
<1>9. HoldersAreFresh'
    <2> SUFFICES ASSUME NEW r \in Sessions, NEW t \in Tasks, lock'[t] = r
                 PROVE  loaded'[r][t] = Visible(r, t)'
        BY DEF HoldersAreFresh
    <2>1. lock[t] = r /\ r # s BY <1>4
    <2>2. Visible(r, t)' = Visible(r, t) BY <1>3, <1>8, <2>1 DEF Visible
    <2>3. loaded'[r][t] = loaded[r][t] BY <1>2, <2>1, FlushEffectFrame
    <2>4. loaded[r][t] = Visible(r, t) BY <2>1 DEF HoldersAreFresh
    <2> QED BY <2>2, <2>3, <2>4
<1>10. FlushedWalk'
    <2> SUFFICES ASSUME NEW r \in Sessions, NEW t \in Tasks
                 PROVE  Walk(flushed'[r][t], row'[t])
        BY DEF FlushedWalk, Walk
    <2>1. CASE flushed'[r][t] = <<>> BY <2>1 DEF Walk
    <2>2. CASE flushed'[r][t] # <<>>
        <3>1. r # s /\ flushed'[r][t] = flushed[r][t] BY <1>3, <2>2
        <3>2. lock[t] = r BY <2>2, <3>1 DEF WritersHoldLock
        <3> QED BY <1>8, <3>1, <3>2 DEF FlushedWalk
    <2> QED BY <2>1, <2>2
<1>11. AuthorizedWalk'
    <2> SUFFICES ASSUME NEW r \in Sessions, NEW t \in Tasks, auth'[r][t] # <<>>
                 PROVE  Walk(auth'[r][t], Head(auth'[r][t])[1])
        BY DEF AuthorizedWalk, Walk
    <2>1. r # s /\ auth'[r][t] = auth[r][t] BY <1>2, FlushEffectFrame
    <2> QED BY <2>1 DEF AuthorizedWalk
<1> QED BY <1>6, <1>7, <1>9, <1>10, <1>11

\* A rollback forgets all the session had, and lets its locks go.
LEMMA RollbackPreserves ==
    ASSUME IInv, NEW s \in Sessions, Rollback(s)
    PROVE  ChainsOK'
<1> USE GuardAssumption DEF IInv, ChainsOK, Rollback
<1>1. <<>> \in Seq(Edge) OBVIOUS
<1>2. /\ \A r \in Sessions, t \in Tasks :
             flushed'[r][t] = (IF r = s THEN <<>> ELSE flushed[r][t])
      /\ \A r \in Sessions, t \in Tasks :
             auth'[r][t] = (IF r = s THEN <<>> ELSE auth[r][t])
      /\ \A r \in Sessions, t \in Tasks :
             loaded'[r][t] = (IF r = s THEN NotLoaded ELSE loaded[r][t])
      /\ \A t \in Tasks : lock'[t] = IF lock[t] = s THEN NoSession ELSE lock[t]
    BY DEF TypeOK
<1>3. CommittedWalk' BY DEF CommittedWalk
<1>4. WritersHoldLock' BY <1>2 DEF WritersHoldLock
<1>5. HoldersAreFresh' BY <1>2 DEF HoldersAreFresh, Visible
<1>6. FlushedWalk'
    <2>1. \A from : Walk(<<>>, from) BY DEF Walk
    <2> QED BY <1>2, <2>1 DEF FlushedWalk
<1>7. AuthorizedWalk' BY <1>2 DEF AuthorizedWalk
<1> QED BY <1>3, <1>4, <1>5, <1>6, <1>7

\* Every step of a session that locks first keeps the invariant.
LEMMA NextPreserves ==
    ASSUME IInv, LockFirst, [Next]_vars
    PROVE  IInv'
<1>1. TypeOK' BY NextKeepsTypes DEF IInv
<1>2. CASE UNCHANGED vars
    <2> USE <1>2 DEF vars, IInv, ChainsOK
    <2>1. \A s \in Sessions, t \in Tasks : Visible(s, t)' = Visible(s, t) BY DEF Visible
    <2>2. CommittedWalk' BY DEF CommittedWalk
    <2>3. WritersHoldLock' BY DEF WritersHoldLock
    <2>4. HoldersAreFresh' BY <2>1 DEF HoldersAreFresh
    <2>5. FlushedWalk' BY DEF FlushedWalk
    <2>6. AuthorizedWalk' BY DEF AuthorizedWalk
    <2> QED BY <1>1, <2>2, <2>3, <2>4, <2>5, <2>6
<1>3. CASE Next
    <2> PICK s \in Sessions :
            \/ \E t \in Tasks :
                  \/ Get(s, t)
                  \/ GetForUpdate(s, t)
                  \/ \E value \in TaskStatus : Transition(s, t, value) \/ Assign(s, t, value)
            \/ Flush(s)
            \/ Commit(s)
            \/ Rollback(s)
        BY <1>3 DEF Next
    <2>1. ChainsOK'
        BY GetPreserves, GetForUpdatePreserves, TransitionPreserves, AssignPreserves,
           FlushPreserves, CommitPreserves, RollbackPreserves
    <2> QED BY <1>1, <2>1 DEF IInv
<1> QED BY <1>2, <1>3

\* No step of a session takes a committed status out of the terminal ones.
LEMMA NextKeepsTerminal ==
    ASSUME IInv, [Next]_vars, NEW t \in Tasks, row[t] \in Terminal
    PROVE  row'[t] = row[t]
<1>1. CASE row' = row BY <1>1
<1>2. CASE \E s \in Sessions : Commit(s)
    <2> PICK s \in Sessions : Commit(s) BY <1>2
    <2> DEFINE chain == flushed[s][t] \o auth[s][t]
    <2>1. chain \in Seq(Edge) /\ Walk(chain, row[t]) /\ row'[t] = EndOf(chain, row[t])
        BY CommitWrites
    <2> HIDE DEF chain
    <2>2. chain = <<>>
        <3> SUFFICES ASSUME chain # <<>> PROVE FALSE OBVIOUS
        <3>1. 1 \in 1 .. Len(chain) BY <2>1
        <3>2. chain[1][1] = row[t] /\ CanTransition(chain[1][1], chain[1][2])
            BY <2>1, <3>1 DEF Walk
        <3> QED BY <3>2, TerminalHasNoEdge
    <2> QED BY <2>1, <2>2 DEF EndOf
<1>3. ASSUME NEW s \in Sessions,
             \/ \E u \in Tasks :
                   \/ Get(s, u)
                   \/ GetForUpdate(s, u)
                   \/ \E value \in TaskStatus : Transition(s, u, value) \/ Assign(s, u, value)
             \/ Flush(s)
             \/ Rollback(s)
      PROVE  row' = row
    <2>1. ASSUME NEW u \in Tasks, Get(s, u) \/ GetForUpdate(s, u) PROVE row' = row
        BY <2>1 DEF Get, GetForUpdate
    <2>2. ASSUME NEW u \in Tasks, NEW value \in TaskStatus,
                 Transition(s, u, value) \/ Assign(s, u, value)
          PROVE  row' = row
        BY <2>2 DEF Transition, Assign
    <2>3. CASE Flush(s) \/ Rollback(s) BY <2>3 DEF Flush, Rollback
    <2> QED BY <1>3, <2>1, <2>2, <2>3
<1>4. CASE UNCHANGED vars BY <1>1, <1>4 DEF vars
<1> QED BY <1>1, <1>2, <1>3, <1>4 DEF Next

-----------------------------------------------------------------------------
\* The row lock the workflow checkpoints take first (FOR UPDATE with
\* populate_existing) makes the invariant hold at every step.
THEOREM InductiveInvariant == LockFirst /\ Spec => []IInv
<1>1. Init => IInv BY InitEstablishes
<1>2. LockFirst /\ IInv /\ [Next]_vars => IInv' BY NextPreserves
<1>3. CASE LockFirst
    <2>1. IInv /\ [Next]_vars => IInv' BY <1>2, <1>3
    <2> QED BY <1>1, <2>1, PTL DEF Spec
<1>4. CASE ~LockFirst BY <1>4
<1> QED BY <1>3, <1>4

\* Every value of the guard's state has its type, whether callers lock or not.
THEOREM TypeCorrectness == Spec => []TypeOK
<1>1. Init => TypeOK BY InitEstablishes DEF IInv
<1>2. TypeOK /\ [Next]_vars => TypeOK' BY NextKeepsTypes
<1> QED BY <1>1, <1>2, PTL DEF Spec

\* A chain that is a walk visits, step by step, what it says it does.
LEMMA WalkIsVisited ==
    ASSUME NEW chain \in Seq(Edge), NEW from, Walk(chain, from)
    PROVE  LET visited == <<from>> \o [i \in 1 .. Len(chain) |-> chain[i][2]]
           IN  /\ \A i \in 1 .. Len(chain) :
                     chain[i][1] = visited[i] /\ CanTransition(visited[i], visited[i + 1])
               /\ EndOf(chain, from) = Last(visited)
<1> DEFINE targets == [i \in 1 .. Len(chain) |-> chain[i][2]]
           visited == <<from>> \o targets
<1>1. Len(chain) \in Nat OBVIOUS
<1>2. /\ targets \in Seq(TaskStatus) /\ Len(targets) = Len(chain)
      /\ \A i \in 1 .. Len(chain) : targets[i] = chain[i][2]
    <2>1. \A i \in 1 .. Len(chain) : chain[i][2] \in TaskStatus BY Chains
    <2>2. targets \in [1 .. Len(chain) -> TaskStatus] BY <2>1
    <2> QED BY <1>1, <2>2
<1> HIDE DEF targets
<1>3. /\ Len(visited) = Len(chain) + 1
      /\ visited[1] = from
      /\ \A i \in 1 .. Len(chain) : visited[i + 1] = chain[i][2]
    <2>1. /\ Len(visited) = 1 + Len(targets) /\ visited[1] = from
          /\ \A i \in 1 .. Len(targets) : visited[1 + i] = targets[i]
        BY <1>2
    <2>2. \A i \in 1 .. Len(chain) : i + 1 = 1 + i BY <1>1
    <2> HIDE DEF visited
    <2> QED BY <1>1, <1>2, <2>1, <2>2
<1> HIDE DEF visited
<1>4. ASSUME NEW i \in 1 .. Len(chain)
      PROVE  chain[i][1] = visited[i] /\ CanTransition(visited[i], visited[i + 1])
    <2>1. i # 1 => i - 1 \in 1 .. Len(chain) /\ (i - 1) + 1 = i BY <1>1
    <2>2. visited[i] = (IF i = 1 THEN from ELSE chain[i - 1][2]) BY <1>3, <2>1
    <2> QED BY <1>3, <2>2 DEF Walk
<1>5. EndOf(chain, from) = Last(visited)
    <2>1. CASE chain = <<>> BY <1>3, <2>1 DEF EndOf, Last
    <2>2. CASE chain # <<>>
        <3>1. Len(chain) \in 1 .. Len(chain) BY <2>2
        <3> QED BY <1>3, <2>2, <3>1 DEF EndOf, Last
    <2> QED BY <2>1, <2>2
<1> QED BY <1>4, <1>5 DEF visited, targets

\* No write bypasses the state machine and none overwrites another's: the
\* audit events of a task lead from BACKLOG, edge by approved edge, to its
\* status.
THEOREM AuditExplains == LockFirst /\ Spec => []AuditTrailExplainsStatus
<1>1. ASSUME IInv PROVE AuditTrailExplainsStatus
    <2> SUFFICES ASSUME NEW t \in Tasks
                 PROVE  LET visited == <<"BACKLOG">> \o [i \in 1 .. Len(log[t]) |-> log[t][i][2]]
                        IN  /\ \A i \in 1 .. Len(log[t]) :
                                  /\ log[t][i][1] = visited[i]
                                  /\ CanTransition(visited[i], visited[i + 1])
                            /\ row[t] = Last(visited)
        BY DEF AuditTrailExplainsStatus
    <2>1. log[t] \in Seq(Edge) /\ Walk(log[t], "BACKLOG") /\ row[t] = EndOf(log[t], "BACKLOG")
        BY <1>1 DEF IInv, ChainsOK, TypeOK, CommittedWalk
    <2> QED BY <2>1, WalkIsVisited
<1> QED BY <1>1, InductiveInvariant, PTL

\* COMPLETED and CANCELLED are final: no interleaving of sessions that lock
\* first commits anything after them.
THEOREM TerminalHolds == LockFirst /\ Spec => TerminalIsFinal
<1>1. IInv /\ [Next]_vars => [\A t \in Tasks : row[t] \in Terminal => row'[t] = row[t]]_vars
    BY NextKeepsTerminal
<1> QED BY <1>1, InductiveInvariant, PTL DEF Spec, TerminalIsFinal

=============================================================================
