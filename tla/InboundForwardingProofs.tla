---------------------- MODULE InboundForwardingProofs ----------------------
(***************************************************************************)
(* Proofs about module InboundForwarding, for any number of invocations,   *)
(* targets and failures and any threshold of staleness.                    *)
(***************************************************************************)
EXTENDS InboundForwarding, TLAPS

\* The constants are numbers.
LEMMA Numbers ==
  /\ NumTargets \in Nat \ {0} /\ StaleAfter \in Nat /\ MaxTime \in Nat /\ MaxFailures \in Nat
  /\ Targets \in SUBSET Nat
  /\ 1 \in Targets
BY ForwardingAssumption DEF Targets

\* The first of the claimed targets is unique.
LEMMA FirstIsUnique ==
  ASSUME TypeOK, NEW w \in Workers, NEW t \in Targets, NEW u \in Targets,
         First(w, t), First(w, u)
  PROVE  t = u
BY DEF First, TypeOK, Targets

\* Leaving resets the locals to values of their types.
LEMMA LeaveType ==
  ASSUME TypeOK, NEW w \in Workers, Leave(w)
  PROVE  /\ pc' \in [Workers -> Stages]
         /\ started' \in [Workers -> 0..MaxTime]
         /\ at' \in [Workers -> 1..(NumTargets + 1)]
         /\ \A v \in Workers : pc'[v] \in {"idle", "ensure", "claim", "check"} => at'[v] \in Targets
         /\ mine' \in [Workers -> SUBSET Targets]
         /\ accepted' \in [Workers -> BOOLEAN]
         /\ troubled' \in [Workers -> BOOLEAN]
BY Numbers DEF TypeOK, Leave, Goto, Stages

\* The claim loop stays within the configured targets.
LEMMA NextTargetType ==
  ASSUME TypeOK, NEW w \in Workers, pc[w] \in {"claim", "check"}, NextTarget(w)
  PROVE  /\ pc' \in [Workers -> Stages]
         /\ at' \in [Workers -> 1..(NumTargets + 1)]
         /\ \A v \in Workers : pc'[v] \in {"idle", "ensure", "claim", "check"} => at'[v] \in Targets
<1>1. at[w] \in 1..NumTargets
  BY DEF TypeOK, Targets
<1>2. at[w] + 1 \in 1..(NumTargets + 1)
  BY <1>1, Numbers
<1>3. at' \in [Workers -> 1..(NumTargets + 1)]
  BY <1>2 DEF TypeOK, NextTarget
<1>4. pc' \in [Workers -> Stages]
  BY DEF TypeOK, NextTarget, Goto, Stages
<1>5. ASSUME NEW v \in Workers, pc'[v] \in {"idle", "ensure", "claim", "check"}
      PROVE  at'[v] \in Targets
  <2>1. CASE v = w
    BY <1>1, <1>5, <2>1, Numbers DEF TypeOK, NextTarget, Goto, Targets
  <2>2. CASE v # w
    BY <1>5, <2>2 DEF TypeOK, NextTarget, Goto
  <2>. QED
    BY <2>1, <2>2
<1>. QED
  BY <1>3, <1>4, <1>5

\* Every step preserves the types.
LEMMA TypeStep == TypeOK /\ [Next]_vars => TypeOK'
<1> SUFFICES ASSUME TypeOK, [Next]_vars
             PROVE  TypeOK'
  OBVIOUS
<1>. USE Numbers
<1>1. ASSUME NEW w \in Workers, Arrive(w)
      PROVE  TypeOK'
  <2>1. pc' \in [Workers -> Stages] /\ started' \in [Workers -> 0..MaxTime]
    BY <1>1 DEF TypeOK, Arrive, Goto, Stages
  <2>2. \A v \in Workers : pc'[v] \in {"idle", "ensure", "claim", "check"} => at'[v] \in Targets
    BY <1>1 DEF TypeOK, Arrive, Goto
  <2>. QED
    BY <1>1, <2>1, <2>2 DEF TypeOK, Arrive, history
<1>2. ASSUME NEW w \in Workers, EnsureAttemptRows(w)
      PROVE  TypeOK'
  <2>1. attempt' \in [Targets -> [status : Statuses, at : 0..MaxTime]]
    BY <1>2 DEF TypeOK, EnsureAttemptRows, Statuses
  <2>2. pc' \in [Workers -> Stages]
    BY <1>2 DEF TypeOK, EnsureAttemptRows, Goto, Stages
  <2>3. \A v \in Workers : pc'[v] \in {"idle", "ensure", "claim", "check"} => at'[v] \in Targets
    BY <1>2 DEF TypeOK, EnsureAttemptRows, Goto
  <2>. QED
    BY <1>2, <2>1, <2>2, <2>3 DEF TypeOK, EnsureAttemptRows, history
<1>3. ASSUME NEW w \in Workers, ClaimTarget(w)
      PROVE  TypeOK'
  <2>1. at[w] \in Targets /\ started[w] \in 0..MaxTime
    BY <1>3 DEF TypeOK, ClaimTarget
  <2>2. attempt' \in [Targets -> [status : Statuses, at : 0..MaxTime]]
    BY <1>3, <2>1 DEF TypeOK, ClaimTarget, Statuses
  <2>3. mine' \in [Workers -> SUBSET Targets] /\ takenOver' \subseteq Targets
    BY <1>3, <2>1 DEF TypeOK, ClaimTarget
  <2>. QED
    BY <1>3, <2>2, <2>3, NextTargetType DEF TypeOK, ClaimTarget
<1>4. ASSUME NEW w \in Workers, MissTarget(w)
      PROVE  TypeOK'
  <2>1. pc' \in [Workers -> Stages]
    BY <1>4 DEF TypeOK, MissTarget, Goto, Stages
  <2>2. \A v \in Workers : pc'[v] \in {"idle", "ensure", "claim", "check"} => at'[v] \in Targets
    BY <1>4 DEF TypeOK, MissTarget, Goto
  <2>. QED
    BY <1>4, <2>1, <2>2 DEF TypeOK, MissTarget, history
<1>5. ASSUME NEW w \in Workers, AttemptStatus(w)
      PROVE  TypeOK'
  <2>1. accepted' \in [Workers -> BOOLEAN] /\ troubled' \in [Workers -> BOOLEAN]
    BY <1>5 DEF TypeOK, AttemptStatus
  <2>. QED
    BY <1>5, <2>1, NextTargetType DEF TypeOK, AttemptStatus, history
<1>6. ASSUME NEW w \in Workers, ForwardReturns(w)
      PROVE  TypeOK'
  <2>1. pc' \in [Workers -> Stages] /\ accepted' \in [Workers -> BOOLEAN]
    BY <1>6 DEF TypeOK, ForwardReturns, Goto, Stages
  <2>2. copied' \subseteq Targets /\ again' \subseteq copied'
    BY <1>6 DEF TypeOK, ForwardReturns
  <2>3. \A v \in Workers : pc'[v] \in {"idle", "ensure", "claim", "check"} => at'[v] \in Targets
    BY <1>6 DEF TypeOK, ForwardReturns, Goto
  <2>. QED
    BY <1>6, <2>1, <2>2, <2>3 DEF TypeOK, ForwardReturns
<1>7. ASSUME NEW w \in Workers, ForwardThrows(w)
      PROVE  TypeOK'
  <2>1. pc' \in [Workers -> Stages] /\ troubled' \in [Workers -> BOOLEAN]
    BY <1>7 DEF TypeOK, ForwardThrows, Goto, Stages
  <2>2. \A v \in Workers : pc'[v] \in {"idle", "ensure", "claim", "check"} => at'[v] \in Targets
    BY <1>7 DEF TypeOK, ForwardThrows, Goto
  <2>. QED
    BY <1>7, <2>1, <2>2 DEF TypeOK, ForwardThrows, history
<1>8. ASSUME NEW w \in Workers, MarkForwardAccepted(w)
      PROVE  TypeOK'
  <2>1. pc' \in [Workers -> Stages] /\ mine' \in [Workers -> SUBSET Targets]
    BY <1>8 DEF TypeOK, MarkForwardAccepted, Goto, Drop, Stages
  <2>2. attempt' \in [Targets -> [status : Statuses, at : 0..MaxTime]]
    BY <1>8 DEF TypeOK, MarkForwardAccepted, Statuses
  <2>3. \A v \in Workers : pc'[v] \in {"idle", "ensure", "claim", "check"} => at'[v] \in Targets
    BY <1>8 DEF TypeOK, MarkForwardAccepted, Goto
  <2>. QED
    BY <1>8, <2>1, <2>2, <2>3 DEF TypeOK, MarkForwardAccepted, history
<1>9. ASSUME NEW w \in Workers, MarkThrows(w)
      PROVE  TypeOK'
  <2>1. pc' \in [Workers -> Stages] /\ troubled' \in [Workers -> BOOLEAN]
    BY <1>9 DEF TypeOK, MarkThrows, Goto, Stages
  <2>2. attempt' \in [Targets -> [status : Statuses, at : 0..MaxTime]] /\ lost' \subseteq Targets
    BY <1>9 DEF TypeOK, MarkThrows, Statuses
  <2>3. \A v \in Workers : pc'[v] \in {"idle", "ensure", "claim", "check"} => at'[v] \in Targets
    BY <1>9 DEF TypeOK, MarkThrows, Goto
  <2>. QED
    BY <1>9, <2>1, <2>2, <2>3 DEF TypeOK, MarkThrows
<1>10. ASSUME NEW w \in Workers, MarkFailed(w)
       PROVE  TypeOK'
  <2>1. pc' \in [Workers -> Stages] /\ mine' \in [Workers -> SUBSET Targets]
    BY <1>10 DEF TypeOK, MarkFailed, Goto, Drop, Stages
  <2>2. attempt' \in [Targets -> [status : Statuses, at : 0..MaxTime]]
    BY <1>10 DEF TypeOK, MarkFailed, Statuses
  <2>3. \A v \in Workers : pc'[v] \in {"idle", "ensure", "claim", "check"} => at'[v] \in Targets
    BY <1>10 DEF TypeOK, MarkFailed, Goto
  <2>. QED
    BY <1>10, <2>1, <2>2, <2>3 DEF TypeOK, MarkFailed, history
<1>11. ASSUME NEW w \in Workers, Conclude(w)
       PROVE  TypeOK'
  BY <1>11, LeaveType DEF TypeOK, Conclude, history
<1>12. ASSUME NEW w \in Workers, Abort(w)
       PROVE  TypeOK'
  <2>1. failures' \in 0..MaxFailures
    BY <1>12 DEF TypeOK, Abort
  <2>2. lost' \subseteq Targets
    BY <1>12 DEF TypeOK, Abort
  <2>. QED
    BY <1>12, <2>1, <2>2, LeaveType DEF TypeOK, Abort
<1>13. CASE Tick
  BY <1>13 DEF TypeOK, Tick, invocation, history
<1>14. CASE UNCHANGED vars
  BY <1>14 DEF TypeOK, vars, invocation, history
<1>. QED
  BY <1>1, <1>2, <1>3, <1>4, <1>5, <1>6, <1>7, <1>8, <1>9, <1>10, <1>11, <1>12, <1>13, <1>14
     DEF Next, Step

\* Type correctness.
THEOREM TypeCorrect == Spec => []TypeOK
<1>1. ASSUME Init
      PROVE  TypeOK
  <2>1. 1 \in 1..(NumTargets + 1) /\ 0 \in 0..MaxTime /\ 0 \in 0..MaxFailures
    BY Numbers
  <2>2. attempt \in [Targets -> [status : Statuses, at : 0..MaxTime]]
    BY <1>1, <2>1 DEF Init, Absent, Statuses
  <2>3. pc \in [Workers -> Stages]
    BY <1>1 DEF Init, Stages
  <2>. QED
    BY <1>1, <2>1, <2>2, <2>3, Numbers DEF Init, TypeOK
<1>. QED
  BY <1>1, TypeStep, PTL DEF Spec

-----------------------------------------------------------------------------
\* 'accepted' is terminal: no step of any invocation takes it back.
THEOREM AcceptedStays == Spec => AcceptedIsTerminal
<1>1. ASSUME TypeOK, [Next]_vars
      PROVE  [AcceptedRemain]_attempt
  <2>1. ASSUME NEW w \in Workers, EnsureAttemptRows(w)
        PROVE  AcceptedRemain
    BY <2>1 DEF EnsureAttemptRows, AcceptedRemain
  <2>2. ASSUME NEW w \in Workers, ClaimTarget(w)
        PROVE  AcceptedRemain
    BY <1>1, <2>2 DEF TypeOK, ClaimTarget, Claimable, Stale, AcceptedRemain
  <2>3. ASSUME NEW w \in Workers, MarkForwardAccepted(w)
        PROVE  AcceptedRemain
    BY <1>1, <2>3 DEF TypeOK, MarkForwardAccepted, AcceptedRemain
  <2>4. ASSUME NEW w \in Workers, MarkThrows(w)
        PROVE  AcceptedRemain
    BY <1>1, <2>4 DEF TypeOK, MarkThrows, AcceptedRemain
  <2>5. ASSUME NEW w \in Workers, MarkFailed(w)
        PROVE  AcceptedRemain
    BY <1>1, <2>5 DEF TypeOK, MarkFailed, AcceptedRemain
  <2>6. ASSUME NEW w \in Workers,
               Arrive(w) \/ MissTarget(w) \/ AttemptStatus(w) \/ ForwardReturns(w)
                 \/ ForwardThrows(w) \/ Conclude(w) \/ Abort(w)
        PROVE  UNCHANGED attempt
    BY <2>6 DEF Arrive, MissTarget, AttemptStatus, ForwardReturns, ForwardThrows, Conclude, Abort
  <2>7. CASE Tick
    BY <2>7 DEF Tick
  <2>8. CASE UNCHANGED vars
    BY <2>8 DEF vars
  <2>. QED
    BY <1>1, <2>1, <2>2, <2>3, <2>4, <2>5, <2>6, <2>7, <2>8 DEF Next, Step
<1>. QED
  BY <1>1, TypeCorrect, PTL DEF Spec, AcceptedIsTerminal

-----------------------------------------------------------------------------
\* Who may hold a target.  Only a lost record or a takeover lets a target be held
\* twice, be held after it was copied, or be copied and open to a new claim.
Excused == lost \union takenOver

HeldIsInFlight ==
  \A w \in Workers : \A t \in mine[w] :
    \/ attempt[t].status = "in_flight"
    \/ t \in Excused
    \/ pc[w] = "fail" /\ First(w, t) /\ attempt[t].status = "accepted"

HeldOnce ==
  \A v, w \in Workers : v # w => mine[v] \intersect mine[w] \subseteq Excused

CopiedIsClosed ==
  \A t \in copied : \/ attempt[t].status = "accepted"
                    \/ t \in Excused
                    \/ \E w \in Workers : pc[w] = "mark" /\ First(w, t)

Custody == HeldIsInFlight /\ HeldOnce /\ CopiedIsClosed /\ SecondCopiesAreExplained

\* Every step preserves the custody invariant.
LEMMA CustodyStep == TypeOK /\ Custody /\ [Next]_vars => Custody'
<1> SUFFICES ASSUME TypeOK, Custody, [Next]_vars
             PROVE  Custody'
  OBVIOUS
<1>. USE DEF Custody, SecondCopiesAreExplained
<1>1. ASSUME NEW w \in Workers, Arrive(w)
      PROVE  Custody'
  <2>1. UNCHANGED <<attempt, mine, lost, takenOver, copied, again>>
    BY <1>1 DEF Arrive, history
  <2>2. \A v \in Workers : pc'[v] = pc[v] \/ pc[v] = "idle"
    BY <1>1 DEF TypeOK, Arrive, Goto
  <2>3. HeldIsInFlight'
    BY <2>1, <2>2 DEF HeldIsInFlight, First, Excused
  <2>4. CopiedIsClosed'
    BY <2>1, <2>2 DEF CopiedIsClosed, First, Excused
  <2>. QED
    BY <2>1, <2>3, <2>4 DEF HeldOnce, Excused
<1>2. ASSUME NEW w \in Workers, EnsureAttemptRows(w)
      PROVE  Custody'
  <2>1. UNCHANGED <<mine, lost, takenOver, copied, again>>
    BY <1>2 DEF EnsureAttemptRows, history
  <2>2. \A v \in Workers : pc'[v] = pc[v] \/ pc[v] = "ensure"
    BY <1>2 DEF TypeOK, EnsureAttemptRows, Goto
  <2>3. \A t \in Targets : attempt[t].status \in {"in_flight", "accepted"}
                            => attempt'[t] = attempt[t]
    BY <1>2 DEF EnsureAttemptRows
  <2>4. HeldIsInFlight'
    BY <2>1, <2>2, <2>3 DEF HeldIsInFlight, First, Excused, TypeOK
  <2>5. CopiedIsClosed'
    BY <2>1, <2>2, <2>3 DEF CopiedIsClosed, First, Excused, TypeOK
  <2>. QED
    BY <2>1, <2>4, <2>5 DEF HeldOnce, Excused
<1>3. ASSUME NEW w \in Workers, ClaimTarget(w)
      PROVE  Custody'
  <2>. DEFINE t == at[w]
  <2>1. t \in Targets /\ pc[w] = "claim"
    BY <1>3 DEF TypeOK, ClaimTarget
  <2>2. UNCHANGED <<lost, copied, again>> /\ Excused \subseteq Excused'
    BY <1>3 DEF ClaimTarget, Excused
  <2>3. \A v \in Workers : v # w => mine'[v] = mine[v] /\ pc'[v] = pc[v]
    BY <1>3 DEF TypeOK, ClaimTarget, NextTarget, Goto
  <2>4. mine'[w] = mine[w] \union {t}
    BY <1>3 DEF TypeOK, ClaimTarget
  <2>5. /\ attempt'[t].status = "in_flight"
        /\ \A u \in Targets : u # t => attempt'[u] = attempt[u]
    BY <1>3, <2>1 DEF TypeOK, ClaimTarget
  <2>6. attempt[t].status # "accepted"
    BY <1>3 DEF ClaimTarget, Claimable, Stale
  <2>7. \A v \in Workers : t \in mine[v] => t \in Excused'
    BY <1>3, <2>1, <2>2, <2>6 DEF ClaimTarget, Claimable, HeldIsInFlight, Excused
  <2>8. HeldIsInFlight'
    <3> SUFFICES ASSUME NEW v \in Workers, NEW u \in mine'[v], u # t
                 PROVE  \/ attempt'[u].status = "in_flight"
                        \/ u \in Excused'
                        \/ pc'[v] = "fail" /\ First(v, u)' /\ attempt'[u].status = "accepted"
      BY <2>5 DEF HeldIsInFlight
    <3>1. u \in mine[v] /\ u \in Targets
      BY <2>3, <2>4 DEF TypeOK
    <3>2. CASE v = w
      BY <2>1, <2>2, <2>5, <3>1, <3>2 DEF HeldIsInFlight
    <3>3. CASE v # w
      BY <2>2, <2>3, <2>5, <3>1, <3>3 DEF HeldIsInFlight, First
    <3>. QED
      BY <3>2, <3>3
  <2>9. HeldOnce'
    BY <2>2, <2>3, <2>4, <2>7 DEF HeldOnce
  <2>10. CopiedIsClosed'
    <3> SUFFICES ASSUME NEW u \in copied
                 PROVE  \/ attempt'[u].status = "accepted"
                        \/ u \in Excused'
                        \/ \E v \in Workers : pc'[v] = "mark" /\ First(v, u)'
      BY <2>2 DEF CopiedIsClosed
    <3>1. CASE attempt[u].status = "accepted"
      BY <2>5, <2>6, <3>1 DEF TypeOK
    <3>2. CASE u \in Excused
      BY <2>2, <3>2
    <3>3. ASSUME NEW v \in Workers, pc[v] = "mark", First(v, u)
          PROVE  pc'[v] = "mark" /\ First(v, u)'
      BY <2>1, <2>3, <3>3 DEF First
    <3>. QED
      BY <3>1, <3>2, <3>3 DEF CopiedIsClosed
  <2>. QED
    BY <2>2, <2>8, <2>9, <2>10 DEF Excused
<1>4. ASSUME NEW w \in Workers, MissTarget(w) \/ AttemptStatus(w)
      PROVE  Custody'
  <2>1. UNCHANGED <<attempt, mine, lost, takenOver, copied, again>>
    BY <1>4 DEF MissTarget, AttemptStatus, history
  <2>2. \A v \in Workers : pc'[v] = pc[v] \/ pc[v] \in {"claim", "check"}
    BY <1>4 DEF TypeOK, MissTarget, AttemptStatus, NextTarget, Goto
  <2>3. HeldIsInFlight'
    BY <2>1, <2>2 DEF HeldIsInFlight, First, Excused
  <2>4. CopiedIsClosed'
    BY <2>1, <2>2 DEF CopiedIsClosed, First, Excused
  <2>. QED
    BY <2>1, <2>3, <2>4 DEF HeldOnce, Excused
<1>5. ASSUME NEW w \in Workers, ForwardReturns(w)
      PROVE  Custody'
  <2>1. PICK t \in Targets : First(w, t) /\ copied' = copied \union {t}
                            /\ again' = IF t \in copied THEN again \union {t} ELSE again
    BY <1>5 DEF ForwardReturns
  <2>2. UNCHANGED <<attempt, mine, lost, takenOver>> /\ pc[w] = "forward"
    BY <1>5 DEF ForwardReturns
  <2>3. pc'[w] = "mark" /\ \A v \in Workers : v # w => pc'[v] = pc[v]
    BY <1>5 DEF TypeOK, ForwardReturns, Goto
  <2>4. HeldIsInFlight'
    BY <2>2, <2>3 DEF HeldIsInFlight, First, Excused
  <2>5. CopiedIsClosed'
    BY <2>1, <2>2, <2>3 DEF CopiedIsClosed, First, Excused
  <2>6. t \in copied => t \in Excused
    <3>1. attempt[t].status = "in_flight" \/ t \in Excused
      BY <2>1, <2>2 DEF HeldIsInFlight, First
    <3>2. ASSUME NEW v \in Workers, pc[v] = "mark", First(v, t)
          PROVE  t \in Excused
      BY <2>1, <2>2, <3>2 DEF HeldOnce, First
    <3>. QED
      BY <3>1, <3>2 DEF CopiedIsClosed
  <2>7. again' \subseteq Excused'
    BY <2>1, <2>2, <2>6 DEF Excused
  <2>. QED
    BY <2>2, <2>4, <2>5, <2>7 DEF HeldOnce, Excused
<1>6. ASSUME NEW w \in Workers, ForwardThrows(w)
      PROVE  Custody'
  <2>1. UNCHANGED <<attempt, mine, lost, takenOver, copied, again>> /\ pc[w] = "forward"
    BY <1>6 DEF ForwardThrows, history
  <2>2. \A v \in Workers : v # w => pc'[v] = pc[v]
    BY <1>6 DEF TypeOK, ForwardThrows, Goto
  <2>3. HeldIsInFlight'
    BY <2>1, <2>2 DEF HeldIsInFlight, First, Excused
  <2>4. CopiedIsClosed'
    BY <2>1, <2>2 DEF CopiedIsClosed, First, Excused
  <2>. QED
    BY <2>1, <2>3, <2>4 DEF HeldOnce, Excused
<1>7. ASSUME NEW w \in Workers, MarkForwardAccepted(w)
      PROVE  Custody'
  <2>1. PICK t \in Targets : /\ First(w, t)
                            /\ attempt' = [attempt EXCEPT ![t].status = "accepted"]
                            /\ Drop(w, t)
    BY <1>7 DEF MarkForwardAccepted
  <2>2. UNCHANGED <<lost, takenOver, copied, again>> /\ pc[w] = "mark"
    BY <1>7 DEF MarkForwardAccepted, history
  <2>3. pc'[w] = "forward" /\ \A v \in Workers : v # w => pc'[v] = pc[v]
    BY <1>7 DEF TypeOK, MarkForwardAccepted, Goto
  <2>4. mine'[w] = mine[w] \ {t} /\ \A v \in Workers : v # w => mine'[v] = mine[v]
    BY <2>1 DEF TypeOK, Drop
  <2>5. /\ attempt'[t].status = "accepted"
        /\ \A u \in Targets : u # t => attempt'[u] = attempt[u]
    BY <2>1 DEF TypeOK
  <2>6. HeldIsInFlight'
    <3> SUFFICES ASSUME NEW v \in Workers, NEW u \in mine'[v]
                 PROVE  \/ attempt'[u].status = "in_flight"
                        \/ u \in Excused'
                        \/ pc'[v] = "fail" /\ First(v, u)' /\ attempt'[u].status = "accepted"
      BY DEF HeldIsInFlight
    <3>1. u \in mine[v] /\ u \in Targets
      BY <2>4 DEF TypeOK
    <3>2. CASE v = w
      BY <2>2, <2>4, <2>5, <3>1, <3>2 DEF HeldIsInFlight, Excused
    <3>3. CASE v # w /\ u = t
      BY <2>1, <2>2, <3>1, <3>3 DEF HeldOnce, First, Excused
    <3>4. CASE v # w /\ u # t
      BY <2>2, <2>3, <2>4, <2>5, <3>1, <3>4 DEF HeldIsInFlight, First, Excused
    <3>. QED
      BY <3>2, <3>3, <3>4
  <2>7. HeldOnce'
    BY <2>2, <2>4 DEF HeldOnce, Excused
  <2>8. CopiedIsClosed'
    <3> SUFFICES ASSUME NEW u \in copied, u # t
                 PROVE  \/ attempt'[u].status = "accepted"
                        \/ u \in Excused'
                        \/ \E v \in Workers : pc'[v] = "mark" /\ First(v, u)'
      BY <2>2, <2>5 DEF CopiedIsClosed
    <3>1. u \in Targets /\ attempt'[u] = attempt[u]
      BY <2>5 DEF TypeOK
    <3>2. ASSUME NEW v \in Workers, pc[v] = "mark", First(v, u)
          PROVE  pc'[v] = "mark" /\ First(v, u)'
      <4>1. v # w
        BY <2>1, <3>1, <3>2, FirstIsUnique
      <4>. QED
        BY <2>3, <2>4, <3>2, <4>1 DEF First
    <3>. QED
      BY <2>2, <3>1, <3>2 DEF CopiedIsClosed, Excused
  <2>. QED
    BY <2>2, <2>6, <2>7, <2>8 DEF Excused
<1>8. ASSUME NEW w \in Workers, MarkThrows(w)
      PROVE  Custody'
  <2>1. PICK t \in Targets, applied \in BOOLEAN :
          /\ First(w, t)
          /\ attempt' = IF applied THEN [attempt EXCEPT ![t].status = "accepted"] ELSE attempt
          /\ lost' = IF applied THEN lost ELSE lost \union {t}
    BY <1>8 DEF MarkThrows
  <2>2. UNCHANGED <<mine, takenOver, copied, again>> /\ pc[w] = "mark"
    BY <1>8 DEF MarkThrows
  <2>3. pc'[w] = "fail" /\ \A v \in Workers : v # w => pc'[v] = pc[v]
    BY <1>8 DEF TypeOK, MarkThrows, Goto
  <2>4. Excused \subseteq Excused'
    BY <2>1, <2>2 DEF Excused
  <2>5. /\ attempt'[t].status = "accepted" \/ t \in Excused'
        /\ \A u \in Targets : u # t => attempt'[u] = attempt[u]
    BY <2>1 DEF TypeOK, Excused
  <2>6. HeldIsInFlight'
    <3> SUFFICES ASSUME NEW v \in Workers, NEW u \in mine[v]
                 PROVE  \/ attempt'[u].status = "in_flight"
                        \/ u \in Excused'
                        \/ pc'[v] = "fail" /\ First(v, u)' /\ attempt'[u].status = "accepted"
      BY <2>2 DEF HeldIsInFlight
    <3>1. u \in Targets
      BY DEF TypeOK
    <3>2. CASE v = w /\ u = t
      BY <2>1, <2>2, <2>3, <2>5, <3>2 DEF First
    <3>3. CASE v # w /\ u = t
      BY <2>1, <2>4, <3>3 DEF HeldOnce, First
    <3>4. CASE u # t
      BY <2>2, <2>3, <2>4, <2>5, <3>1, <3>4 DEF HeldIsInFlight, First
    <3>. QED
      BY <3>2, <3>3, <3>4
  <2>7. CopiedIsClosed'
    <3> SUFFICES ASSUME NEW u \in copied, u # t
                 PROVE  \/ attempt'[u].status = "accepted"
                        \/ u \in Excused'
                        \/ \E v \in Workers : pc'[v] = "mark" /\ First(v, u)'
      BY <2>2, <2>5 DEF CopiedIsClosed
    <3>1. u \in Targets /\ attempt'[u] = attempt[u]
      BY <2>5 DEF TypeOK
    <3>2. ASSUME NEW v \in Workers, pc[v] = "mark", First(v, u)
          PROVE  pc'[v] = "mark" /\ First(v, u)'
      <4>1. v # w
        BY <2>1, <3>1, <3>2, FirstIsUnique
      <4>. QED
        BY <2>2, <2>3, <3>2, <4>1 DEF First
    <3>. QED
      BY <2>4, <3>1, <3>2 DEF CopiedIsClosed
  <2>. QED
    BY <2>2, <2>4, <2>6, <2>7 DEF HeldOnce, Excused
<1>9. ASSUME NEW w \in Workers, MarkFailed(w)
      PROVE  Custody'
  <2>1. PICK t \in Targets :
          /\ First(w, t)
          /\ attempt' = [attempt EXCEPT ![t].status = IF @ = "accepted" THEN @ ELSE "failed"]
          /\ Drop(w, t)
    BY <1>9 DEF MarkFailed
  <2>2. UNCHANGED <<lost, takenOver, copied, again>> /\ pc[w] = "fail"
    BY <1>9 DEF MarkFailed, history
  <2>3. pc'[w] = "forward" /\ \A v \in Workers : v # w => pc'[v] = pc[v]
    BY <1>9 DEF TypeOK, MarkFailed, Goto
  <2>4. mine'[w] = mine[w] \ {t} /\ \A v \in Workers : v # w => mine'[v] = mine[v]
    BY <2>1 DEF TypeOK, Drop
  <2>5. /\ attempt[t].status = "accepted" => attempt'[t].status = "accepted"
        /\ \A u \in Targets : u # t => attempt'[u] = attempt[u]
    BY <2>1 DEF TypeOK
  <2>6. HeldIsInFlight'
    <3> SUFFICES ASSUME NEW v \in Workers, NEW u \in mine'[v]
                 PROVE  \/ attempt'[u].status = "in_flight"
                        \/ u \in Excused'
                        \/ pc'[v] = "fail" /\ First(v, u)' /\ attempt'[u].status = "accepted"
      BY DEF HeldIsInFlight
    <3>1. u \in mine[v] /\ u \in Targets
      BY <2>4 DEF TypeOK
    <3>2. CASE v = w
      <4>1. u # t /\ attempt'[u] = attempt[u]
        BY <2>4, <2>5, <3>1, <3>2
      <4>2. ~First(w, u)
        BY <2>1, <3>1, <4>1, FirstIsUnique
      <4>. QED
        BY <2>2, <3>1, <3>2, <4>1, <4>2 DEF HeldIsInFlight, Excused
    <3>3. CASE v # w /\ u = t
      BY <2>1, <2>2, <3>1, <3>3 DEF HeldOnce, First, Excused
    <3>4. CASE v # w /\ u # t
      BY <2>2, <2>3, <2>4, <2>5, <3>1, <3>4 DEF HeldIsInFlight, First, Excused
    <3>. QED
      BY <3>2, <3>3, <3>4
  <2>7. HeldOnce'
    BY <2>2, <2>4 DEF HeldOnce, Excused
  <2>8. CopiedIsClosed'
    <3> SUFFICES ASSUME NEW u \in copied
                 PROVE  \/ attempt'[u].status = "accepted"
                        \/ u \in Excused'
                        \/ \E v \in Workers : pc'[v] = "mark" /\ First(v, u)'
      BY <2>2 DEF CopiedIsClosed
    <3>1. u \in Targets /\ (attempt[u].status = "accepted" => attempt'[u].status = "accepted")
      BY <2>5 DEF TypeOK
    <3>2. ASSUME NEW v \in Workers, pc[v] = "mark", First(v, u)
          PROVE  pc'[v] = "mark" /\ First(v, u)'
      BY <2>2, <2>3, <2>4, <3>2 DEF First
    <3>. QED
      BY <2>2, <3>1, <3>2 DEF CopiedIsClosed, Excused
  <2>. QED
    BY <2>2, <2>6, <2>7, <2>8 DEF Excused
<1>10. ASSUME NEW w \in Workers, Leave(w), pc[w] # "mark", UNCHANGED <<attempt, history>>
       PROVE  Custody'
  <2>1. mine'[w] = {} /\ \A v \in Workers : v # w => mine'[v] = mine[v] /\ pc'[v] = pc[v]
    BY <1>10 DEF TypeOK, Leave, Goto
  <2>2. HeldIsInFlight'
    BY <1>10, <2>1 DEF HeldIsInFlight, First, Excused, history
  <2>3. HeldOnce'
    BY <1>10, <2>1 DEF HeldOnce, Excused, history
  <2>4. CopiedIsClosed'
    BY <1>10, <2>1 DEF CopiedIsClosed, First, Excused, history
  <2>. QED
    BY <1>10, <2>2, <2>3, <2>4 DEF Excused, history
<1>11. ASSUME NEW w \in Workers, Conclude(w)
       PROVE  Custody'
  BY <1>10, <1>11 DEF Conclude
<1>12. ASSUME NEW w \in Workers, Abort(w)
       PROVE  Custody'
  <2>1. CASE pc[w] # "mark"
    BY <1>10, <1>12, <2>1 DEF Abort, history
  <2>2. CASE pc[w] = "mark"
    <3>1. mine'[w] = {} /\ \A v \in Workers : v # w => mine'[v] = mine[v] /\ pc'[v] = pc[v]
      BY <1>12 DEF TypeOK, Abort, Leave, Goto
    <3>2. UNCHANGED <<attempt, takenOver, copied, again>>
      BY <1>12 DEF Abort
    <3>3. Excused' = Excused \union {t \in Targets : First(w, t)}
      BY <1>12, <2>2, <3>2 DEF Abort, Excused
    <3>4. HeldIsInFlight'
      BY <3>1, <3>2, <3>3 DEF HeldIsInFlight, First
    <3>5. HeldOnce'
      BY <3>1, <3>3 DEF HeldOnce
    <3>6. CopiedIsClosed'
      BY <3>1, <3>2, <3>3 DEF CopiedIsClosed, First, TypeOK
    <3>. QED
      BY <3>2, <3>3, <3>4, <3>5, <3>6 DEF Excused
  <2>. QED
    BY <2>1, <2>2
<1>13. CASE Tick \/ UNCHANGED vars
  <2>1. UNCHANGED <<attempt, pc, mine, history>>
    BY <1>13 DEF Tick, vars, invocation
  <2>. QED
    BY <2>1 DEF HeldIsInFlight, HeldOnce, CopiedIsClosed, First, Excused, history
<1>. QED
  BY <1>1, <1>2, <1>3, <1>4, <1>5, <1>6, <1>7, <1>8, <1>9, <1>11, <1>12, <1>13 DEF Next, Step

\* A second copy to a target has a cause: an expired claim or a lost record.
THEOREM SecondCopies == Spec => []SecondCopiesAreExplained
<1>1. Init => Custody
  BY DEF Init, Custody, HeldIsInFlight, HeldOnce, CopiedIsClosed, SecondCopiesAreExplained, Excused
<1>2. Custody => SecondCopiesAreExplained
  BY DEF Custody
<1>. QED
  BY <1>1, <1>2, TypeCorrect, CustodyStep, PTL DEF Spec

-----------------------------------------------------------------------------
\* Every target an invocation has passed is still to be forwarded, or counted as
\* accepted, or counted as trouble; and it counts as accepted what was copied.
Accounted(w) ==
  /\ pc[w] = "forward" \/ at[w] # 1 => mine[w] # {} \/ accepted[w] \/ troubled[w]
  /\ pc[w] = "mark" => accepted[w] /\ \A t \in Targets : First(w, t) => t \in copied
  /\ pc[w] = "fail" => troubled[w]
  /\ accepted[w] => copied # {}

Accounts ==
  /\ \A w \in Workers : Accounted(w)
  /\ AcceptedWasForwarded
  /\ SettledMeansForwarded

\* A step of one invocation leaves the accounts of the others alone.
LEMMA OthersAccounted ==
  ASSUME NEW v \in Workers, Accounted(v), copied \subseteq copied',
         UNCHANGED <<pc[v], at[v], mine[v], accepted[v], troubled[v]>>
  PROVE  Accounted(v)'
BY DEF Accounted, First

\* Every step preserves the accounts.
LEMMA AccountsStep == TypeOK /\ Accounts /\ [Next]_vars => Accounts'
<1> SUFFICES ASSUME TypeOK, Accounts, [Next]_vars
             PROVE  Accounts'
  OBVIOUS
<1>. USE DEF Accounts
<1>1. ASSUME NEW w \in Workers, Arrive(w) \/ EnsureAttemptRows(w) \/ MissTarget(w)
      PROVE  Accounts'
  <2>1. UNCHANGED <<at, mine, accepted, troubled, copied, settled>>
    BY <1>1 DEF Arrive, EnsureAttemptRows, MissTarget, history
  <2>2. /\ pc'[w] \in {"ensure", "claim", "check"}
        /\ \A v \in Workers : v # w => pc'[v] = pc[v]
    BY <1>1 DEF TypeOK, Arrive, EnsureAttemptRows, MissTarget, Goto
  <2>3. \A v \in Workers : Accounted(v)'
    BY <2>1, <2>2 DEF Accounted, First
  <2>4. AcceptedWasForwarded'
    BY <1>1, <2>1 DEF AcceptedWasForwarded, Arrive, EnsureAttemptRows, MissTarget
  <2>. QED
    BY <2>1, <2>3, <2>4 DEF SettledMeansForwarded
<1>2. ASSUME NEW w \in Workers, ClaimTarget(w)
      PROVE  Accounts'
  <2>1. UNCHANGED <<accepted, troubled, copied, settled>>
    BY <1>2 DEF ClaimTarget
  <2>2. pc'[w] \in {"claim", "forward"} /\ mine'[w] # {}
    BY <1>2 DEF TypeOK, ClaimTarget, NextTarget, Goto
  <2>3. \A v \in Workers : v # w => UNCHANGED <<pc[v], at[v], mine[v]>>
    BY <1>2 DEF TypeOK, ClaimTarget, NextTarget, Goto
  <2>4. Accounted(w)'
    BY <2>1, <2>2 DEF Accounted
  <2>5. \A v \in Workers : v # w => Accounted(v)'
    BY <2>1, <2>3, OthersAccounted
  <2>6. AcceptedWasForwarded'
    BY <1>2, <2>1 DEF TypeOK, AcceptedWasForwarded, ClaimTarget
  <2>. QED
    BY <2>1, <2>4, <2>5, <2>6 DEF SettledMeansForwarded
<1>3. ASSUME NEW w \in Workers, AttemptStatus(w)
      PROVE  Accounts'
  <2>1. UNCHANGED <<attempt, mine, copied, settled>> /\ at[w] \in Targets
    BY <1>3 DEF TypeOK, AttemptStatus, history
  <2>2. pc'[w] \in {"claim", "forward"} /\ (accepted'[w] \/ troubled'[w])
    BY <1>3 DEF TypeOK, AttemptStatus, NextTarget, Goto
  <2>3. \A v \in Workers : v # w => UNCHANGED <<pc[v], at[v], accepted[v], troubled[v]>>
    BY <1>3 DEF TypeOK, AttemptStatus, NextTarget, Goto
  <2>4. accepted'[w] => copied # {}
    BY <1>3, <2>1 DEF TypeOK, AttemptStatus, AcceptedWasForwarded, Accounted
  <2>5. Accounted(w)'
    BY <2>1, <2>2, <2>4 DEF Accounted
  <2>6. \A v \in Workers : v # w => Accounted(v)'
    BY <2>1, <2>3, OthersAccounted
  <2>. QED
    BY <2>1, <2>5, <2>6 DEF SettledMeansForwarded, AcceptedWasForwarded
<1>4. ASSUME NEW w \in Workers, ForwardReturns(w)
      PROVE  Accounts'
  <2>1. PICK t \in Targets : First(w, t) /\ copied' = copied \union {t}
    BY <1>4 DEF ForwardReturns
  <2>2. UNCHANGED <<attempt, at, mine, troubled, settled>> /\ pc'[w] = "mark" /\ accepted'[w]
    BY <1>4 DEF TypeOK, ForwardReturns, Goto
  <2>3. \A v \in Workers : v # w => UNCHANGED <<pc[v], accepted[v]>>
    BY <1>4 DEF TypeOK, ForwardReturns, Goto
  <2>4. \A u \in Targets : First(w, u)' => u = t
    BY <2>1, <2>2, FirstIsUnique DEF First
  <2>5. Accounted(w)'
    BY <2>1, <2>2, <2>4 DEF Accounted
  <2>6. \A v \in Workers : v # w => Accounted(v)'
    BY <2>1, <2>2, <2>3, OthersAccounted
  <2>. QED
    BY <2>1, <2>2, <2>5, <2>6 DEF SettledMeansForwarded, AcceptedWasForwarded
<1>5. ASSUME NEW w \in Workers, ForwardThrows(w) \/ MarkThrows(w)
      PROVE  Accounts'
  <2>1. UNCHANGED <<at, mine, accepted, copied, settled>>
    BY <1>5 DEF ForwardThrows, MarkThrows, history
  <2>2. pc'[w] = "fail" /\ troubled'[w]
    BY <1>5 DEF TypeOK, ForwardThrows, MarkThrows, Goto
  <2>3. \A v \in Workers : v # w => UNCHANGED <<pc[v], troubled[v]>>
    BY <1>5 DEF TypeOK, ForwardThrows, MarkThrows, Goto
  <2>4. \A v \in Workers : Accounted(v)'
    BY <2>1, <2>2, <2>3, OthersAccounted DEF Accounted
  <2>5. AcceptedWasForwarded'
    <3>1. CASE ForwardThrows(w)
      BY <2>1, <3>1 DEF ForwardThrows, AcceptedWasForwarded
    <3>2. CASE MarkThrows(w)
      <4>1. PICK t \in Targets, applied \in BOOLEAN :
              First(w, t) /\ pc[w] = "mark"
              /\ attempt' = IF applied THEN [attempt EXCEPT ![t].status = "accepted"] ELSE attempt
        BY <3>2 DEF MarkThrows
      <4>2. t \in copied
        BY <4>1 DEF Accounted
      <4>. QED
        BY <2>1, <4>1, <4>2 DEF TypeOK, AcceptedWasForwarded
    <3>. QED
      BY <1>5, <3>1, <3>2
  <2>. QED
    BY <2>1, <2>4, <2>5 DEF SettledMeansForwarded
<1>6. ASSUME NEW w \in Workers, MarkForwardAccepted(w) \/ MarkFailed(w)
      PROVE  Accounts'
  <2>1. UNCHANGED <<at, accepted, troubled, copied, settled>>
    BY <1>6 DEF MarkForwardAccepted, MarkFailed, history
  <2>2. pc'[w] = "forward" /\ pc[w] \in {"mark", "fail"}
    BY <1>6 DEF TypeOK, MarkForwardAccepted, MarkFailed, Goto
  <2>3. \A v \in Workers : v # w => UNCHANGED <<pc[v], mine[v]>>
    BY <1>6 DEF TypeOK, MarkForwardAccepted, MarkFailed, Goto, Drop
  <2>4. Accounted(w)'
    BY <2>1, <2>2 DEF Accounted
  <2>5. \A v \in Workers : v # w => Accounted(v)'
    BY <2>1, <2>3, OthersAccounted
  <2>6. AcceptedWasForwarded'
    <3>1. CASE MarkForwardAccepted(w)
      BY <2>1, <3>1 DEF TypeOK, MarkForwardAccepted, AcceptedWasForwarded, Accounted
    <3>2. CASE MarkFailed(w)
      BY <2>1, <3>2 DEF TypeOK, MarkFailed, AcceptedWasForwarded
    <3>. QED
      BY <1>6, <3>1, <3>2
  <2>. QED
    BY <2>1, <2>4, <2>5, <2>6 DEF SettledMeansForwarded
<1>7. ASSUME NEW w \in Workers, Leave(w), UNCHANGED <<attempt, copied>>
      PROVE  (\A v \in Workers : Accounted(v)') /\ AcceptedWasForwarded'
  <2>1. /\ pc'[w] = "idle" /\ at'[w] = 1 /\ ~accepted'[w]
        /\ \A v \in Workers : v # w => UNCHANGED <<pc[v], at[v], mine[v], accepted[v], troubled[v]>>
    BY <1>7 DEF TypeOK, Leave, Goto
  <2>2. Accounted(w)'
    BY <2>1 DEF Accounted
  <2>3. \A v \in Workers : v # w => Accounted(v)'
    BY <1>7, <2>1, OthersAccounted
  <2>. QED
    BY <1>7, <2>2, <2>3 DEF AcceptedWasForwarded
<1>8. ASSUME NEW w \in Workers, Conclude(w)
      PROVE  Accounts'
  <2>1. settled' => copied # {}
    BY <1>8 DEF Conclude, Accounted, SettledMeansForwarded, TypeOK
  <2>. QED
    BY <1>7, <1>8, <2>1 DEF Conclude, history, SettledMeansForwarded
<1>9. ASSUME NEW w \in Workers, Abort(w)
      PROVE  Accounts'
  BY <1>7, <1>9 DEF Abort, SettledMeansForwarded
<1>10. CASE Tick \/ UNCHANGED vars
  <2>1. UNCHANGED <<attempt, pc, at, mine, accepted, troubled, settled, copied>>
    BY <1>10 DEF Tick, vars, invocation, history
  <2>. QED
    BY <2>1 DEF Accounted, First, AcceptedWasForwarded, SettledMeansForwarded
<1>. QED
  BY <1>1, <1>2, <1>3, <1>4, <1>5, <1>6, <1>8, <1>9, <1>10 DEF Next, Step

\* The accounts hold in every reachable state.
LEMMA AccountsHold == Spec => []Accounts
<1>1. Init => Accounts
  BY DEF Init, Absent, Accounts, Accounted, AcceptedWasForwarded, SettledMeansForwarded
<1>. QED
  BY <1>1, TypeCorrect, AccountsStep, PTL DEF Spec

\* 'accepted' is recorded only of a target for which forward() returned.
THEOREM AcceptedForwarded == Spec => []AcceptedWasForwarded
<1>1. Accounts => AcceptedWasForwarded
  BY DEF Accounts
<1>. QED
  BY <1>1, AccountsHold, PTL

\* A message the handler reports as taken was forwarded to some target.
THEOREM SettledForwarded == Spec => []SettledMeansForwarded
<1>1. Accounts => SettledMeansForwarded
  BY DEF Accounts
<1>. QED
  BY <1>1, AccountsHold, PTL
=============================================================================
